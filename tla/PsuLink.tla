------------------------------ MODULE PsuLink ------------------------------
(***************************************************************************)
(* The SCPI link between MainSoftware and a TDK-Lambda power supply:       *)
(* TcpPort and TDKLambdaPSU (TdkLambdaPsu.cpp) behind the DeviceManager    *)
(* facade, whose methods turn every PSUException into FALSE.  Each operator*)
(* below is one call as its caller sees it; the modules that drive the     *)
(* supply (PowerSequence) take them as conjuncts of their actions.         *)
(*                                                                         *)
(* The TCP session is what the environment makes of it:                    *)
(*   "up"      commands reach the supply and queries are answered          *)
(*   "silent"  send() succeeds, nothing arrives, reads time out (the idle  *)
(*             half-open socket the keepalive comment in open() describes) *)
(*   "broken"  the peer has reset or closed: send() or recv() reports it   *)
(*                                                                         *)
(* There is no lock: the main thread and the telemetry publisher can be in *)
(* the middle of a query each, so a query is several steps.                *)
(***************************************************************************)

VARIABLES
  psuOn,       \* the supply really drives its output
  session,     \* state of the current TCP session, as above
  portOpen,    \* TcpPort::m_is_open
  connected,   \* TDKLambdaPSU::m_connected
  query,       \* how far each thread is in the query it makes
  offLost      \* history: an OUTP OFF was wanted while on and never reached the supply

linkVars == <<psuOn, session, portOpen, connected, query, offLost>>

SessionStates == {"up", "silent", "broken"}

Threads == {"main", "publisher"}

\* Between two queries; past the guards; its write() has failed; in reconnect(),
\* before open() and before the answer to *IDN?; and after it, asking again.
Phases == {"idle", "asking", "failed", "reopening", "validating", "retrying"}

LinkTypeOK ==
  /\ psuOn \in BOOLEAN
  /\ session \in SessionStates
  /\ portOpen \in BOOLEAN
  /\ connected \in BOOLEAN
  /\ query \in [Threads -> Phases]
  /\ offLost \in BOOLEAN

LinkInit ==
  /\ psuOn = FALSE
  /\ session = "up"
  /\ portOpen = FALSE
  /\ connected = FALSE
  /\ query = [t \in Threads |-> "idle"]
  /\ offLost = FALSE

\* TDKLambdaPSU::isConnected: the guard in front of every DeviceManager call.
IsConnected == connected /\ portOpen

----------------------------------------------------------------------------
(* Calls.  ok is the Boolean the DeviceManager method returns.             *)

\* DeviceManager::connect: open, *IDN?, then *RST (which switches the output
\* off) and *CLS; any exception on the way disconnects again.
ConnectPsu(ok) ==
  /\ UNCHANGED <<query, offLost>>
  /\ \/ /\ ok = TRUE
        /\ psuOn' = FALSE /\ session' = "up" /\ portOpen' = TRUE /\ connected' = TRUE
     \/ /\ ok = FALSE
        /\ portOpen' = FALSE /\ connected' = FALSE
        /\ UNCHANGED <<psuOn, session>>

\* A command without an answer that does not switch the output: CURR, VOLT.
\* A failed send closes the port, and write() is called directly, so there is
\* no reconnect.
WriteCommand(ok) ==
  /\ UNCHANGED <<psuOn, session, connected, query, offLost>>
  /\ ok = (IsConnected /\ session # "broken")
  /\ portOpen' = (portOpen /\ ~(IsConnected /\ session = "broken"))

\* DeviceManager::enableOutput: OUTP ON or OUTP OFF.  The command takes effect
\* only over a session that is up; TRUE says no more than that send() accepted it.
\* Guard and send() are one step: a tear-down in between fails the command as the
\* guard would have.  That the port is open again by then, and the command arrives
\* nevertheless, is left out; here an OFF like that counts as lost.
EnableOutput(on, ok) ==
  LET arrives == IsConnected /\ session = "up" IN
  /\ psuOn' = IF arrives THEN on ELSE psuOn
  /\ offLost' = (offLost \/ (psuOn /\ ~on /\ ~arrives))
  /\ ok = (IsConnected /\ session # "broken")
  /\ portOpen' = (portOpen /\ ~(IsConnected /\ session = "broken"))
  /\ UNCHANGED <<session, connected, query>>

\* DeviceManager::disconnect: closes the port, never switches the output.
DisconnectPsu ==
  /\ portOpen' = FALSE
  /\ connected' = FALSE
  /\ UNCHANGED <<psuOn, session, query, offLost>>

----------------------------------------------------------------------------
(* Queries: sendQuery behind the isConnected guard of DeviceManager, made  *)
(* by thread t.                                                            *)

Phase(t, phase) == query' = [query EXCEPT ![t] = phase]

\* The guard lets the query through.
Ask(t) ==
  /\ query[t] = "idle" /\ IsConnected
  /\ Phase(t, "asking")
  /\ UNCHANGED <<psuOn, session, portOpen, connected, offLost>>

\* The send itself fails, be it for a dead session or because the other thread has
\* closed the port since: sendQuery calls reconnect().
SendFails(t) ==
  /\ query[t] = "asking" /\ (portOpen => session = "broken")
  /\ portOpen' = FALSE
  /\ Phase(t, "failed")
  /\ UNCHANGED <<psuOn, session, connected, offLost>>

\* reconnect() first tears down the transport, whatever that is by now.
TearDown(t) ==
  /\ query[t] = "failed"
  /\ portOpen' = FALSE /\ connected' = FALSE
  /\ Phase(t, "reopening")
  /\ UNCHANGED <<psuOn, session, offLost>>

\* open() keeps a port that is open; a new one need not be answered.
Reopen(t) ==
  /\ query[t] = "reopening"
  /\ portOpen' = TRUE
  /\ session' \in (IF portOpen THEN {session} ELSE {"up", "silent"})
  /\ Phase(t, "validating")
  /\ UNCHANGED <<psuOn, connected, offLost>>

\* The supply answers to *IDN?.  No *RST is sent, so the output keeps its state.
Validate(t) ==
  /\ query[t] = "validating" /\ portOpen /\ session = "up"
  /\ connected' = TRUE
  /\ Phase(t, "retrying")
  /\ UNCHANGED <<psuOn, session, portOpen, offLost>>

\* Some answer arrives over the session.
AnswerRead(t) ==
  /\ query[t] \in {"asking", "retrying"} /\ portOpen /\ session = "up"
  /\ Phase(t, "idle")
  /\ UNCHANGED <<psuOn, session, portOpen, connected, offLost>>

\* The port is found closed, or the time runs out; no answer to *IDN? leaves the
\* port open and nobody connected.
NoAnswer(t) ==
  /\ query[t] \in {"asking", "validating", "retrying"}
  /\ portOpen => session \in (IF query[t] = "validating" THEN {"up", "silent"} ELSE {"silent"})
  /\ Phase(t, "idle")
  /\ UNCHANGED <<psuOn, session, portOpen, connected, offLost>>

\* The send is accepted and recv() then reports the dead session (or the second
\* send fails): the port is closed and, the guard being false from now on, no later
\* call reconnects.
ReadFails(t) ==
  /\ query[t] \in {"asking", "retrying"} /\ portOpen /\ session = "broken"
  /\ portOpen' = FALSE
  /\ Phase(t, "idle")
  /\ UNCHANGED <<psuOn, session, connected, offLost>>

\* open(), write() or read() of reconnect() fails.
ReconnectFails(t) ==
  /\ \/ query[t] = "reopening" /\ ~portOpen
     \/ query[t] = "validating" /\ (portOpen => session = "broken")
  /\ portOpen' = FALSE /\ connected' = FALSE
  /\ Phase(t, "idle")
  /\ UNCHANGED <<psuOn, session, offLost>>

QueryGoesOn(t) == SendFails(t) \/ TearDown(t) \/ Reopen(t) \/ Validate(t)

QueryFails(t) == NoAnswer(t) \/ ReadFails(t) \/ ReconnectFails(t)

----------------------------------------------------------------------------
\* The process that used the link has ended.
ProcessGone ==
  /\ portOpen' = FALSE /\ connected' = FALSE
  /\ query' = [t \in Threads |-> "idle"]
  /\ UNCHANGED <<psuOn, session, offLost>>

\* The network or the supply drops the session.
LinkFault ==
  /\ portOpen
  /\ \/ session = "up" /\ session' \in {"silent", "broken"}
     \/ session = "silent" /\ session' = "broken"
  /\ UNCHANGED <<psuOn, portOpen, connected, query, offLost>>

=============================================================================
