----------------------------- MODULE SideThreads -----------------------------
(***************************************************************************)
(* The threads that accompany a test: the telemetry of the supply and the  *)
(* time forwarder.  They share no state: a behaviour is one of either.     *)
(***************************************************************************)
EXTENDS PsuTelemetry

CONSTANTS MaxPieces, MaxBacklog
VARIABLES part, caller, worker, sent, from, to, packet, unit, seen, before, broken

Time == INSTANCE TimeForwarder
timeVars == <<caller, worker, sent, from, to, packet, unit, seen, before, broken>>
allVars == <<part, vars, timeVars>>

SideInit ==
  /\ Init /\ Time!Init /\ part \in {"telemetry", "time"}
  /\ part = "telemetry" => sent = 0
  /\ part = "time" => app = "DTN"

Telemetry(A) == part = "telemetry" /\ A /\ UNCHANGED part /\ UNCHANGED timeVars

SideNext ==
  \/ Telemetry(Next)
  \/ part = "time" /\ Time!Next /\ UNCHANGED part /\ UNCHANGED vars

SideSpec ==
  /\ SideInit /\ [][SideNext]_allVars
  /\ WF_allVars(Telemetry(ListenerStep))
  /\ WF_allVars(Telemetry(PrinterStep))
  /\ WF_allVars(Telemetry(MainStep))

\* The times the unit is given only go forward (workerLoop): the property of the
\* forwarder, under its own name.
ForwardedInTime == Time!ForwardedInTime
=============================================================================
