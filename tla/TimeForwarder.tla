---------------------------- MODULE TimeForwarder ----------------------------
(***************************************************************************)
(* The time forwarder of a DTN test (SerialTimeForwarder.cpp): a worker    *)
(* thread reads the lines of the time server from one serial port and      *)
(* sends each time to the unit over another.                               *)
(*                                                                         *)
(* A line comes in Parts pieces: the head and the tail of what stands      *)
(* before the seconds, the tens of the seconds, their units with the zone, *)
(* and the newline.  Pieces are numbered through, so that what a read has  *)
(* returned is an interval of numbers.  Within a piece it does not matter  *)
(* to the parser where a read ends.                                        *)
(*                                                                         *)
(* The verify thread, which this use leaves disabled, the statistics and   *)
(* the layout of the packet are left out.                                  *)
(***************************************************************************)
EXTENDS Naturals

CONSTANTS
  MaxPieces,   \* bound: pieces the time server sends
  MaxBacklog   \* bound: pieces waiting in the port, no more than one read takes

Parts == 5

VARIABLES
  caller,    \* Dtn: before start, while it runs, in stop, and after it
  worker,    \* where workerLoop is
  sent,      \* pieces that have come in at the port
  from, to,  \* the response: the pieces from .. to - 1
  packet,    \* the time in the packet
  unit,      \* the time the unit was given last
  seen,      \* history: lines complete when the port was last read
  before,    \* history: the same for the response before this one
  broken     \* history: the response does not begin and end with a line

vars == <<caller, worker, sent, from, to, packet, unit, seen, before, broken>>

\* A time is the number of its line; it is not whole without the units of its seconds.
Nothing == [line |-> 0, whole |-> FALSE]
TimeOf(n, units) == [line |-> n + 1, whole |-> units]

Line(piece) == piece \div Parts
StartsLine(piece) == piece % Parts = 0
IsNewline(piece) == piece % Parts = Parts - 1

\* Opening the ports flushes them, in the middle of a line perhaps.
Init ==
  /\ caller = "start" /\ worker = "off"
  /\ sent \in 0 .. Parts - 1 /\ from = sent /\ to = sent
  /\ packet = Nothing /\ unit = Nothing
  /\ seen = 0 /\ before = 0 /\ broken = FALSE

-----------------------------------------------------------------------------
(* Dtn and the time server.                                                *)

Start ==
  /\ caller = "start"
  /\ caller' = "running" /\ worker' = "test"
  /\ UNCHANGED <<sent, from, to, packet, unit, seen, before, broken>>

\* A port cannot be opened; the one opened before it is closed again.
StartFails ==
  /\ caller = "start"
  /\ caller' = "stopped"
  /\ UNCHANGED <<worker, sent, from, to, packet, unit, seen, before, broken>>

StopBegins ==
  /\ caller = "running"
  /\ caller' = "join"
  /\ UNCHANGED <<worker, sent, from, to, packet, unit, seen, before, broken>>

\* The thread is joined, then the ports are closed.
StopEnds ==
  /\ caller = "join" /\ worker = "off"
  /\ caller' = "stopped"
  /\ UNCHANGED <<worker, sent, from, to, packet, unit, seen, before, broken>>

ServerSends ==
  /\ caller \in {"running", "join"}
  /\ sent < MaxPieces /\ sent - to < MaxBacklog
  /\ sent' = sent + 1
  /\ UNCHANGED <<caller, worker, from, to, packet, unit, seen, before, broken>>

-----------------------------------------------------------------------------
(* workerLoop.                                                             *)

Test ==
  /\ worker = "test"
  /\ worker' = IF caller = "running" THEN "read" ELSE "off"
  /\ from' = to
  /\ before' = seen
  /\ broken' = ~StartsLine(to)
  /\ UNCHANGED <<caller, sent, to, packet, unit, seen>>

\* Mutant: a read ends with its first newline.
ReadLine ==
  /\ worker = "read" /\ to < sent
  /\ to' = to + 1
  /\ seen' = Line(sent)
  /\ worker' = IF IsNewline(to) THEN "parse" ELSE "read"
  /\ UNCHANGED <<caller, sent, from, packet, unit, before, broken>>

\* readResponse takes what there is, and goes on until a newline is among it.
Read ==
  /\ worker = "read" /\ to < sent
  /\ to' = sent
  /\ seen' = Line(sent)
  /\ worker' = IF \E p \in to .. sent - 1 : IsNewline(p) THEN "parse" ELSE "read"
  /\ UNCHANGED <<caller, sent, from, packet, unit, before, broken>>

\* After two seconds, or when a read fails, it returns what it has.
ReadEnds ==
  /\ worker = "read"
  /\ worker' = "parse"
  /\ broken' = TRUE
  /\ UNCHANGED <<caller, sent, from, to, packet, unit, seen, before>>

\* When select fails, a signal being enough, what it has is gone.
SelectFails ==
  /\ worker = "read"
  /\ worker' = "test"
  /\ UNCHANGED <<caller, sent, from, to, packet, unit, seen, before, broken>>

\* The response without the newline of the line before.
First == IF from < to /\ IsNewline(from) THEN from + 1 ELSE from

\* parseTimeString finds a time where a line begins and goes on into the seconds;
\* what begins in the middle of a line has no year from 1970 on.
HasTime == StartsLine(First) /\ to >= First + 3

Parse ==
  /\ worker = "parse"
  /\ \/ /\ HasTime
        /\ packet' = TimeOf(Line(First), to >= First + 4)
        /\ worker' = "send"
     \/ ~HasTime /\ worker' = "test" /\ UNCHANGED packet
  /\ UNCHANGED <<caller, sent, from, to, unit, seen, before, broken>>

Send ==
  /\ worker = "send"
  /\ unit' = packet
  /\ worker' = "test"
  /\ UNCHANGED <<caller, sent, from, to, packet, seen, before, broken>>

\* The packet could not be written, or not all of it.
SendFails ==
  /\ worker = "send"
  /\ worker' = "test"
  /\ UNCHANGED <<caller, sent, from, to, packet, unit, seen, before, broken>>

Next ==
  \/ Start \/ StartFails \/ StopBegins \/ StopEnds \/ ServerSends
  \/ Test \/ Read \/ ReadEnds \/ SelectFails \/ Parse \/ Send \/ SendFails

Spec == Init /\ [][Next]_vars

-----------------------------------------------------------------------------
(* Properties.                                                             *)

\* The times the unit is given only go forward and none is given twice; after a delay
\* the forwarder does not work off what has piled up: a time was not complete yet
\* when the port was read for the one before.  It is a time the server sent, with all
\* of its seconds, unless the response began or ended in the middle of a line
\* (readResponse, workerLoop).
ForwardedInTime ==
  [][unit' # unit =>
       /\ unit'.line > unit.line
       /\ unit'.line > before
       /\ unit'.whole \/ broken]_vars
=============================================================================
