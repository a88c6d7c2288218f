------------------------------- MODULE RawQueues -------------------------------
(***************************************************************************)
(* One virtual link in the receive queues of a raw socket port of the DTN  *)
(* application (RawSocketPort.c).  Its packets come in over several queues *)
(* with a worker each, so that a later number can be looked at before an   *)
(* earlier one.  Without a lock the workers keep the least and the         *)
(* greatest number and the count of the packets (g_vl_seq), from which     *)
(* the main thread takes once a second what was lost, and which it resets  *)
(* when the warm-up is over.                                               *)
(*                                                                         *)
(* Each atomic operation is a step of its own, and numbers wrap at Wrap.   *)
(* PRBS contents, the other counters of queue and port, packets of raw     *)
(* sources and packets that are skipped are left out.                      *)
(***************************************************************************)
EXTENDS Integers, Sequences, FiniteSets

CONSTANTS
  Queues,     \* rx_queues of the port
  Wrap,       \* 2^64
  MaxSeq,     \* bound: numbers 0 .. MaxSeq are sent; MaxSeq + 2 < Wrap
  MaxLost,    \* bound: losses, the kernel's drops included
  RingSize    \* packets a ring holds

ASSUME QueuesAssumption ==
  /\ MaxSeq \in Nat /\ MaxLost \in Nat /\ RingSize \in Nat \ {0}
  /\ Wrap \in Nat /\ MaxSeq + 2 < Wrap

Top == Wrap - 1     \* UINT64_MAX

VARIABLES
  number,    \* the next number on the way to the queues
  ring,      \* numbers in the ring of each queue
  worker,    \* where each queue's worker is, its packet and the value it loaded
  trk,       \* the VL's entry in g_vl_seq
  main,      \* the main thread: at a store of the reset, or at a load for the table,
             \* with its local variables and the most that may be shown as lost
  wasReset,  \* the warm-up is over
  stop,      \* force_quit
  lost,      \* history: numbers that were lost
  counted,   \* history: numbers counted since the start or the reset
  before,    \* history: numbers counted before the reset
  cut        \* history: a worker was in the middle of a packet during the reset

queueVars == <<number, ring, worker, trk, main, wasReset, stop, lost, counted, before, cut>>
pathVars == <<number, ring, lost>>
mainVars == <<main, wasReset>>
queueHistory == <<counted, before, cut>>

Poll == [at |-> "poll", seq |-> 0, old |-> 0]
Idle == [at |-> "idle", min |-> 0, max |-> 0, lost |-> 0, sure |-> FALSE, most |-> 0]

QueuesInit ==
  /\ number = 0 /\ ring = [q \in Queues |-> <<>>]
  /\ worker = [q \in Queues |-> Poll]
  /\ trk = [min |-> Top, max |-> 0, count |-> 0, init |-> FALSE]
  /\ main = Idle /\ wasReset = FALSE /\ stop = FALSE
  /\ lost = {} /\ counted = {} /\ before = {} /\ cut = FALSE

-----------------------------------------------------------------------------
(* The way to the queues.                                                  *)

\* The fan-out puts the next packet on any of the queues.
Arrive(q) ==
  /\ number <= MaxSeq /\ Len(ring[q]) < RingSize
  /\ ring' = [ring EXCEPT ![q] = Append(@, number)]
  /\ number' = number + 1
  /\ UNCHANGED <<worker, trk, mainVars, stop, lost, queueHistory>>

Lose ==
  /\ number <= MaxSeq /\ Cardinality(lost) < MaxLost
  /\ lost' = lost \cup {number}
  /\ number' = number + 1
  /\ UNCHANGED <<ring, worker, trk, mainVars, stop, queueHistory>>

-----------------------------------------------------------------------------
(* multi_queue_rx_worker.                                                  *)

Goes(q, at) == worker' = [worker EXCEPT ![q].at = at]
Loads(q, at, value) == worker' = [worker EXCEPT ![q].at = at, ![q].old = value]
Through(q) == worker' = [worker EXCEPT ![q] = Poll]
Undisturbed == UNCHANGED <<mainVars, stop>> /\ UNCHANGED pathVars
Packet(q) == worker[q].seq

Take(q) ==
  /\ worker[q].at = "poll" /\ ~stop /\ ring[q] # <<>>
  /\ worker' = [worker EXCEPT ![q] = [at |-> "count", seq |-> Head(ring[q]), old |-> 0]]
  /\ ring' = [ring EXCEPT ![q] = Tail(@)]
  /\ UNCHANGED <<number, trk, mainVars, stop, lost, queueHistory>>

Quit(q) ==
  /\ worker[q].at = "poll" /\ stop
  /\ Goes(q, "done")
  /\ Undisturbed /\ UNCHANGED <<trk, queueHistory>>

\* The main thread is between the first and the last store of the reset.
Resetting == main.at \in {"resetMax", "resetCount", "resetInit"}

Count(q) ==
  /\ worker[q].at = "count"
  /\ trk' = [trk EXCEPT !.count = @ + 1]
  /\ counted' = counted \cup {Packet(q)}
  /\ cut' = (cut \/ Resetting)
  /\ Goes(q, "first")
  /\ Undisturbed /\ UNCHANGED before

\* Only a worker that sees no first packet yet tries to be the one that has it.
LoadInit(q) ==
  /\ worker[q].at = "first"
  /\ Goes(q, IF trk.init THEN "loadMax" ELSE "casFirst")
  /\ Undisturbed /\ UNCHANGED <<trk, queueHistory>>

CasFirst(q) ==
  /\ worker[q].at = "casFirst"
  /\ \/ trk.min = Top /\ trk' = [trk EXCEPT !.min = Packet(q)] /\ Goes(q, "mark")
     \/ trk.min # Top /\ UNCHANGED trk /\ Goes(q, "loadMax")
  /\ Undisturbed /\ UNCHANGED queueHistory

MarkInit(q) ==
  /\ worker[q].at = "mark"
  /\ trk' = [trk EXCEPT !.init = TRUE]
  /\ Goes(q, "loadMax")
  /\ Undisturbed /\ UNCHANGED queueHistory

\* A maximum below the number is to be replaced, as long as it is still the one
\* that was loaded.
AfterMax(q, max) == Loads(q, IF Packet(q) > max THEN "casMax" ELSE "loadMin", max)

LoadMax(q) ==
  /\ worker[q].at = "loadMax"
  /\ AfterMax(q, trk.max)
  /\ Undisturbed /\ UNCHANGED <<trk, queueHistory>>

\* Mutant: the new maximum is stored whatever is there by now.
StoreMax(q) ==
  /\ worker[q].at = "casMax"
  /\ trk' = [trk EXCEPT !.max = Packet(q)] /\ Goes(q, "loadMin")
  /\ Undisturbed /\ UNCHANGED queueHistory

CasMax(q) ==
  /\ worker[q].at = "casMax"
  /\ \/ trk.max = worker[q].old /\ trk' = [trk EXCEPT !.max = Packet(q)] /\ Goes(q, "loadMin")
     \/ trk.max # worker[q].old /\ UNCHANGED trk /\ AfterMax(q, trk.max)
  /\ Undisturbed /\ UNCHANGED queueHistory

\* The same for the minimum, after which the packet is through.
AfterMin(q, min) == IF Packet(q) < min THEN Loads(q, "casMin", min) ELSE Through(q)

LoadMin(q) ==
  /\ worker[q].at = "loadMin"
  /\ AfterMin(q, trk.min)
  /\ Undisturbed /\ UNCHANGED <<trk, queueHistory>>

CasMin(q) ==
  /\ worker[q].at = "casMin"
  /\ \/ trk.min = worker[q].old /\ trk' = [trk EXCEPT !.min = Packet(q)] /\ Through(q)
     \/ trk.min # worker[q].old /\ UNCHANGED trk /\ AfterMin(q, trk.min)
  /\ Undisturbed /\ UNCHANGED queueHistory

WorkerStep(q) ==
  \/ Take(q) \/ Quit(q) \/ Count(q) \/ LoadInit(q) \/ CasFirst(q) \/ MarkInit(q)
  \/ LoadMax(q) \/ CasMax(q) \/ LoadMin(q) \/ CasMin(q)

-----------------------------------------------------------------------------
(* The main thread: reset_global_sequence_tracking when the warm-up is     *)
(* over, and get_global_sequence_lost for the table of each second.  It    *)
(* looks at force_quit only before it sleeps, so both may follow a stop.   *)

Between == UNCHANGED <<worker, stop>> /\ UNCHANGED pathVars

\* Packets that were counted and are not through.
InHand == {q \in Queues : worker[q].at \notin {"poll", "count", "done"}}

ResetMin ==
  /\ main.at = "idle" /\ ~wasReset
  /\ main' = [Idle EXCEPT !.at = "resetMax"]
  /\ trk' = [trk EXCEPT !.min = Top]
  /\ cut' = (InHand # {})
  /\ wasReset' = TRUE
  /\ Between /\ UNCHANGED <<counted, before>>

ResetMax ==
  /\ main.at = "resetMax"
  /\ main' = [main EXCEPT !.at = "resetCount"]
  /\ trk' = [trk EXCEPT !.max = 0]
  /\ Between /\ UNCHANGED <<wasReset, queueHistory>>

ResetCount ==
  /\ main.at = "resetCount"
  /\ main' = [main EXCEPT !.at = "resetInit"]
  /\ trk' = [trk EXCEPT !.count = 0]
  /\ counted' = {} /\ before' = counted
  /\ Between /\ UNCHANGED <<wasReset, cut>>

ResetInit ==
  /\ main.at = "resetInit"
  /\ main' = Idle
  /\ trk' = [trk EXCEPT !.init = FALSE]
  /\ Between /\ UNCHANGED <<wasReset, queueHistory>>

\* A packet is through: the maximum is one of the numbers counted.
Tracked == counted \ {Packet(q) : q \in InHand} # {}

ReadInit ==
  /\ main.at = "idle" /\ trk.init
  /\ main' = [Idle EXCEPT !.at = "readMin", !.sure = Tracked]
  /\ Between /\ UNCHANGED <<trk, wasReset, queueHistory>>

ReadMin ==
  /\ main.at = "readMin"
  /\ main' = [main EXCEPT !.at = "readMax", !.min = trk.min]
  /\ Between /\ UNCHANGED <<trk, wasReset, queueHistory>>

ReadMax ==
  /\ main.at = "readMax"
  /\ main' = [main EXCEPT !.at = "readCount", !.max = trk.max]
  /\ Between /\ UNCHANGED <<trk, wasReset, queueHistory>>

\* Mutant: the last number is counted once more.
LostOfOffByOne(min, max, count) ==
  LET expected == (max - min + 2) % Wrap
  IN IF expected > count THEN expected - count ELSE 0

\* expected = max - min + 1, and what of it was not counted.
LostOf(min, max, count) ==
  LET expected == (max - min + 1) % Wrap
  IN IF expected > count THEN expected - count ELSE 0

\* Numbers in a ring, or in the hands of a worker that has still to count them.
Uncounted ==
  (UNION {{ring[q][i] : i \in DOMAIN ring[q]} : q \in Queues})
    \cup {Packet(q) : q \in {r \in Queues : worker[r].at = "count"}}

\* Numbers that were sent and are not in the count.
Missing == lost \cup before \cup Uncounted

ReadCount ==
  /\ main.at = "readCount"
  /\ main' = [Idle EXCEPT !.at = "print",
       !.lost = LostOf(main.min, main.max, trk.count),
       !.most = IF main.sure /\ ~cut THEN Cardinality(Missing) ELSE Wrap]
  /\ Between /\ UNCHANGED <<trk, wasReset, queueHistory>>

PrintTable ==
  /\ main.at = "print"
  /\ main' = Idle
  /\ Between /\ UNCHANGED <<trk, wasReset, queueHistory>>

Stop ==
  /\ ~stop /\ stop' = TRUE
  /\ UNCHANGED <<worker, trk, mainVars, queueHistory>> /\ UNCHANGED pathVars

MainStep ==
  \/ ResetMin \/ ResetMax \/ ResetCount \/ ResetInit
  \/ ReadInit \/ ReadMin \/ ReadMax \/ ReadCount \/ PrintTable

QueuesNext ==
  \/ \E q \in Queues : Arrive(q) \/ WorkerStep(q)
  \/ Lose \/ MainStep \/ Stop

QueuesSpec == QueuesInit /\ [][QueuesNext]_queueVars

-----------------------------------------------------------------------------
(* Properties.                                                             *)

\* Nobody is at work on the tracker.
Settled == ~Resetting /\ \A q \in Queues : worker[q].at \in {"poll", "done"}

\* Between two packets the tracker is exact, whatever the order in which the queues
\* hand out the numbers and the workers load, compare and store: what is taken for
\* lost lies between the least and the greatest number, and was lost, is still in
\* another queue, or was counted before the reset.  Only a packet that was in a
\* worker's hands during the reset may leave the tracker wrong (g_vl_seq).
QuietExact ==
  Settled /\ ~cut =>
    /\ trk.init <=> counted # {}
    /\ trk.init => LostOf(trk.min, trk.max, trk.count) =
         Cardinality({n \in Missing : \E least, most \in counted : least < n /\ n < most})

\* The table is filled while the workers go on: although minimum, maximum and count
\* are loaded one after the other, it never shows more than is missing, once the
\* first packet is through (get_global_sequence_lost).
LiveBounded == main.at = "print" => main.lost <= main.most
=============================================================================
