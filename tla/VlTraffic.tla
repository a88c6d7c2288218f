------------------------------ MODULE VlTraffic ------------------------------
(***************************************************************************)
(* The test traffic of the three unit applications (TxRxManager.c of dpdk, *)
(* dpdk_cmc and dpdk_vmc): one TX worker that walks round-robin through    *)
(* its VL-IDs and numbers the packets of each, the unit under test that    *)
(* sends them back, the RX worker of each network that finds the gaps in   *)
(* the numbers, and the main loop that resets the statistics when the      *)
(* warm-up is over and stops everything in the end.                        *)
(*                                                                         *)
(* The CMC worker sends every packet twice, on network "A" and on network  *)
(* "B"; the DTN and the VMC have one queue per VLAN, here "A".  The path   *)
(* keeps the order of a VL, and loses packets.  Pacing, PRBS contents, bit *)
(* errors and the port-wide sums (rx_stats_per_port) are left out: a       *)
(* packet is good or bad.  The CMC's two lanes of VL-IDs are one walk.     *)
(***************************************************************************)
EXTENDS Integers, Sequences, FiniteSets, Functions

CONSTANTS
  Flush,      \* packets a worker keeps in its local counters (FLUSH)
  Settings    \* the applications to run and their bounds: VL-IDs of the worker,
              \* numbers per VL, losses (full TX queues included), packets that
              \* are bad or no test traffic, packets on the way per network,
              \* and whether the warm-up ends before the run does

ASSUME TrafficAssumption ==
  /\ Flush \in Nat \ {0}
  /\ Settings \subseteq [unit : {"dtn", "vmc", "cmc"}, vls : Nat \ {0}, seq : Nat \ {0},
                          lost : Nat, other : Nat, wire : Nat \ {0}, warmupEnds : BOOLEAN]

VARIABLES
  setting,   \* the application of this behaviour, with its bounds
  seq,       \* tx_vl_sequences: the next number of each VL
  offset,    \* current_vl_offset of the TX worker
  tx,        \* the TX worker: where it is, and the number it loaded
  wire,      \* packets on the way back, per network
  missed,    \* history: lost since the last packet that got through
  rx,        \* the RX workers: where they are, and the packet
  trk,       \* port_vl_trackers
  local,     \* the workers' local counters
  stats,     \* dtn_stats, vmc_stats, cmc_stats
  phase,     \* what the main thread is at, and the trackers it has still to reset
  stop,      \* force_quit
  quiet,     \* stop_normal_tx (CMC)
  spent,     \* losses and foreign packets so far, for the bounds
  real,      \* history: VLs received, packets lost before and after their first one
  foreign,   \* history: lost by the numbers of packets that are no test traffic
  compared   \* history: payloads compared since the statistics were last cleared

trafficVars == <<setting, seq, offset, tx, wire, missed, rx, trk, local, stats,
                phase, stop, quiet, spent, real, foreign, compared>>
txVars == <<seq, offset, tx>>
rxVars == <<rx, local, stats, real, foreign, compared>>
mainVars == <<phase, stop, quiet>>

unit == setting.unit
VlCount == setting.vls
VLs == 0 .. VlCount - 1
Nets == IF unit = "cmc" THEN {"A", "B"} ELSE {"A"}
Fresh == [init |-> FALSE, expected |-> 0, max |-> 0, count |-> 0]
Zero == [rx |-> 0, good |-> 0, bad |-> 0, lost |-> 0]
NoStats == [total |-> 0, good |-> 0, bad |-> 0, lost |-> 0]
NoPacket == [vl |-> 0, seq |-> 0, gap |-> 0]
Poll == [at |-> "poll", pkt |-> NoPacket]

TrafficInit ==
  /\ setting \in Settings
  /\ seq = [v \in VLs |-> 0] /\ offset = 0 /\ tx = [at |-> "loop", seq |-> 0]
  /\ wire = [n \in Nets |-> <<>>] /\ missed = [n \in Nets |-> [v \in VLs |-> 0]]
  /\ rx = [n \in Nets |-> Poll]
  /\ trk = [n \in Nets |-> [v \in VLs |-> Fresh]]
  /\ local = [n \in Nets |-> Zero] /\ stats = [n \in Nets |-> NoStats]
  /\ phase = [at |-> "warmup", todo |-> {}] /\ stop = FALSE /\ quiet = FALSE
  /\ spent = [lost |-> 0, other |-> 0]
  /\ real = [n \in Nets |-> [seen |-> {}, lead |-> 0, inner |-> 0]]
  /\ foreign = [n \in Nets |-> 0] /\ compared = [n \in Nets |-> 0]

-----------------------------------------------------------------------------
(* The TX worker.  A failed mbuf allocation skips the slot and changes     *)
(* nothing here.                                                           *)

\* The stop flag is seen at the top of the loop.
TxQuit ==
  /\ tx.at = "loop" /\ stop
  /\ tx' = [tx EXCEPT !.at = "done"]
  /\ UNCHANGED <<setting, seq, offset, wire, missed, trk, mainVars, spent>>
  /\ UNCHANGED rxVars

NextOffset == (offset + 1) % VlCount
Packet(n, v) == [vl |-> v, seq |-> seq[v], gap |-> missed[n][v]]
Room(n) == Len(wire[n]) < setting.wire
Sending == tx.at = "loop" /\ ~stop /\ ~quiet /\ seq[offset] < setting.seq

\* peek_tx_sequence and rte_eth_tx_burst: the packet takes the next number of
\* its VL, which is not used up yet.  The CMC's goes out on both networks.
\* What was lost before a packet, it takes along.
TxSend ==
  /\ Sending /\ \A n \in Nets : Room(n)
  /\ wire' = [n \in Nets |-> Append(wire[n], Packet(n, offset))]
  /\ missed' = [n \in Nets |-> [missed[n] EXCEPT ![offset] = 0]]
  /\ tx' = [tx EXCEPT !.at = "commit"]
  /\ UNCHANGED <<setting, seq, offset, trk, mainVars, spent>> /\ UNCHANGED rxVars

\* A full queue: the number is not used up, and the worker leaves the VL.
TxSendFull ==
  /\ Sending /\ spent.lost < setting.lost
  /\ offset' = NextOffset
  /\ spent' = [spent EXCEPT !.lost = @ + 1]
  /\ UNCHANGED <<setting, seq, tx, wire, missed, trk, mainVars>> /\ UNCHANGED rxVars

\* The twin's queue is full: the number is used up, and only B misses it.
OnlyOnA ==
  /\ Sending /\ unit = "cmc" /\ Room("A") /\ spent.lost < setting.lost
  /\ wire' = [wire EXCEPT !["A"] = Append(@, Packet("A", offset))]
  /\ missed' = [missed EXCEPT !["A"][offset] = 0, !["B"][offset] = @ + 1]
  /\ spent' = [spent EXCEPT !.lost = @ + 1]
  /\ UNCHANGED <<setting, seq, trk, mainVars>> /\ UNCHANGED rxVars
TxTwinFullRetries == OnlyOnA /\ offset' = NextOffset /\ UNCHANGED tx
TxTwinFull == OnlyOnA /\ tx' = [tx EXCEPT !.at = "commit"] /\ UNCHANGED offset

\* commit_tx_sequence: an increment without the lock, a load and a store.
TxCommitLoad ==
  /\ tx.at = "commit"
  /\ tx' = [at |-> "store", seq |-> seq[offset]]
  /\ UNCHANGED <<setting, seq, offset, wire, missed, trk, mainVars, spent>>
  /\ UNCHANGED rxVars

TxCommitStore ==
  /\ tx.at = "store"
  /\ seq' = [seq EXCEPT ![offset] = tx.seq + 1]
  /\ offset' = NextOffset
  /\ tx' = [at |-> "loop", seq |-> 0]
  /\ UNCHANGED <<setting, wire, missed, trk, mainVars, spent>> /\ UNCHANGED rxVars

TxStep == TxQuit \/ TxSend \/ TxSendFull \/ TxTwinFull \/ TxCommitLoad \/ TxCommitStore

\* The way through the unit loses a packet: the next one of the VL carries it.
Lose(n) ==
  /\ wire[n] # <<>> /\ spent.lost < setting.lost
  /\ LET p == Head(wire[n])  rest == Tail(wire[n])
         later == {i \in DOMAIN rest : rest[i].vl = p.vl}
     IN IF later = {}
        THEN /\ missed' = [missed EXCEPT ![n][p.vl] = @ + p.gap + 1]
             /\ wire' = [wire EXCEPT ![n] = rest]
        ELSE LET i == CHOOSE j \in later : \A k \in later : j <= k
             IN /\ wire' = [wire EXCEPT ![n] = [rest EXCEPT ![i].gap = @ + p.gap + 1]]
                /\ UNCHANGED missed
  /\ spent' = [spent EXCEPT !.lost = @ + 1]
  /\ UNCHANGED <<setting, trk, mainVars>> /\ UNCHANGED txVars /\ UNCHANGED rxVars

-----------------------------------------------------------------------------
(* The RX worker of network n.                                             *)

\* The flush of the local counters when enough packets were received.  The
\* DTN and VMC statistics count every packet of the queue, those of the CMC
\* the verified ones.
FlushDtnVmc(n, c) ==
  stats' = [stats EXCEPT ![n] = [total |-> @.total + c.rx, good |-> @.good + c.good,
                                 bad |-> @.bad + c.bad, lost |-> @.lost + c.lost]]
FlushCmc(n, c) ==
  stats' = [stats EXCEPT ![n] = [total |-> @.total + c.good + c.bad, good |-> @.good + c.good,
                                 bad |-> @.bad + c.bad, lost |-> @.lost + c.lost]]
FlushAll(n, c) ==
  /\ IF unit = "cmc" THEN FlushCmc(n, c) ELSE FlushDtnVmc(n, c)
  /\ local' = [local EXCEPT ![n] = Zero]

FlushIfDue(n, c) ==
  IF c.rx >= Flush THEN FlushAll(n, c)
  ELSE local' = [local EXCEPT ![n] = c] /\ UNCHANGED stats

\* What really got lost before this packet, whatever the worker makes of it.
Witness(n, p) ==
  real' = IF p.vl \in real[n].seen
          THEN [real EXCEPT ![n].inner = @ + p.gap]
          ELSE [real EXCEPT ![n].lead = @ + p.gap, ![n].seen = @ \cup {p.vl}]

\* The gap a packet shows, and the number to expect after it.
GapOffByOne(p, expected) == IF p.seq > expected THEN p.seq - expected + 1 ELSE 0
Gap(p, expected) == IF p.seq > expected THEN p.seq - expected ELSE 0
NextExpected(p, expected) == IF p.seq >= expected THEN p.seq + 1 ELSE expected

\* A test packet is taken from the queue: the first one of its VL says which
\* number to expect next, a later one shows a gap.
RxTrack(n) ==
  /\ rx[n].at = "poll" /\ ~stop /\ wire[n] # <<>>
  /\ LET p == Head(wire[n])  t == trk[n][p.vl]
     IN /\ Witness(n, p)
        /\ trk' = [trk EXCEPT ![n][p.vl].init = TRUE,
                   ![n][p.vl].expected = IF t.init THEN NextExpected(p, @) ELSE p.seq + 1]
        /\ local' = [local EXCEPT ![n].lost = @ + IF t.init THEN Gap(p, t.expected) ELSE 0]
        /\ rx' = [rx EXCEPT ![n] = [at |-> "count", pkt |-> p]]
  /\ wire' = [wire EXCEPT ![n] = Tail(@)]
  /\ UNCHANGED <<setting, missed, stats, mainVars, spent, foreign, compared>>
  /\ UNCHANGED txVars

\* max_seq and pkt_count, the verdict on the payload, and the flush.
RxCount(n, good) ==
  LET p == rx[n].pkt  c == local[n]
  IN /\ rx[n].at = "count"
     /\ good \/ spent.other < setting.other
     /\ spent' = IF good THEN spent ELSE [spent EXCEPT !.other = @ + 1]
     /\ trk' = [trk EXCEPT ![n][p.vl].max = IF p.seq > @ THEN p.seq ELSE @,
                           ![n][p.vl].count = @ + 1]
     /\ FlushIfDue(n, IF good THEN [c EXCEPT !.rx = @ + 1, !.good = @ + 1]
                              ELSE [c EXCEPT !.rx = @ + 1, !.bad = @ + 1])
     /\ rx' = [rx EXCEPT ![n] = Poll]
     /\ compared' = [compared EXCEPT ![n] = @ + 1]
     /\ UNCHANGED <<setting, wire, missed, mainVars, real, foreign>>
     /\ UNCHANGED txVars

\* Other packets in the queue, which are only counted: too short ones, health
\* monitor packets of the VMC and the CMC, the DTN's from a port it does not know.
RxOther(n) ==
  /\ rx[n].at = "poll" /\ ~stop /\ spent.other < setting.other
  /\ spent' = [spent EXCEPT !.other = @ + 1]
  /\ FlushIfDue(n, [local[n] EXCEPT !.rx = @ + 1])
  /\ UNCHANGED <<setting, wire, missed, rx, trk, mainVars, real, foreign, compared>>
  /\ UNCHANGED txVars

\* The DTN's packets of its raw ports, with and without a VLAN: their payload is
\* compared, and the gap in their numbers is added to the same counter.  They
\* reach several queues in any order, and the number to expect is one for all of
\* these: the gap may be any number, with or without a loss.  Their VL-IDs are
\* not those of the watermark.
RxForeign(n, good, gap) ==
  LET c == local[n]
  IN /\ unit = "dtn" /\ rx[n].at = "poll" /\ ~stop /\ spent.other < setting.other
     /\ spent' = [spent EXCEPT !.other = @ + 1]
     /\ FlushIfDue(n, [rx |-> c.rx + 1, good |-> c.good + IF good THEN 1 ELSE 0,
                       bad |-> c.bad + IF good THEN 0 ELSE 1, lost |-> c.lost + gap])
     /\ foreign' = [foreign EXCEPT ![n] = @ + gap]
     /\ compared' = [compared EXCEPT ![n] = @ + 1]
     /\ UNCHANGED <<setting, wire, missed, rx, trk, mainVars, real>>
     /\ UNCHANGED txVars

\* Lost by the watermark: (max_seq + 1) - pkt_count of every VL in the range.
LostOf(t) == IF t.init /\ t.max + 1 > t.count THEN t.max + 1 - t.count ELSE 0
Watermark(n) == SumFunction([v \in VLs |-> LostOf(trk[n][v])])

\* The final flush of the worker, only when something is left in its locals.
FinalTotals(n) ==
  LET c == local[n]
      verified == IF unit = "cmc" THEN c.good + c.bad ELSE c.rx
  IN [total |-> stats[n].total + verified, good |-> stats[n].good + c.good,
      bad |-> stats[n].bad + c.bad, lost |-> stats[n].lost + c.lost]

\* ... and the reconciliation: the DTN and the VMC add the watermark, the CMC
\* sets the unit's figure to it.  The DTN's range is that of its port map,
\* which need not hold the VL-IDs the queue received.
FinalDtn(n, inRange) == [FinalTotals(n) EXCEPT !.lost = @ + IF inRange THEN Watermark(n) ELSE 0]
FinalVmc(n) == [FinalTotals(n) EXCEPT !.lost = @ + Watermark(n)]
FinalCmc(n) == [FinalTotals(n) EXCEPT !.lost = Watermark(n)]

RxQuit(n) ==
  /\ rx[n].at = "poll" /\ stop
  /\ \E final \in CASE unit = "dtn" -> {FinalDtn(n, inRange) : inRange \in BOOLEAN}
                    [] unit = "vmc" -> {FinalVmc(n)}
                    [] unit = "cmc" -> {FinalCmc(n)} : stats' = [stats EXCEPT ![n] = final]
  /\ local' = [local EXCEPT ![n] = Zero]
  /\ rx' = [rx EXCEPT ![n].at = "done"]
  /\ UNCHANGED <<setting, wire, missed, trk, mainVars, spent, real, foreign, compared>>
  /\ UNCHANGED txVars

RxStep(n) == \/ RxTrack(n) \/ RxQuit(n) \/ RxOther(n)
             \/ \E good \in BOOLEAN : RxCount(n, good)
             \/ \E good \in BOOLEAN, gap \in 0 .. setting.seq : RxForeign(n, good, gap)

-----------------------------------------------------------------------------
(* The main thread.  helper_reset_stats runs beside the workers.           *)

Trackers == Nets \X VLs
Running == UNCHANGED <<setting, offset, tx, wire, missed, rx, local, spent, real, foreign>>

\* The warm-up is over: the trackers are next.
ResetPort ==
  /\ phase.at = "warmup" /\ ~stop /\ ~quiet /\ setting.warmupEnds
  /\ phase' = [at |-> "fields", todo |-> Trackers]
  /\ Running /\ UNCHANGED <<seq, trk, stats, stop, quiet, compared>>

\* One tracker: max_seq and pkt_count, in the CMC expected_seq as well; then
\* `initialized', by a store of its own.
Cleared(t) == IF unit = "cmc" THEN [t EXCEPT !.max = 0, !.count = 0, !.expected = 0]
              ELSE [t EXCEPT !.max = 0, !.count = 0]
Before(x, y) == \/ x[1] = "A" /\ y[1] = "B"
                \/ x[1] = y[1] /\ x[2] <= y[2]
First(todo) == CHOOSE x \in todo : \A y \in todo : Before(x, y)

ResetFields ==
  LET x == First(phase.todo)
  IN /\ phase.at = "fields"
     /\ trk' = [trk EXCEPT ![x[1]][x[2]] = Cleared(@)]
     /\ phase' = [phase EXCEPT !.at = "initialized"]
     /\ Running /\ UNCHANGED <<seq, stats, stop, quiet, compared>>

ResetInitialized ==
  LET x == First(phase.todo)  rest == phase.todo \ {x}
  IN /\ phase.at = "initialized"
     /\ trk' = [trk EXCEPT ![x[1]][x[2]].init = FALSE]
     /\ phase' = [at |-> CASE rest # {} -> "fields"
                          [] rest = {} /\ unit = "cmc" -> "numbers"
                          [] rest = {} /\ unit # "cmc" -> "stats",
                 todo |-> IF rest = {} /\ unit = "cmc" THEN {"A"} \X VLs ELSE rest]
     /\ Running /\ UNCHANGED <<seq, stats, stop, quiet, compared>>

\* reset_tx_vl_sequences (CMC): under a lock that peek and commit do not take.
ResetNumber ==
  LET x == First(phase.todo)  rest == phase.todo \ {x}
  IN /\ phase.at = "numbers"
     /\ seq' = [seq EXCEPT ![x[2]] = 0]
     /\ phase' = [at |-> IF rest = {} THEN "stats" ELSE "numbers", todo |-> rest]
     /\ Running /\ UNCHANGED <<trk, stats, stop, quiet, compared>>

\* init_dtn_stats, init_cmc_stats; the VMC's are part of the same call.  The
\* stores, one per figure, are one step here: a flush between two of them would
\* only take from the figures of the test.
ResetUnitStats ==
  /\ phase.at = "stats"
  /\ stats' = [n \in Nets |-> NoStats] /\ compared' = [n \in Nets |-> 0]
  /\ phase' = [phase EXCEPT !.at = "test"]
  /\ Running /\ UNCHANGED <<seq, trk, stop, quiet>>

\* The first signal stops the CMC's normal traffic; the end of the handover or
\* a second signal, and the first one of the DTN and the VMC, stop the workers.
Quiesce ==
  /\ unit = "cmc" /\ ~quiet /\ ~stop
  /\ quiet' = TRUE
  /\ Running /\ UNCHANGED <<seq, trk, stats, phase, stop, compared>>
Stop ==
  /\ ~stop /\ (unit = "cmc" => quiet)
  /\ stop' = TRUE
  /\ Running /\ UNCHANGED <<seq, trk, stats, phase, quiet, compared>>

ResetStep == ResetPort \/ ResetFields \/ ResetInitialized \/ ResetNumber \/ ResetUnitStats

TrafficNext ==
  \/ TxStep \/ ResetStep \/ Quiesce \/ Stop
  \/ \E n \in Nets : RxStep(n) \/ Lose(n)

TrafficSpec == TrafficInit /\ [][TrafficNext]_trafficVars

-----------------------------------------------------------------------------
(* Properties.                                                             *)

\* Every variable keeps its type, and a number is never above those used.
TrafficTypeOK ==
  /\ setting \in Settings
  /\ seq \in [VLs -> 0 .. setting.seq] /\ offset \in VLs
  /\ tx \in [at : {"loop", "commit", "store", "done"}, seq : 0 .. setting.seq]
  /\ \A n \in Nets :
       /\ Len(wire[n]) <= setting.wire
       /\ local[n].rx < Flush /\ local[n].good + local[n].bad <= local[n].rx
       /\ \A v \in VLs : trk[n][v].max <= setting.seq /\ trk[n][v].expected <= setting.seq
  /\ stop \in BOOLEAN /\ quiet \in BOOLEAN

\* The real-time gap detection of a VL counts what was really lost between two
\* of its packets, no more and no less, in whichever way the workers of both
\* networks, full queues and losses interleave; the reset of the DTN and the VMC,
\* which runs beside the workers, may make them miss a loss and never invents
\* one.  The DTN's counter holds besides it what the numbers of the raw ports'
\* packets showed, of which nothing is claimed.
Reported(n) == stats[n].lost + local[n].lost
LossExact ==
  \A n \in Nets : rx[n].at # "done" =>
    /\ phase.at = "warmup" => Reported(n) = real[n].inner + foreign[n]
    /\ unit # "cmc" => Reported(n) <= real[n].inner + foreign[n]

\* A worker's final figures hold every packet whose payload was compared, once:
\* when the statistics were cleared meanwhile, those after it and less than one
\* flush of those before.  And when a run of the CMC ends before the reset, the
\* unit's figures are exact: every test packet that came back was verified, and
\* what is reported lost is what was lost before the last packet of each VL.
Received(n) == SumFunction([v \in VLs |-> trk[n][v].count])
FinalFiguresExact ==
  \A n \in Nets : rx[n].at = "done" =>
    /\ phase.at # "test" => stats[n].good + stats[n].bad = compared[n]
    /\ stats[n].good + stats[n].bad < compared[n] + Flush
    /\ unit = "cmc" /\ phase.at = "warmup" =>
         /\ stats[n].total = Received(n) /\ stats[n].good + stats[n].bad = Received(n)
         /\ stats[n].lost = real[n].lead + real[n].inner
=============================================================================
