------------------------------- MODULE TxPacing -------------------------------
(***************************************************************************)
(* Pacing of the TX workers: tx_worker of the three units (one limiter, or *)
(* one per lane in the CMC's dual-lane mode), dpdk_ext_tx_worker (one      *)
(* limiter for all its targets) and raw_tx_worker of the raw socket ports  *)
(* (one limiter per target).  A limiter hands out slots: it is asked for   *)
(* the time, and moves next_send_time on by the delay between two packets. *)
(* The worker may be held up between any two of its steps.                 *)
(*                                                                         *)
(* A raw port places its frames in the TX ring and sends them in batches:  *)
(* nothing leaves the port before the worker calls send().                 *)
(*                                                                         *)
(* A packet that finds its queue full is a packet sent here: VlTraffic     *)
(* says what becomes of it.  The token buckets are not used by any worker. *)
(***************************************************************************)
EXTENDS Integers, FiniteSetsExt

CONSTANTS
  Kinds,        \* the workers to run: a subset of {"single", "dual", "raw"}
  Targets,      \* limiters of a raw socket port
  Delay,        \* delay_cycles, delay_ns: time from one slot to the next
  RawCatchup,   \* how late a raw limiter may be without starting afresh (2 ms)
  BatchLimit,   \* MAX_CATCHUP_PER_TARGET
  BatchSize,    \* BATCH_SIZE: frames after which send() is called
  TxFrames,     \* frames of the TX ring
  MaxTime,      \* bound: the last moment of a behaviour
  Stagger       \* latest time of the first slot

ASSUME PacingAssumption ==
  /\ Kinds \subseteq {"single", "dual", "raw"}
  /\ Targets \in Nat \ {0, 1}
  /\ Delay \in [0 .. Targets - 1 -> Nat \ {0}]
  /\ RawCatchup \in Nat /\ MaxTime \in Nat /\ Stagger \in Nat
  /\ BatchLimit \in Nat \ {0} /\ BatchSize \in Nat \ {0} /\ TxFrames \in Nat \ {0}

AllTargets == 0 .. Targets - 1
None == Targets

VARIABLES
  kind,     \* the worker of this behaviour
  now,      \* the clock
  next,     \* next_send_time of each limiter
  at,       \* where the worker is: "ask", "wait" (with the lane picked), "send", "flush"
  turn,     \* the limiter it is at
  anyDue,   \* any_due (raw)
  round,    \* catchup_count (raw): packets of each target in this round
  waiting,  \* frames of each target in the ring that were not sent yet (raw)
  batch,    \* batch_count (raw): frames placed since the last send()
  stuck,    \* history: the last send() failed and left frames in the ring
  first,    \* history: the time of the first slot
  slots,    \* history: slots handed out
  mark,     \* history: a moment chosen freely
  placed,   \* history: packets made up since the mark
  sent,     \* history: packets that left since the mark
  held,     \* history: the frames that waited in the ring at the mark
  onTime    \* history: never later than the limiter makes up for

slotVars == <<first, slots, onTime>>
markVars == <<mark, placed, sent, held>>
ringVars == <<waiting, batch, stuck>>
pastVars == <<slotVars, markVars>>
pacingVars == <<kind, now, next, at, turn, anyDue, round, ringVars, pastVars>>

Active == IF kind = "single" THEN {0} ELSE IF kind = "dual" THEN {0, 1} ELSE AllTargets
Catchup(t) == IF kind = "raw" THEN RawCatchup ELSE Delay[t]

NoFrames == [t \in AllTargets |-> 0]

PacingInit ==
  /\ kind \in Kinds /\ now = 0
  /\ next \in [AllTargets -> 0 .. Stagger] /\ first = next
  /\ at = "ask" /\ turn = 0 /\ anyDue = FALSE /\ round = NoFrames
  /\ waiting = NoFrames /\ batch = 0 /\ stuck = FALSE
  /\ slots = NoFrames /\ onTime = [t \in AllTargets |-> TRUE]
  /\ mark = 0 /\ placed = NoFrames /\ sent = NoFrames /\ held = NoFrames

Elapse ==
  /\ now < MaxTime
  /\ now' = now + 1
  /\ UNCHANGED <<kind, next, at, turn, anyDue, round, ringVars, pastVars>>

\* Any moment may be the beginning of the interval that is looked at.
Mark ==
  /\ mark' = now
  /\ placed' = NoFrames /\ sent' = NoFrames /\ held' = waiting
  /\ UNCHANGED <<kind, now, next, at, turn, anyDue, round, ringVars, slotVars>>

-----------------------------------------------------------------------------
(* A slot of limiter t: too late by more than it makes up for, the limiter *)
(* starts afresh from now.                                                 *)

AfterSlotNoReset(t) == next[t] + Delay[t]
AfterSlot(t) == (IF next[t] + Catchup(t) < now THEN now ELSE next[t]) + Delay[t]

TakeSlot(t) ==
  /\ now >= next[t]
  /\ next' = [next EXCEPT ![t] = AfterSlot(t)]
  /\ slots' = [slots EXCEPT ![t] = @ + 1]
  /\ onTime' = [onTime EXCEPT ![t] = @ /\ now <= next[t] + Catchup(t)]
  /\ UNCHANGED <<first, markVars>>

\* The DPDK workers wait for the slot; with two lanes, for that of the lane
\* whose time comes first, the loopback lane (0) on a tie.
PickLane ==
  /\ kind # "raw" /\ at = "ask"
  /\ turn' = IF kind = "dual" /\ next[1] < next[0] THEN 1 ELSE 0
  /\ at' = "wait"
  /\ UNCHANGED <<kind, now, next, anyDue, round, ringVars, pastVars>>

WaitForSlot ==
  /\ at = "wait"
  /\ TakeSlot(turn)
  /\ at' = "send"
  /\ UNCHANGED <<kind, now, turn, anyDue, round, ringVars>>

\* No mbuf: the slot is spent.
AllocFails ==
  /\ kind # "raw" /\ at = "send"
  /\ at' = "ask"
  /\ UNCHANGED <<kind, now, next, turn, anyDue, round, ringVars, pastVars>>

SendOne ==
  /\ kind # "raw" /\ at = "send"
  /\ placed' = [placed EXCEPT ![turn] = @ + 1]
  /\ sent' = [sent EXCEPT ![turn] = @ + 1]
  /\ at' = "ask"
  /\ UNCHANGED <<kind, now, next, turn, anyDue, round, ringVars, slotVars, mark, held>>

-----------------------------------------------------------------------------
(* The raw socket port asks its limiters in turn, and goes round again as  *)
(* long as one of them had a packet due.                                   *)

\* The next target, or the end of a walk: round again, or begin anew.
Advance ==
  IF turn < Targets - 1 THEN turn' = turn + 1 /\ UNCHANGED <<anyDue, round>>
  ELSE /\ turn' = 0 /\ anyDue' = FALSE
       /\ round' = IF anyDue THEN round ELSE NoFrames

\* Before it begins anew, the worker sends what is left of a batch.
FlushOrAsk == IF turn = Targets - 1 /\ ~anyDue /\ batch > 0 THEN "flush" ELSE "ask"

NotDue ==
  /\ kind = "raw" /\ at = "ask" /\ now < next[turn]
  /\ at' = FlushOrAsk
  /\ Advance
  /\ UNCHANGED <<kind, now, next, ringVars, pastVars>>

\* The slot is handed out; the frame is placed when the ring has room for it.
Due ==
  /\ kind = "raw" /\ at = "ask" /\ round[turn] < BatchLimit
  /\ TakeSlot(turn)
  /\ at' = "send"
  /\ round' = [round EXCEPT ![turn] = @ + 1]
  /\ anyDue' = TRUE
  /\ UNCHANGED <<kind, now, turn, ringVars>>

\* The limiter is asked before the count is looked at: this slot is spent.
DueBeyondBatch ==
  /\ kind = "raw" /\ at = "ask" /\ round[turn] >= BatchLimit
  /\ TakeSlot(turn)
  /\ at' = FlushOrAsk
  /\ Advance
  /\ UNCHANGED <<kind, now, ringVars>>

\* A free frame of the ring is filled; after a whole batch it is time for send().
PlaceFrame ==
  /\ kind = "raw" /\ at = "send"
  /\ MapThenSumSet(LAMBDA t : waiting[t], AllTargets) < TxFrames
  /\ waiting' = [waiting EXCEPT ![turn] = @ + 1]
  /\ placed' = [placed EXCEPT ![turn] = @ + 1]
  /\ batch' = batch + 1
  /\ at' = IF batch + 1 >= BatchSize THEN "flush" ELSE "ask"
  /\ Advance
  /\ UNCHANGED <<kind, now, next, stuck, slotVars, mark, sent, held>>

\* send(): the frames in the ring leave the port.  If it fails, nobody minds: what it
\* left in the ring goes with a later batch.
Send ==
  /\ \E left \in [AllTargets -> 0 .. TxFrames] :
        /\ \A t \in AllTargets : left[t] <= waiting[t]
        /\ waiting' = left
        /\ sent' = [t \in AllTargets |-> sent[t] + waiting[t] - left[t]]
        /\ stuck' = (left # NoFrames)
  /\ batch' = 0
  /\ UNCHANGED <<kind, now, next, turn, anyDue, round, slotVars, mark, placed, held>>

Flush ==
  /\ kind = "raw" /\ at = "flush"
  /\ Send
  /\ at' = "ask"

\* No free frame, be it for those that wait or for those the kernel is sending.
FlushFullRing ==
  /\ kind = "raw" /\ at = "send" /\ batch > 0
  /\ Send
  /\ UNCHANGED at

PacingNext == \/ Elapse \/ Mark
        \/ PickLane \/ WaitForSlot \/ AllocFails \/ SendOne
        \/ NotDue \/ Due \/ DueBeyondBatch \/ PlaceFrame \/ Flush \/ FlushFullRing

PacingSpec == PacingInit /\ [][PacingNext]_pacingVars

-----------------------------------------------------------------------------
(* Properties.                                                             *)

\* Every variable keeps its type; a target places at most BatchLimit frames in
\* one round of a raw socket port.
TypeOK ==
  /\ kind \in Kinds /\ now \in Nat /\ mark \in 0 .. now
  /\ next \in [AllTargets -> Nat] /\ first \in [AllTargets -> Nat]
  /\ at \in {"ask", "wait", "send", "flush"} /\ turn \in Active
  /\ anyDue \in BOOLEAN /\ round \in [AllTargets -> 0 .. BatchLimit]
  /\ waiting \in [AllTargets -> Nat] /\ batch \in 0 .. BatchSize /\ stuck \in BOOLEAN
  /\ slots \in [AllTargets -> Nat] /\ onTime \in [AllTargets -> BOOLEAN]
  /\ placed \in [AllTargets -> Nat] /\ sent \in [AllTargets -> Nat]
  /\ held \in [AllTargets -> Nat]

\* From whatever moment on, however late the worker and wherever it was held
\* up: the packets of a limiter that leave never exceed its rate by more than
\* what it makes up for, one packet, one that was under way and, on a raw
\* port, the frames that waited in the ring ("burst prevention"); and those
\* are no more than a batch, unless send() failed.
RateBounded ==
  \A t \in AllTargets :
    /\ sent[t] * Delay[t] <= (now - mark) + Catchup(t) + (2 + held[t]) * Delay[t]
    /\ ~stuck => waiting[t] <= IF kind = "raw" THEN BatchSize ELSE 0

\* Lateness the limiter makes up for costs no slot and shifts none: the n-th
\* slot is due n delays after the first ("each packet is sent exactly on time").
NoDrift ==
  \A t \in AllTargets : onTime[t] => next[t] = first[t] + slots[t] * Delay[t]

\* Neither a burst after a delay nor slots lost to one that is made up for.
RateKept == RateBounded /\ NoDrift
=============================================================================
