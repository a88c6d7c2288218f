----------------------------- MODULE PtpSession -----------------------------
(***************************************************************************)
(* One PTP slave session of the DTN traffic generator (PtpState.c) driven  *)
(* by its worker loop (PtpWorker.c), with the master and the network.      *)
(*                                                                         *)
(* Time is kept as ages in clock units: sinceSync is the age of            *)
(* last_sync_tsc, sinceChange that of last_state_change, loopAge that of   *)
(* current_tsc, which the worker reads at the top of its loop, before it   *)
(* polls for packets.  A timestamp taken while packets are processed is    *)
(* therefore later than current_tsc (syncFresh, changeFresh), and the      *)
(* unsigned difference current_tsc - timestamp wraps around.               *)
(*                                                                         *)
(* Sync messages arrive at any moment; of the answers to Delay_Req the     *)
(* network may lose, duplicate, delay and reorder any.                     *)
(***************************************************************************)
EXTENDS Naturals

CONSTANTS
  Interval,      \* PTP_DELAY_REQ_INTERVAL_MS, in clock units
  RespTimeout,   \* PTP_DELAY_RESP_TIMEOUT_SEC
  SyncTimeout,   \* PTP_SYNC_TIMEOUT_SEC
  MaxStall,      \* bound: clock units one iteration of the worker loop may take
  Burst,         \* packets per iteration: 32, or 1 in the raw socket worker
  SeqCount       \* sequence numbers: 2^16

ASSUME TimeoutsAssumption ==
  /\ SyncTimeout \in Nat /\ RespTimeout \in 1..SyncTimeout /\ Interval \in 1..SyncTimeout
  /\ MaxStall \in Nat \ {0} /\ Burst \in Nat \ {0} /\ SeqCount \in Nat \ {0}

VARIABLES
  state,         \* session->state
  isSynced,      \* session->is_synced
  sinceSync, syncFresh,      \* last_sync_tsc
  sinceChange, changeFresh,  \* last_state_change
  nextSeq,       \* delay_req_seq_id
  lastSeq,       \* last_delay_req_seq_id
  t3AfterT2,     \* t3 was taken after the t1 and t2 now stored
  offset,        \* what offset_ns was last computed from
  loopAge,       \* age of the worker's current_tsc
  received,      \* packets of this iteration
  answers        \* Delay_Resp messages on their way

clockVars == <<sinceSync, syncFresh, sinceChange, changeFresh>>
seqVars == <<nextSeq, lastSeq>>
sessionVars == <<state, isSynced, clockVars, seqVars, t3AfterT2, offset, loopAge, received,
                answers>>

States == {"INIT", "LISTENING", "SYNC_RECEIVED", "DELAY_REQ_SENT", "SYNCED", "ERROR"}

\* Ages above every timeout are not told apart.
MaxAge == SyncTimeout + 2 * MaxStall + 1

\* An answer carries the sequence number of its request; behind counts the requests
\* sent since (the master and the network see to it that it stays below SeqCount).
Answers == [seq : 0..(SeqCount - 1), behind : 0..(SeqCount - 1)]

SessionTypeOK ==
  /\ state \in States
  /\ isSynced \in BOOLEAN
  /\ sinceSync \in 0..MaxAge /\ syncFresh \in BOOLEAN
  /\ sinceChange \in 0..MaxAge /\ changeFresh \in BOOLEAN
  /\ nextSeq \in 0..(SeqCount - 1) /\ lastSeq \in 0..(SeqCount - 1)
  /\ t3AfterT2 \in BOOLEAN
  /\ offset \in {"none", "empty", "genuine", "mixed"}
  /\ loopAge \in 0..MaxStall
  /\ received \in 0..Burst
  /\ answers \subseteq Answers

SessionInit ==
  /\ state = "INIT" /\ isSynced = FALSE
  /\ sinceSync = MaxAge /\ syncFresh = FALSE
  /\ sinceChange = MaxAge /\ changeFresh = FALSE
  /\ nextSeq = 0 /\ lastSeq = 0
  /\ t3AfterT2 = FALSE /\ offset = "none"
  /\ loopAge = 0 /\ received = 0
  /\ answers = {}

----------------------------------------------------------------------------
(* Packets: ptp_packet_process, up to Burst of them per iteration.         *)

Receive == received < Burst /\ received' = received + 1 /\ UNCHANGED loopAge

\* ptp_handle_sync: t1 and t2 are taken only when no exchange is under way, but the
\* arrival always counts for the timeout.
HandleSync ==
  /\ Receive
  /\ sinceSync' = 0 /\ syncFresh' = TRUE
  /\ IF state \in {"LISTENING", "SYNCED", "ERROR"}
       THEN /\ state' = "SYNC_RECEIVED"
            /\ sinceChange' = 0 /\ changeFresh' = TRUE
            /\ t3AfterT2' = FALSE
       ELSE UNCHANGED <<state, sinceChange, changeFresh, t3AfterT2>>
  /\ UNCHANGED <<isSynced, seqVars, offset, answers>>

\* ptp_calculate_offset_delay with t4 from answer a, or with an empty t4.
Offset(a) ==
  {IF t3AfterT2 /\ a.behind = 0 THEN "genuine" ELSE "mixed", "empty"}

Accept(a) ==
  /\ state' = "SYNCED" /\ isSynced' = TRUE
  /\ sinceChange' = 0 /\ changeFresh' = TRUE
  /\ offset' \in Offset(a)

\* Mutant: the sequence number is not compared.
HandleAnyDelayResp(a) ==
  /\ Receive
  /\ answers' \in {answers, answers \ {a}}
  /\ IF state = "DELAY_REQ_SENT"
       THEN Accept(a)
       ELSE UNCHANGED <<state, isSynced, sinceChange, changeFresh, offset>>
  /\ UNCHANGED <<sinceSync, syncFresh, seqVars, t3AfterT2>>

\* ptp_handle_delay_resp.  t4 is stored before the state is looked at; nothing reads
\* it before the next accepted answer overwrites it.
HandleDelayResp(a) ==
  /\ Receive
  /\ answers' \in {answers, answers \ {a}}
  /\ IF a.seq = lastSeq /\ state = "DELAY_REQ_SENT"
       THEN Accept(a)
       ELSE UNCHANGED <<state, isSynced, sinceChange, changeFresh, offset>>
  /\ UNCHANGED <<sinceSync, syncFresh, seqVars, t3AfterT2>>

----------------------------------------------------------------------------
(* ptp_state_machine_tick, at the end of an iteration.                     *)

\* current_tsc - last, for a timestamp of that age: 2^64 minus something when the
\* timestamp is later than current_tsc.
Elapsed(age, fresh) == IF fresh THEN MaxAge ELSE age - loopAge

\* The next iteration reads the clock again.  sinceChange is given as the tick leaves
\* it; a timestamp of this iteration is in the past from now on.
NextIteration(change) ==
  /\ loopAge' = 0 /\ received' = 0
  /\ sinceChange' = change
  /\ syncFresh' = FALSE /\ changeFresh' = FALSE
  /\ UNCHANGED sinceSync

\* What is due at the end of the iteration.
SendDue == state = "SYNC_RECEIVED" /\ Elapsed(sinceChange, changeFresh) >= Interval

RespDue == state = "DELAY_REQ_SENT" /\ Elapsed(sinceChange, changeFresh) > RespTimeout

\* Mutant: measured from the last state change, as in the other cases.
SyncDueFromChange == state = "SYNCED" /\ Elapsed(sinceChange, FALSE) > SyncTimeout

SyncDue == state = "SYNCED" /\ Elapsed(sinceSync, syncFresh) > SyncTimeout

ResetDue == state = "ERROR" /\ Elapsed(sinceChange, changeFresh) > SyncTimeout

TickInit ==
  /\ state = "INIT"
  /\ state' = "LISTENING"
  /\ NextIteration(loopAge)
  /\ UNCHANGED <<isSynced, seqVars, t3AfterT2, offset, answers>>

\* Answers that may reach the worker after one more request.
Overtaken == {[a EXCEPT !.behind = @ + 1] : a \in {b \in answers : b.behind + 1 < SeqCount}}

SeqAfter(seq) == (seq + 1) % SeqCount

\* Mutant: last_delay_req_seq_id is stored after the increment.
SentSeqAfterIncrement == SeqAfter(nextSeq)

\* The number in the request, which the answer will repeat.
SentSeq == nextSeq

\* ptp_send_delay_req and ptp_send_delay_req_raw; the request may be lost.
SendDelayReq ==
  /\ SendDue
  /\ state' = "DELAY_REQ_SENT"
  /\ lastSeq' = SentSeq
  /\ nextSeq' = SeqAfter(nextSeq)
  /\ t3AfterT2' = TRUE
  /\ answers' \in {Overtaken, Overtaken \cup {[seq |-> nextSeq, behind |-> 0]}}
  /\ NextIteration(loopAge)
  /\ UNCHANGED <<isSynced, offset>>

\* No mbuf, or the queue or the socket refuses the packet; last_state_change stays.
SendFails ==
  /\ SendDue
  /\ state' = "ERROR"
  /\ NextIteration(sinceChange)
  /\ UNCHANGED <<isSynced, seqVars, t3AfterT2, offset, answers>>

\* No answer in time, or the time in ERROR is over.  is_synced keeps its value.
ListenAgain ==
  /\ RespDue \/ ResetDue
  /\ state' = "LISTENING"
  /\ NextIteration(loopAge)
  /\ UNCHANGED <<isSynced, seqVars, t3AfterT2, offset, answers>>

LoseSync ==
  /\ SyncDue
  /\ state' = "LISTENING" /\ isSynced' = FALSE
  /\ NextIteration(loopAge)
  /\ UNCHANGED <<seqVars, t3AfterT2, offset, answers>>

\* Nothing is due.  (LISTENING only counts timeouts, a statistic.)
TickIdle ==
  /\ state # "INIT" /\ ~(SendDue \/ RespDue \/ SyncDue \/ ResetDue)
  /\ NextIteration(sinceChange)
  /\ UNCHANGED <<state, isSynced, seqVars, t3AfterT2, offset, answers>>

Tick ==
  \/ TickInit \/ SendDelayReq \/ SendFails \/ ListenAgain \/ LoseSync \/ TickIdle

----------------------------------------------------------------------------
(* Time and the network.                                                   *)

Older(age) == IF age < MaxAge THEN age + 1 ELSE age

\* An iteration takes at most MaxStall.
TimePasses ==
  /\ loopAge < MaxStall
  /\ loopAge' = loopAge + 1
  /\ sinceSync' = Older(sinceSync) /\ sinceChange' = Older(sinceChange)
  /\ UNCHANGED <<state, isSynced, syncFresh, changeFresh, seqVars, t3AfterT2, offset,
                 received, answers>>

LoseMessage ==
  /\ \E a \in answers : answers' = answers \ {a}
  /\ UNCHANGED <<state, isSynced, clockVars, seqVars, t3AfterT2, offset, loopAge, received>>

SessionNext ==
  \/ HandleSync
  \/ \E a \in answers : HandleDelayResp(a)
  \/ Tick
  \/ TimePasses
  \/ LoseMessage

(***************************************************************************)
(* The worker polls in a loop of its own core and time passes; nothing is  *)
(* assumed of the master and of the network.                               *)
(***************************************************************************)
SessionSpec ==
  SessionInit /\ [][SessionNext]_sessionVars /\ WF_sessionVars(Tick) /\ WF_sessionVars(TimePasses)

----------------------------------------------------------------------------
(* Properties.                                                             *)

\* offset_ns is only ever computed from the four timestamps of one exchange: a Sync,
\* the request sent after it and the answer to that very request, although answers
\* arrive late, twice and out of order and Syncs arrive at any time
\* (ptp_handle_sync, ptp_handle_delay_resp).
OffsetGenuine == offset # "mixed"

\* A session is in SYNCED only while the last Sync is no older than the timeout and
\* the two iterations it takes to notice.
SyncedIsRecent == state = "SYNCED" => sinceSync <= SyncTimeout + 2 * MaxStall

\* If Syncs keep coming, and requests and their answers get through again and again,
\* the session synchronises again and again, whatever is lost in between.
Resynchronises ==
  /\ SF_sessionVars(HandleSync)
  /\ SF_sessionVars(SendDelayReq /\ answers' # Overtaken)
  /\ SF_sessionVars(\E a \in answers : a.behind = 0 /\ state = "DELAY_REQ_SENT" /\ HandleDelayResp(a))
  => []<>(state = "SYNCED")

=============================================================================
