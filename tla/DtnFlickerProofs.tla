--------------------------- MODULE DtnFlickerProofs ---------------------------
(***************************************************************************)
(* Proofs about the pipelines that frames and packets go through: on the   *)
(* DTN the two sides of a raw socket port, TxPacing, for all delays,       *)
(* catch-up times and numbers of targets, and however long the worker      *)
(* runs, and RawQueues, for all numbers of queues and packets; the PTP     *)
(* slave, PtpSession, for all time-outs in the order of the code, every    *)
(* size of the sequence space and any number of packets per iteration; and *)
(* a capture channel of the flicker detector, FlickerCapture, for any      *)
(* number of commands, of driver calls that fail and of frames.            *)
(***************************************************************************)
EXTENDS TxPacing, RawQueues, PtpSession, FlickerCapture, FiniteSetTheorems, SequenceTheorems,
        TLAPS

----------------------------------------------------------------------------
(* The limiters.                                                           *)

\* Slots of t handed out since the mark, at most: those whose packet was made up
\* since, and the one under way.
Granted(t) == placed[t] + (IF at = "send" /\ turn = t THEN 1 ELSE 0)

\* From the second slot on, the limiter has advanced a delay with each of them.
Advanced(t) ==
  \/ Granted(t) <= 1
  \/ /\ mark - Catchup(t) + (Granted(t) - 1) * Delay[t] <= next[t]
     /\ next[t] <= now + Delay[t]

\* The frames of a raw port: none is lost between the ring and send(), and
\* unless send() failed the ring holds no more than the batch.
Ring ==
  /\ \A t \in AllTargets : sent[t] + waiting[t] = placed[t] + held[t]
  /\ at # "flush" => batch < BatchSize
  /\ kind # "raw" => batch = 0 /\ ~stuck
  /\ ~stuck => \A t \in AllTargets : waiting[t] <= batch

PacingInv == TypeOK /\ NoDrift /\ Ring /\ \A t \in AllTargets : Advanced(t)

LEMMA Constants ==
  /\ AllTargets \subseteq Nat /\ 0 \in AllTargets /\ 1 \in AllTargets
  /\ \A t \in AllTargets : Delay[t] \in Nat \ {0}
  /\ RawCatchup \in Nat /\ BatchLimit \in Nat \ {0}
  BY PacingAssumption DEF AllTargets

LEMMA OneMore == ASSUME NEW a \in Int, NEW d \in Int PROVE (a + 1) * d = a * d + d
  OBVIOUS

LEMMA OneLess == ASSUME NEW a \in Int, NEW d \in Nat PROVE (a - 1) * d = a * d - d
  OBVIOUS

LEMMA Monotone ==
  ASSUME NEW a \in Int, NEW b \in Int, NEW d \in Nat, a <= b
  PROVE  a * d <= b * d
<1>1. PICK c \in Nat : b = a + c
  BY a <= b, b - a \in Nat
<1>2. b * d = a * d + c * d /\ c * d \in Nat
  BY <1>1
<1> QED
  BY <1>2

LEMMA CatchupType == ASSUME NEW t \in AllTargets PROVE Catchup(t) \in Nat
  BY Constants DEF Catchup

LEMMA GrantedType == ASSUME TypeOK, NEW t \in AllTargets PROVE Granted(t) \in Nat
  BY DEF TypeOK, Granted

----------------------------------------------------------------------------
(* What a slot does to the limiter that hands it out.                      *)

LEMMA SlotMoves ==
  ASSUME TypeOK, NEW t \in AllTargets, TakeSlot(t)
  PROVE  /\ next' \in [AllTargets -> Nat] /\ slots' \in [AllTargets -> Nat]
         /\ onTime' \in [AllTargets -> BOOLEAN]
         /\ now >= next[t]
         /\ next'[t] <= now + Delay[t]
         /\ next'[t] >= next[t] + Delay[t]
         /\ next'[t] >= now - Catchup(t) + Delay[t]
         /\ onTime'[t] => onTime[t] /\ next'[t] = next[t] + Delay[t]
         /\ slots'[t] = slots[t] + 1
         /\ \A u \in AllTargets \ {t} :
               next'[u] = next[u] /\ slots'[u] = slots[u] /\ onTime'[u] = onTime[u]
<1>1. Delay[t] \in Nat /\ Catchup(t) \in Nat /\ next[t] \in Nat /\ now \in Nat
  BY Constants, CatchupType DEF TypeOK
<1>2. AfterSlot(t) \in Nat /\ now >= next[t]
  BY <1>1 DEF AfterSlot, TakeSlot
<1>3. next'[t] = AfterSlot(t)
  BY DEF TakeSlot, TypeOK
<1>4. onTime'[t] = (onTime[t] /\ now <= next[t] + Catchup(t))
  BY DEF TakeSlot, TypeOK
<1>5. /\ next'[t] <= now + Delay[t] /\ next'[t] >= next[t] + Delay[t]
      /\ next'[t] >= now - Catchup(t) + Delay[t]
      /\ now <= next[t] + Catchup(t) => next'[t] = next[t] + Delay[t]
  BY <1>1, <1>2, <1>3 DEF AfterSlot
<1>6. next' \in [AllTargets -> Nat] /\ slots' \in [AllTargets -> Nat]
      /\ slots'[t] = slots[t] + 1
  BY <1>2 DEF TakeSlot, TypeOK
<1>7. onTime' \in [AllTargets -> BOOLEAN]
  BY <1>4 DEF TakeSlot, TypeOK
<1>8. \A u \in AllTargets \ {t} :
         next'[u] = next[u] /\ slots'[u] = slots[u] /\ onTime'[u] = onTime[u]
  BY DEF TakeSlot, TypeOK
<1> QED
  BY <1>2, <1>4, <1>5, <1>6, <1>7, <1>8

LEMMA SlotKeepsNoDrift ==
  ASSUME TypeOK, NoDrift, NEW t \in AllTargets, TakeSlot(t)
  PROVE  NoDrift'
<1> SUFFICES ASSUME NEW u \in AllTargets, onTime'[u]
             PROVE  next'[u] = first[u] + slots'[u] * Delay[u]
  BY DEF NoDrift, TakeSlot
<1>1. CASE u = t
  <2>1. next[t] = first[t] + slots[t] * Delay[t] /\ next'[t] = next[t] + Delay[t]
    BY <1>1, SlotMoves DEF NoDrift
  <2>2. (slots[t] + 1) * Delay[t] = slots[t] * Delay[t] + Delay[t]
    BY OneMore, Constants DEF TypeOK
  <2>3. slots'[t] = slots[t] + 1
    BY SlotMoves
  <2>4. slots[t] * Delay[t] \in Int /\ first[t] \in Int /\ Delay[t] \in Int
    BY Constants DEF TypeOK
  <2> QED
    BY <1>1, <2>1, <2>2, <2>3, <2>4
<1>2. CASE u # t
  BY <1>2, SlotMoves DEF NoDrift
<1> QED
  BY <1>1, <1>2

\* A step that hands out no slot to be used leaves Advanced true.
LEMMA AdvancedKept ==
  ASSUME TypeOK, TypeOK', NEW t \in AllTargets, Advanced(t),
         kind' = kind, mark' = mark, Granted(t)' <= Granted(t),
         next'[t] >= next[t],
         next'[t] <= now' + Delay[t] \/ (next'[t] = next[t] /\ now' >= now)
  PROVE  Advanced(t)'
<1> DEFINE g == Granted(t)  h == Granted(t)'
<1>1. g \in Nat /\ h \in Nat
  BY GrantedType, TypeOK' DEF TypeOK, Granted
<1>2. SUFFICES ASSUME h > 1
      PROVE  /\ mark - Catchup(t) + (h - 1) * Delay[t] <= next'[t]
             /\ next'[t] <= now' + Delay[t]
  BY <1>1 DEF Advanced, Catchup
<1>3. /\ mark - Catchup(t) + (g - 1) * Delay[t] <= next[t]
      /\ next[t] <= now + Delay[t]
  BY <1>1, <1>2 DEF Advanced
<1>4. (h - 1) * Delay[t] <= (g - 1) * Delay[t]
  BY <1>1, Monotone, Constants
<1>5. /\ Delay[t] \in Nat /\ Catchup(t) \in Nat /\ mark \in Nat /\ now \in Nat /\ now' \in Nat
      /\ next[t] \in Nat /\ next'[t] \in Nat
  BY Constants, CatchupType DEF TypeOK
<1>6. (h - 1) * Delay[t] \in Int /\ (g - 1) * Delay[t] \in Int
  BY <1>1, <1>5
<1> HIDE DEF g, h
<1> QED
  BY <1>3, <1>4, <1>5, <1>6

\* ... and so does the slot of a packet that is going to be sent.
LEMMA AdvancedBySlot ==
  ASSUME TypeOK, TypeOK', NEW t \in AllTargets, NEW u \in AllTargets, Advanced(u),
         TakeSlot(t), turn = t, turn' = t, at # "send", at' = "send",
         kind' = kind, now' = now
  PROVE  Advanced(u)'
<1> USE SlotMoves
<1>1. CASE u # t
  <2>1. Granted(u)' = Granted(u) /\ mark' = mark
    BY <1>1 DEF Granted, TakeSlot, markVars
  <2>2. next'[u] = next[u] /\ now' >= now /\ next[u] >= next[u]
    BY <1>1 DEF TypeOK
  <2> QED
    BY <2>1, <2>2, AdvancedKept, GrantedType
<1>2. CASE u = t
  <2> DEFINE g == Granted(t)  h == Granted(t)'
  <2>1. g \in Nat /\ h = g + 1
    BY GrantedType DEF Granted, TakeSlot, TypeOK, markVars
  <2>2. /\ Delay[t] \in Nat /\ Catchup(t) \in Nat /\ mark \in Nat /\ now \in Nat
        /\ mark <= now /\ next[t] \in Nat /\ next'[t] \in Nat /\ mark' = mark
    BY Constants, CatchupType DEF TypeOK, TakeSlot, markVars
  <2>3. /\ next'[t] <= now + Delay[t] /\ next'[t] >= next[t] + Delay[t]
        /\ next'[t] >= now - Catchup(t) + Delay[t]
    OBVIOUS
  <2>4. SUFFICES ASSUME g >= 1
        PROVE  /\ mark - Catchup(t) + g * Delay[t] <= next'[t]
               /\ next'[t] <= now + Delay[t]
    <3>1. h - 1 = g
      BY <2>1
    <3>2. CASE g = 0
      BY <3>2, <1>2, <2>1 DEF Advanced
    <3>3. CASE g >= 1
      BY <3>1, <3>3, <2>2, <2>4, <1>2 DEF Advanced, Catchup
    <3> QED
      BY <3>2, <3>3, <2>1
  <2>5. CASE g = 1
    <3>1. g * Delay[t] = Delay[t]
      BY <2>5, <2>2
    <3> QED
      BY <3>1, <2>2, <2>3
  <2>6. CASE g > 1
    <3>1. mark - Catchup(t) + (g - 1) * Delay[t] <= next[t]
      BY <2>6, <2>1, <1>2 DEF Advanced
    <3>2. (g - 1) * Delay[t] = g * Delay[t] - Delay[t] /\ g * Delay[t] \in Int
      BY OneLess, <2>1, <2>2
    <3> HIDE DEF g, h
    <3> QED
      BY <3>1, <3>2, <2>2, <2>3
  <2> QED
    BY <2>1, <2>4, <2>5, <2>6
<1> QED
  BY <1>1, <1>2

----------------------------------------------------------------------------
(* The invariant is inductive.                                             *)

LEMMA InitHolds == PacingInit => PacingInv
<1> SUFFICES ASSUME PacingInit PROVE PacingInv
  OBVIOUS
<1>1. TypeOK
  <2>1. next \in [AllTargets -> Nat] /\ first \in [AllTargets -> Nat]
    BY PacingAssumption DEF PacingInit
  <2>2. round \in [AllTargets -> 0 .. BatchLimit]
    BY Constants DEF PacingInit, NoFrames
  <2>3. /\ slots \in [AllTargets -> Nat] /\ sent \in [AllTargets -> Nat]
        /\ placed \in [AllTargets -> Nat] /\ held \in [AllTargets -> Nat]
        /\ waiting \in [AllTargets -> Nat] /\ stuck \in BOOLEAN
    BY DEF PacingInit, NoFrames
  <2>6. batch \in 0 .. BatchSize
    BY PacingAssumption DEF PacingInit
  <2>4. kind \in Kinds /\ now \in Nat /\ mark \in 0 .. now /\ turn \in Active
    BY Constants DEF PacingInit, Active
  <2>5. /\ at \in {"ask", "wait", "send", "flush"} /\ anyDue \in BOOLEAN
        /\ onTime \in [AllTargets -> BOOLEAN]
    BY DEF PacingInit
  <2> QED
    BY <2>1, <2>2, <2>3, <2>4, <2>5, <2>6 DEF TypeOK
<1>2. NoDrift
  <2> SUFFICES ASSUME NEW t \in AllTargets
               PROVE  next[t] = first[t] + slots[t] * Delay[t]
    BY DEF NoDrift
  <2>1. slots[t] * Delay[t] = 0
    BY Constants DEF PacingInit, NoFrames
  <2> QED
    BY <2>1 DEF PacingInit
<1>3. \A t \in AllTargets : Advanced(t)
  BY DEF PacingInit, Advanced, Granted, NoFrames
<1>4. Ring
  BY PacingAssumption DEF PacingInit, Ring, NoFrames
<1> QED
  BY <1>1, <1>2, <1>3, <1>4 DEF PacingInv

LEMMA AdvanceType ==
  ASSUME TypeOK, kind = "raw", Advance
  PROVE  turn' \in AllTargets /\ anyDue' \in BOOLEAN /\ round' \in [AllTargets -> 0 .. BatchLimit]
<1>1. turn \in AllTargets /\ anyDue' \in BOOLEAN
  BY DEF Advance, TypeOK, Active
<1>2. turn' \in AllTargets
  BY <1>1, PacingAssumption DEF Advance, AllTargets
<1>3. round' \in [AllTargets -> 0 .. BatchLimit]
  BY Constants DEF Advance, TypeOK, NoFrames
<1> QED
  BY <1>1, <1>2, <1>3

\* send() moves frames from the ring to the wire and touches no limiter.
LEMMA SendMoves ==
  ASSUME TypeOK, Ring, Send
  PROVE  /\ waiting' \in [AllTargets -> Nat] /\ sent' \in [AllTargets -> Nat]
         /\ stuck' \in BOOLEAN /\ batch' = 0
         /\ \A t \in AllTargets : sent'[t] + waiting'[t] = sent[t] + waiting[t]
         /\ ~stuck' => \A t \in AllTargets : waiting'[t] = 0
<1>1. PICK left \in [AllTargets -> 0 .. TxFrames] :
         /\ \A t \in AllTargets : left[t] <= waiting[t]
         /\ waiting' = left
         /\ sent' = [t \in AllTargets |-> sent[t] + waiting[t] - left[t]]
         /\ stuck' = (left # NoFrames)
  BY DEF Send
<1>2. \A t \in AllTargets : left[t] \in Nat /\ waiting[t] \in Nat /\ sent[t] \in Nat
  BY PacingAssumption DEF TypeOK
<1>3. waiting' \in [AllTargets -> Nat]
  BY <1>1, PacingAssumption
<1>4. sent' \in [AllTargets -> Nat]
  BY <1>1, <1>2
<1>5. \A t \in AllTargets : sent'[t] + waiting'[t] = sent[t] + waiting[t]
  BY <1>1, <1>2
<1>6. stuck' \in BOOLEAN
  BY <1>1
<1>7. ~stuck' => \A t \in AllTargets : waiting'[t] = 0
  BY <1>1 DEF NoFrames
<1> QED
  BY <1>3, <1>4, <1>5, <1>6, <1>7 DEF Send

\* The limiters in use are limiters.
LEMMA TurnType == TypeOK => turn \in AllTargets
BY Constants DEF TypeOK, Active

LEMMA TypeStep == TypeOK /\ Ring /\ [PacingNext]_pacingVars => TypeOK'
<1> SUFFICES ASSUME TypeOK, Ring, [PacingNext]_pacingVars PROVE TypeOK'
  OBVIOUS
<1> USE TurnType
<1>1. CASE Elapse
  BY <1>1 DEF Elapse, TypeOK, pastVars, ringVars, slotVars, markVars, Active
<1>2. CASE Mark
  BY <1>2 DEF Mark, TypeOK, Active, ringVars, slotVars, NoFrames
<1>3. CASE PickLane
  BY <1>3, PacingAssumption DEF PickLane, TypeOK, pastVars, ringVars, slotVars, markVars, Active
<1>4. CASE WaitForSlot
  <2>1. TakeSlot(turn) /\ turn \in AllTargets /\ at' = "send"
        /\ UNCHANGED <<kind, now, turn, anyDue, round, first, sent, placed, held, mark,
                       waiting, batch, stuck>>
    BY <1>4 DEF WaitForSlot, TakeSlot, ringVars, markVars
  <2> QED
    BY <2>1, SlotMoves DEF TypeOK, Active
<1>5. CASE AllocFails
  BY <1>5 DEF AllocFails, TypeOK, pastVars, ringVars, slotVars, markVars, Active
<1>6. CASE SendOne
  BY <1>6 DEF SendOne, TypeOK, Active, ringVars, slotVars
<1>7. CASE NotDue
  <2>1. turn' \in AllTargets /\ anyDue' \in BOOLEAN /\ round' \in [AllTargets -> 0 .. BatchLimit]
    BY <1>7, AdvanceType DEF NotDue
  <2>2. /\ at' \in {"ask", "flush"} /\ kind' = "raw"
        /\ UNCHANGED <<kind, now, next, waiting, batch, stuck, first, slots, onTime,
                       mark, placed, sent, held>>
    BY <1>7 DEF NotDue, FlushOrAsk, pastVars, ringVars, slotVars, markVars
  <2> QED
    BY <2>1, <2>2 DEF TypeOK, Active
<1>8. CASE Due
  <2>1. TakeSlot(turn) /\ turn \in AllTargets /\ at' = "send" /\ anyDue' = TRUE
        /\ UNCHANGED <<kind, now, turn, first, sent, placed, held, mark, waiting, batch, stuck>>
    BY <1>8 DEF Due, TakeSlot, ringVars, markVars
  <2>2. round' \in [AllTargets -> 0 .. BatchLimit]
    <3>1. /\ round[turn] < BatchLimit /\ round[turn] \in 0 .. BatchLimit
          /\ round' = [round EXCEPT ![turn] = round[turn] + 1]
      BY <1>8, <2>1 DEF Due, TypeOK
    <3>2. round[turn] + 1 \in 0 .. BatchLimit
      BY <3>1, Constants
    <3> QED
      BY <3>1, <3>2, <2>1 DEF TypeOK
  <2> QED
    BY <2>1, <2>2, SlotMoves DEF TypeOK, Active
<1>9. CASE DueBeyondBatch
  <2>1. TakeSlot(turn) /\ turn \in AllTargets /\ kind = "raw" /\ Advance
        /\ UNCHANGED <<kind, now, first, sent, placed, held, mark, waiting, batch, stuck>>
        /\ at' \in {"ask", "flush"}
    BY <1>9 DEF DueBeyondBatch, TakeSlot, FlushOrAsk, ringVars, markVars
  <2>2. turn' \in AllTargets /\ anyDue' \in BOOLEAN /\ round' \in [AllTargets -> 0 .. BatchLimit]
    BY <2>1, AdvanceType
  <2> QED
    BY <2>1, <2>2, SlotMoves DEF TypeOK, Active
<1>10. CASE PlaceFrame
  <2>1. turn' \in AllTargets /\ anyDue' \in BOOLEAN /\ round' \in [AllTargets -> 0 .. BatchLimit]
    BY <1>10, AdvanceType DEF PlaceFrame
  <2>2. /\ waiting' \in [AllTargets -> Nat] /\ placed' \in [AllTargets -> Nat]
        /\ at' \in {"ask", "flush"} /\ kind' = "raw"
    BY <1>10 DEF PlaceFrame, TypeOK
  <2>3. UNCHANGED <<kind, now, next, first, slots, mark, onTime, sent, held, stuck>>
    BY <1>10 DEF PlaceFrame, slotVars
  <2>4. batch' \in 0 .. BatchSize
    BY <1>10, PacingAssumption DEF PlaceFrame, Ring, TypeOK
  <2> QED
    BY <2>1, <2>2, <2>3, <2>4 DEF TypeOK, Active
<1>11. CASE Flush \/ FlushFullRing
  <2>1. Send /\ at' \in {"ask", "send"}
    BY <1>11 DEF Flush, FlushFullRing, TypeOK
  <2>2. UNCHANGED <<kind, now, next, turn, anyDue, round, first, slots, onTime, mark, placed, held>>
    BY <2>1 DEF Send, slotVars
  <2>3. batch' \in 0 .. BatchSize
    BY <2>1, SendMoves, PacingAssumption
  <2> QED
    BY <2>1, <2>2, <2>3, SendMoves DEF TypeOK, Active
<1>12. CASE UNCHANGED pacingVars
  BY <1>12 DEF pacingVars, pastVars, ringVars, slotVars, markVars, TypeOK, Active
<1> QED
  BY <1>1, <1>2, <1>3, <1>4, <1>5, <1>6, <1>7, <1>8, <1>9, <1>10, <1>11, <1>12 DEF PacingNext

LEMMA RingStep == TypeOK /\ Ring /\ [PacingNext]_pacingVars => Ring'
<1> SUFFICES ASSUME TypeOK, Ring, [PacingNext]_pacingVars PROVE Ring'
  OBVIOUS
<1> USE TurnType
<1>1. CASE Elapse \/ PickLane \/ WaitForSlot \/ AllocFails \/ NotDue \/ Due \/ DueBeyondBatch
           \/ UNCHANGED pacingVars
  <2>1. UNCHANGED <<kind, waiting, batch, stuck, placed, sent, held>>
    BY <1>1 DEF Elapse, PickLane, WaitForSlot, AllocFails, NotDue, Due, DueBeyondBatch, TakeSlot,
       pacingVars, pastVars, ringVars, markVars
  <2>3. at = "flush" => at' = "flush"
    BY <1>1 DEF Elapse, PickLane, WaitForSlot, AllocFails, NotDue, Due, DueBeyondBatch, pacingVars
  <2>2. at' # "flush" => batch' < BatchSize
    BY <2>1, <2>3 DEF Ring
  <2> QED
    BY <2>1, <2>2 DEF Ring
<1>2. CASE Mark
  <2>1. UNCHANGED <<kind, at, waiting, batch, stuck>>
    BY <1>2 DEF Mark, ringVars
  <2>2. ASSUME NEW t \in AllTargets PROVE sent'[t] + waiting'[t] = placed'[t] + held'[t]
    BY <1>2, <2>1 DEF Mark, TypeOK, NoFrames
  <2> QED
    BY <2>1, <2>2 DEF Ring
<1>3. CASE SendOne
  <2>1. UNCHANGED <<kind, waiting, batch, stuck, held>> /\ at # "flush"
    BY <1>3 DEF SendOne, ringVars
  <2>2. ASSUME NEW t \in AllTargets PROVE sent'[t] + waiting'[t] = placed'[t] + held'[t]
    BY <1>3, <2>1 DEF SendOne, TypeOK, Ring
  <2> QED
    BY <2>1, <2>2 DEF Ring
<1>4. CASE PlaceFrame
  <2>1. UNCHANGED <<kind, sent, stuck, held>> /\ kind = "raw" /\ batch' = batch + 1
        /\ at' = IF batch + 1 >= BatchSize THEN "flush" ELSE "ask"
    BY <1>4 DEF PlaceFrame
  <2>2. ASSUME NEW t \in AllTargets
        PROVE  /\ sent'[t] + waiting'[t] = placed'[t] + held'[t]
               /\ ~stuck => waiting'[t] <= batch'
    BY <1>4, <2>1 DEF PlaceFrame, TypeOK, Ring
  <2>3. at' # "flush" => batch' < BatchSize
    BY <2>1, PacingAssumption DEF TypeOK
  <2> QED
    BY <2>1, <2>2, <2>3 DEF Ring
<1>5. CASE Flush \/ FlushFullRing
  <2>1. Send /\ kind = "raw" /\ UNCHANGED <<kind, placed, held>>
    BY <1>5 DEF Flush, FlushFullRing, Send
  <2>2. \A t \in AllTargets : sent'[t] + waiting'[t] = placed'[t] + held'[t]
    BY <2>1, SendMoves DEF Ring
  <2>3. batch' = 0 /\ 0 < BatchSize /\ (~stuck' => \A t \in AllTargets : waiting'[t] <= batch')
    BY <2>1, SendMoves, PacingAssumption
  <2> QED
    BY <2>1, <2>2, <2>3 DEF Ring
<1> QED
  BY <1>1, <1>2, <1>3, <1>4, <1>5 DEF PacingNext

LEMMA NoDriftStep == TypeOK /\ NoDrift /\ [PacingNext]_pacingVars => NoDrift'
<1> SUFFICES ASSUME TypeOK, NoDrift, [PacingNext]_pacingVars PROVE NoDrift'
  OBVIOUS
<1>1. CASE TakeSlot(turn)
  BY <1>1, SlotKeepsNoDrift, TurnType
<1>2. CASE UNCHANGED <<next, first, slots, onTime>>
  BY <1>2 DEF NoDrift
<1> QED
  BY <1>1, <1>2 DEF PacingNext, pacingVars, pastVars, slotVars, Elapse, Mark, PickLane,
     WaitForSlot, AllocFails, SendOne, NotDue, Due, DueBeyondBatch, PlaceFrame, Flush,
     FlushFullRing, Send

LEMMA AdvancedStep ==
  ASSUME TypeOK, TypeOK', [PacingNext]_pacingVars, NEW u \in AllTargets, Advanced(u)
  PROVE  Advanced(u)'
<1> USE TurnType
<1>0. /\ next[u] \in Nat /\ now \in Nat /\ now >= now /\ placed[u] \in Nat
      /\ placed \in [AllTargets -> Nat]
      /\ Granted(u) \in Nat
  BY GrantedType DEF TypeOK
<1>1. CASE Elapse
  <2>1. Granted(u)' <= Granted(u) /\ next'[u] = next[u] /\ now' >= now /\ kind' = kind /\ mark' = mark
    BY <1>0, <1>1 DEF Elapse, pastVars, markVars, Granted
  <2> QED
    BY <1>0, <2>1, AdvancedKept
<1>2. CASE Mark
  BY <1>2 DEF Mark, Advanced, Granted, NoFrames
<1>3. CASE \/ PickLane \/ AllocFails \/ SendOne \/ NotDue \/ PlaceFrame
           \/ Flush \/ FlushFullRing \/ UNCHANGED pacingVars
  <2>1. next' = next /\ now' = now /\ kind' = kind /\ mark' = mark
    BY <1>3 DEF PickLane, AllocFails, SendOne, NotDue, PlaceFrame, Flush, FlushFullRing, Send,
       pacingVars, pastVars, markVars
  <2>2. Granted(u)' <= Granted(u)
    <3>1. CASE SendOne \/ PlaceFrame
      BY <1>0, <3>1 DEF SendOne, PlaceFrame, Granted
    <3>2. CASE PickLane \/ AllocFails \/ NotDue \/ Flush \/ FlushFullRing \/ UNCHANGED pacingVars
      <4>1. placed' = placed /\ (at' = "send" => at = "send" /\ turn' = turn)
        BY <3>2 DEF PickLane, AllocFails, NotDue, FlushOrAsk, Flush, FlushFullRing, Send,
           pacingVars, pastVars, markVars
      <4> QED
        BY <1>0, <4>1 DEF Granted
    <3> QED
      BY <1>3, <3>1, <3>2
  <2> QED
    BY <1>0, <2>1, <2>2, AdvancedKept
<1>4. CASE WaitForSlot \/ Due
  <2>1. /\ TakeSlot(turn) /\ turn' = turn /\ at # "send" /\ at' = "send"
        /\ kind' = kind /\ now' = now
    BY <1>4 DEF WaitForSlot, Due
  <2> QED
    BY <2>1, AdvancedBySlot
<1>5. CASE DueBeyondBatch
  <2>1. /\ TakeSlot(turn) /\ kind' = kind /\ now' = now /\ mark' = mark
        /\ at = "ask" /\ at' # "send" /\ placed' = placed
    BY <1>5 DEF DueBeyondBatch, TakeSlot, FlushOrAsk, markVars
  <2>2. Granted(u)' <= Granted(u)
    BY <1>0, <2>1 DEF Granted
  <2>3. CASE u = turn
    <3>1. Delay[u] \in Nat /\ next'[u] \in Nat
      BY Constants DEF TypeOK
    <3>2. next'[u] >= next[u] /\ next'[u] <= now' + Delay[u]
      BY <1>0, <2>1, <2>3, <3>1, SlotMoves
    <3> QED
      BY <2>1, <2>2, <3>2, AdvancedKept
  <2>4. CASE u # turn
    <3>1. next'[u] = next[u]
      BY <2>1, <2>4, SlotMoves
    <3> QED
      BY <1>0, <2>1, <2>2, <3>1, AdvancedKept
  <2> QED
    BY <2>3, <2>4
<1> QED
  BY <1>1, <1>2, <1>3, <1>4, <1>5 DEF PacingNext

LEMMA StepHolds == PacingInv /\ [PacingNext]_pacingVars => PacingInv'
<1> SUFFICES ASSUME PacingInv, [PacingNext]_pacingVars PROVE PacingInv'
  OBVIOUS
<1>1. TypeOK'
  BY TypeStep DEF PacingInv
<1>2. NoDrift'
  BY NoDriftStep DEF PacingInv
<1>3. ASSUME NEW u \in AllTargets PROVE Advanced(u)'
  BY <1>1, AdvancedStep DEF PacingInv
<1>4. Ring'
  BY RingStep DEF PacingInv
<1> QED
  BY <1>1, <1>2, <1>3, <1>4 DEF PacingInv

LEMMA BoundFollows == PacingInv => RateBounded
<1> SUFFICES ASSUME PacingInv, NEW t \in AllTargets
             PROVE  /\ sent[t] * Delay[t] <= (now - mark) + Catchup(t) + (2 + held[t]) * Delay[t]
                    /\ ~stuck => waiting[t] <= IF kind = "raw" THEN BatchSize ELSE 0
  BY DEF RateBounded
<1>1. /\ Delay[t] \in Nat /\ Catchup(t) \in Nat /\ mark \in Nat /\ now \in Nat /\ mark <= now
      /\ next[t] \in Nat /\ sent[t] \in Nat /\ Granted(t) \in Nat /\ held[t] \in Nat
      /\ placed[t] \in Nat /\ waiting[t] \in Nat /\ placed[t] <= Granted(t)
  BY Constants, CatchupType, GrantedType DEF PacingInv, TypeOK, Granted
<1>w. ~stuck => waiting[t] <= IF kind = "raw" THEN BatchSize ELSE 0
  BY <1>1, PacingAssumption DEF PacingInv, Ring, TypeOK
<1>p. sent[t] <= Granted(t) + held[t]
  BY <1>1 DEF PacingInv, Ring
<1>s. /\ sent[t] * Delay[t] <= Granted(t) * Delay[t] + held[t] * Delay[t]
      /\ (2 + held[t]) * Delay[t] = 2 * Delay[t] + held[t] * Delay[t]
      /\ held[t] * Delay[t] \in Int
  <2> DEFINE g == Granted(t)
  <2>1. g \in Int
    BY <1>1
  <2> HIDE DEF g
  <2>2. sent[t] * Delay[t] <= (g + held[t]) * Delay[t]
    <3>1. sent[t] <= g + held[t] /\ g + held[t] \in Int
      BY <1>1, <1>p, <2>1 DEF g
    <3> QED
      BY <1>1, <3>1, Monotone
  <2>3. (g + held[t]) * Delay[t] = g * Delay[t] + held[t] * Delay[t]
    BY <1>1, <2>1
  <2>4. (2 + held[t]) * Delay[t] = 2 * Delay[t] + held[t] * Delay[t] /\ held[t] * Delay[t] \in Int
    BY <1>1
  <2> QED
    BY <2>2, <2>3, <2>4 DEF g
<1>2. Granted(t) * Delay[t] \in Int /\ sent[t] * Delay[t] \in Int
  BY <1>1
<1>g. SUFFICES Granted(t) * Delay[t] <= (now - mark) + Catchup(t) + 2 * Delay[t]
  BY <1>1, <1>w, <1>s, <1>2
<1>3. CASE Granted(t) <= 1
  <2>1. Granted(t) * Delay[t] <= 1 * Delay[t]
    BY <1>1, <1>3, Monotone
  <2> QED
    BY <1>1, <1>2, <2>1
<1>4. CASE Granted(t) > 1
  <2>1. mark - Catchup(t) + (Granted(t) - 1) * Delay[t] <= now + Delay[t]
    <3>1. /\ mark - Catchup(t) + (Granted(t) - 1) * Delay[t] <= next[t]
          /\ next[t] <= now + Delay[t]
      BY <1>1, <1>4 DEF PacingInv, Advanced
    <3>2. (Granted(t) - 1) * Delay[t] \in Int
      BY <1>1
    <3> QED
      BY <1>1, <3>1, <3>2
  <2>2. (Granted(t) - 1) * Delay[t] = Granted(t) * Delay[t] - Delay[t]
    <3> DEFINE g == Granted(t)
    <3>1. g \in Int /\ Delay[t] \in Nat
      BY <1>1
    <3> HIDE DEF g
    <3>2. (g - 1) * Delay[t] = g * Delay[t] - Delay[t]
      BY <3>1, OneLess
    <3> QED
      BY <3>2 DEF g
  <2> QED
    BY <1>1, <1>2, <2>1, <2>2
<1> QED
  BY <1>1, <1>3, <1>4

----------------------------------------------------------------------------
(* The theorems.                                                           *)

\* PacingInv holds in every reachable state.
THEOREM Inductive == PacingSpec => []PacingInv
BY InitHolds, StepHolds, PTL DEF PacingSpec

\* Every variable keeps its type.
THEOREM TypeCorrect == PacingSpec => []TypeOK
<1>1. PacingInv => TypeOK
  BY DEF PacingInv
<1> QED
  BY <1>1, Inductive, PTL

\* However late a worker is: no interval sees more packets of a limiter leave
\* than its rate allows, but for what it makes up, one packet, one under way and
\* the frames that waited in the ring of a raw port - no more than a batch
\* unless send() failed -, and lateness it makes up costs it no slot.
THEOREM RateIsKept == PacingSpec => []RateKept
<1>1. PacingInv => RateKept
  BY BoundFollows DEF RateKept, PacingInv
<1> QED
  BY <1>1, Inductive, PTL

\* A limiter that was never later than it makes up for has neither lost a slot
\* nor shifted one.
THEOREM SlotsDoNotDrift == PacingSpec => []NoDrift
<1>1. PacingInv => NoDrift
  BY DEF PacingInv
<1> QED
  BY <1>1, Inductive, PTL
----------------------------------------------------------------------------
(* The queues.                                                             *)

WorkerLabels == {"poll", "count", "first", "casFirst", "mark", "loadMax", "casMax",
                 "loadMin", "casMin", "done"}
MainLabels == {"idle", "resetMax", "resetCount", "resetInit", "readMin", "readMax",
               "readCount", "print"}
Numbers == 0 .. MaxSeq
Values == 0 .. Top
WorkerStates == [Queues -> [at : WorkerLabels, seq : Numbers, old : Values]]
Rings == [Queues -> Seq(Numbers)]
Trackers == [min : Values, max : Numbers, count : Nat, init : BOOLEAN]
Mains == [at : MainLabels, min : Values, max : Numbers, lost : Nat, sure : BOOLEAN, most : Nat]
Known == 0 .. number - 1

QueueTypes ==
  /\ number \in 0 .. MaxSeq + 1 /\ ring \in Rings /\ worker \in WorkerStates
  /\ trk \in Trackers /\ main \in Mains
  /\ wasReset \in BOOLEAN /\ stop \in BOOLEAN /\ cut \in BOOLEAN
  /\ lost \subseteq Known /\ counted \subseteq Known /\ before \subseteq Known

\* Every number sent so far is in one place: lost, counted before the reset or since, in one
\* ring, or in the hands of one worker that has still to count it.
Elements(s) == {s[i] : i \in 1 .. Len(s)}
Once(s) == \A i, j \in 1 .. Len(s) : s[i] = s[j] => i = j
Hand(q) == IF worker[q].at = "count" THEN {Packet(q)} ELSE {}
Owned(q) == Elements(ring[q]) \cup Hand(q)

OwnInv ==
  /\ \A q \in Queues : Once(ring[q]) /\ Elements(ring[q]) \cap Hand(q) = {}
  /\ \A q, r \in Queues : q # r => Owned(q) \cap Owned(r) = {}

PlaceInv ==
  /\ \A q \in Queues : Owned(q) \subseteq Known /\ Owned(q) \cap (lost \cup before \cup counted) = {}
  /\ lost \cap before = {} /\ lost \cap counted = {} /\ before \cap counted = {}
  /\ \A n \in Known : n \in lost \cup before \cup counted \/ \E q \in Queues : n \in Owned(q)

CountInv == trk.count = Cardinality(counted)

\* The reset finds nobody at work on the tracker, unless it is cut.
ResetInv ==
  /\ ~wasReset => ~cut /\ ~Resetting
  /\ ~wasReset \/ main.at \in {"resetMax", "resetCount"} => before = {}
  /\ Resetting /\ ~cut =>
       /\ InHand = {} /\ trk.min = Top
       /\ main.at \in {"resetCount", "resetInit"} => trk.max = 0
       /\ main.at = "resetInit" => counted = {}

\* A packet that was counted lies between minimum and maximum, or is in the hands of a
\* worker that will see to it.
SeesMax == {"first", "casFirst", "mark", "loadMax", "casMax"}
SeenInv ==
  /\ trk.min = Top \/ trk.min \in counted
  /\ trk.max = 0 \/ trk.max \in counted
  /\ \A q \in InHand : Packet(q) \in counted
  /\ \A n \in counted : trk.min <= n \/ \E q \in InHand : Packet(q) = n
  /\ \A n \in counted : n <= trk.max \/ \E q \in InHand : worker[q].at \in SeesMax /\ Packet(q) = n

\* A worker that has seen the first packet finds a minimum; and where there is a minimum,
\* `init' says so or soon will.
SawFirst == {"mark", "loadMax", "casMax", "loadMin", "casMin"}
FirstInv ==
  /\ trk.init \/ (\E q \in Queues : worker[q].at \in SawFirst) => trk.min # Top
  /\ trk.min # Top => trk.init \/ \E q \in Queues : worker[q].at = "mark"

TrackInv == ~Resetting /\ ~cut => SeenInv /\ FirstInv

\* What a compare-and-swap is about to store is beyond the value it compares with.
CompareInv ==
  /\ \A q \in Queues : /\ worker[q].at \notin {"poll", "done"} => Packet(q) < number
                       /\ worker[q].at = "casMax" => worker[q].old < Packet(q)
                       /\ worker[q].at = "casMin" => Packet(q) < worker[q].old
  /\ trk.max = 0 \/ trk.max < number

\* What the main thread has loaded, once a first packet was through, is in order.
ReadInv ==
  /\ main.sure /\ ~cut => /\ main.at = "readMin" => trk.min <= trk.max
                          /\ main.at = "readMax" => main.min <= trk.max
                          /\ main.at = "readCount" => main.min <= main.max
  /\ main.sure => number >= 1
  /\ main.at = "readCount" => main.max = 0 \/ main.max < number

QueuesInv ==
  /\ QueueTypes /\ OwnInv /\ PlaceInv /\ CountInv /\ ResetInv /\ TrackInv /\ CompareInv
  /\ ReadInv /\ LiveBounded

----------------------------------------------------------------------------
(* Sequences without repetition.                                           *)

LEMMA AppendIs ==
  ASSUME NEW S, NEW s \in Seq(S), NEW n \in S
  PROVE  /\ Append(s, n) \in Seq(S) /\ Elements(Append(s, n)) = Elements(s) \cup {n}
         /\ Once(s) /\ n \notin Elements(s) => Once(Append(s, n))
<1> DEFINE t == Append(s, n)
           m == Len(s)
<1>1. /\ m \in Nat /\ t \in Seq(S) /\ Len(t) = m + 1 /\ t[m + 1] = n
      /\ \A i \in 1 .. m : t[i] = s[i]
  BY AppendProperties, LenProperties
<1>2. \A i \in 1 .. m + 1 : i \in 1 .. m \/ i = m + 1
  BY <1>1
<1>3. m + 1 \in 1 .. m + 1 /\ \A i \in 1 .. m : i \in 1 .. m + 1 /\ i # m + 1
  BY <1>1
<1> HIDE DEF t, m
<1>4. Elements(t) = {t[i] : i \in 1 .. m + 1} /\ Elements(s) = {s[i] : i \in 1 .. m}
  BY <1>1 DEF Elements, m
<1>5. Elements(t) = Elements(s) \cup {n}
  BY <1>1, <1>2, <1>3, <1>4
<1>6. ASSUME Once(s), n \notin Elements(s), NEW i \in 1 .. m + 1, NEW j \in 1 .. m + 1, t[i] = t[j]
      PROVE  i = j
  <2>1. \A k \in 1 .. m : s[k] # n
    BY <1>4, <1>6
  <2>2. \A k, l \in 1 .. m : s[k] = s[l] => k = l
    BY <1>6 DEF Once, m
  <2> QED
    BY <1>1, <1>2, <1>6, <2>1, <2>2
<1>7. Once(s) /\ n \notin Elements(s) => Once(t)
  BY <1>1, <1>6 DEF Once
<1> QED
  BY <1>1, <1>5, <1>7 DEF t

LEMMA TailIs ==
  ASSUME NEW S, NEW s \in Seq(S), s # <<>>
  PROVE  /\ Head(s) \in S /\ Tail(s) \in Seq(S) /\ Elements(s) = Elements(Tail(s)) \cup {Head(s)}
         /\ Once(s) => Once(Tail(s)) /\ Head(s) \notin Elements(Tail(s))
<1> DEFINE t == Tail(s)
           m == Len(t)
<1>1. /\ m \in Nat /\ t \in Seq(S) /\ Len(s) = m + 1 /\ s[1] = Head(s) /\ Head(s) \in S
      /\ \A i \in 1 .. m : t[i] = s[i + 1]
  <2>1. Len(s) \in Nat /\ Len(s) # 0
    BY EmptySeq, LenProperties
  <2>2. /\ Head(s) \in S /\ t \in Seq(S) /\ Len(t) = Len(s) - 1
        /\ \A i \in 1 .. Len(t) : t[i] = s[i + 1]
    BY HeadTailProperties
  <2>3. s[1] = Head(s)
    BY DEF Head
  <2> QED
    BY <2>1, <2>2, <2>3
<1>2. \A i \in 1 .. m + 1 : i = 1 \/ (i - 1 \in 1 .. m /\ (i - 1) + 1 = i)
  BY <1>1
<1>3. 1 \in 1 .. m + 1 /\ \A i \in 1 .. m : i + 1 \in 1 .. m + 1 /\ i + 1 # 1 /\ i \in Int
  BY <1>1
<1> HIDE DEF t, m
<1>4. Elements(s) = {s[i] : i \in 1 .. m + 1} /\ Elements(t) = {t[i] : i \in 1 .. m}
  BY <1>1 DEF Elements, m
<1>5. Elements(s) = Elements(t) \cup {Head(s)}
  <2>1. \A i \in 1 .. m + 1 : s[i] \in Elements(t) \cup {Head(s)}
    BY <1>1, <1>2, <1>4
  <2>2. \A i \in 1 .. m : t[i] \in Elements(s)
    BY <1>1, <1>3, <1>4
  <2>3. Head(s) \in Elements(s)
    BY <1>1, <1>3, <1>4
  <2> QED
    BY <1>4, <2>1, <2>2, <2>3
<1>6. ASSUME Once(s) PROVE Once(t) /\ Head(s) \notin Elements(t)
  <2>1. \A k, l \in 1 .. m + 1 : s[k] = s[l] => k = l
    BY <1>1, <1>6 DEF Once
  <2>2. ASSUME NEW i \in 1 .. m, NEW j \in 1 .. m, t[i] = t[j] PROVE i = j
    <3>1. i + 1 = j + 1
      BY <1>1, <1>3, <2>1, <2>2
    <3> QED
      BY <3>1
  <2>3. \A i \in 1 .. m : t[i] # Head(s)
    BY <1>1, <1>3, <2>1
  <2> QED
    BY <1>4, <2>2, <2>3 DEF Once, m
<1> QED
  BY <1>1, <1>5, <1>6 DEF t

----------------------------------------------------------------------------
(* What the steps change.                                                  *)

LEMMA Bounds ==
  /\ MaxSeq \in Nat /\ Wrap \in Nat /\ Top = Wrap - 1 /\ MaxSeq + 1 < Top
  /\ 0 \in Numbers /\ Top \in Values
  /\ Numbers \subseteq Nat /\ Values \subseteq Nat /\ Numbers \subseteq Values
  /\ \A n \in Numbers : n < Top /\ n <= MaxSeq
BY QueuesAssumption DEF Top, Numbers, Values

LEMMA Fields ==
  ASSUME QueueTypes
  PROVE  /\ trk.min \in Values /\ trk.max \in Numbers /\ trk.count \in Nat /\ trk.init \in BOOLEAN
         /\ main.at \in MainLabels /\ main.min \in Values /\ main.max \in Numbers
         /\ main.lost \in Nat /\ main.most \in Nat /\ main.sure \in BOOLEAN
         /\ number \in Nat /\ number <= MaxSeq + 1 /\ number \in 0 .. MaxSeq + 1
         /\ \A q \in Queues : /\ worker[q].at \in WorkerLabels /\ Packet(q) \in Numbers
                              /\ worker[q].old \in Values /\ ring[q] \in Seq(Numbers)
<1>1. trk \in Trackers /\ main \in Mains /\ number \in 0 .. MaxSeq + 1 /\ worker \in WorkerStates /\ ring \in Rings
  BY DEF QueueTypes
<1>2. number \in Nat /\ number <= MaxSeq + 1
  BY <1>1, Bounds
<1>3. trk.min \in Values /\ trk.max \in Numbers /\ trk.count \in Nat /\ trk.init \in BOOLEAN
  BY <1>1 DEF Trackers
<1>4. /\ main.at \in MainLabels /\ main.min \in Values /\ main.max \in Numbers
      /\ main.lost \in Nat /\ main.most \in Nat /\ main.sure \in BOOLEAN
  BY <1>1 DEF Mains
<1>5. ASSUME NEW q \in Queues
      PROVE  /\ worker[q].at \in WorkerLabels /\ Packet(q) \in Numbers
             /\ worker[q].old \in Values /\ ring[q] \in Seq(Numbers)
  BY <1>1 DEF WorkerStates, Rings, Packet
<1> QED
  BY <1>1, <1>2, <1>3, <1>4, <1>5

\* Only the worker of queue q does something.
Others(q) == \A r \in Queues \ {q} : worker'[r] = worker[r]

LEMMA GoesIs ==
  ASSUME QueueTypes, NEW q \in Queues, NEW l \in WorkerLabels, Goes(q, l)
  PROVE  /\ worker' \in WorkerStates /\ worker'[q].at = l /\ Packet(q)' = Packet(q)
         /\ worker'[q].old = worker[q].old /\ Others(q)
BY DEF QueueTypes, Goes, WorkerStates, Packet, Others

LEMMA LoadsIs ==
  ASSUME QueueTypes, NEW q \in Queues, NEW l \in WorkerLabels, NEW v \in Values, Loads(q, l, v)
  PROVE  /\ worker' \in WorkerStates /\ worker'[q].at = l /\ Packet(q)' = Packet(q)
         /\ worker'[q].old = v /\ Others(q)
BY DEF QueueTypes, Loads, WorkerStates, Packet, Others

LEMMA ThroughIs ==
  ASSUME QueueTypes, NEW q \in Queues, Through(q)
  PROVE  worker' \in WorkerStates /\ worker'[q].at = "poll" /\ Others(q)
<1>1. Poll \in [at : WorkerLabels, seq : Numbers, old : Values] /\ Poll.at = "poll"
  BY Bounds DEF Poll, WorkerLabels
<1> QED
  BY <1>1 DEF QueueTypes, Through, WorkerStates, Others

\* The worker of q looks at a maximum or at a minimum.
LEMMA AfterMaxIs ==
  ASSUME QueueTypes, NEW q \in Queues, AfterMax(q, trk.max)
  PROVE  /\ worker' \in WorkerStates /\ Packet(q)' = Packet(q) /\ Others(q)
         /\ \/ worker'[q].at = "casMax" /\ worker'[q].old = trk.max /\ trk.max < Packet(q)
            \/ worker'[q].at = "loadMin" /\ Packet(q) <= trk.max
<1>1. trk.max \in Values /\ trk.max \in Nat /\ Packet(q) \in Nat
  BY Fields, Bounds
<1>2. CASE Packet(q) > trk.max
  <2>1. Loads(q, "casMax", trk.max) /\ "casMax" \in WorkerLabels
    BY <1>2 DEF AfterMax, WorkerLabels
  <2> QED
    BY <1>1, <1>2, <2>1, LoadsIs
<1>3. CASE ~(Packet(q) > trk.max)
  <2>1. Loads(q, "loadMin", trk.max) /\ "loadMin" \in WorkerLabels
    BY <1>3 DEF AfterMax, WorkerLabels
  <2> QED
    BY <1>1, <1>3, <2>1, LoadsIs
<1> QED
  BY <1>2, <1>3

LEMMA AfterMinIs ==
  ASSUME QueueTypes, NEW q \in Queues, AfterMin(q, trk.min)
  PROVE  /\ worker' \in WorkerStates /\ Others(q)
         /\ \/ /\ worker'[q].at = "casMin" /\ worker'[q].old = trk.min /\ Packet(q) < trk.min
               /\ Packet(q)' = Packet(q)
            \/ worker'[q].at = "poll" /\ trk.min <= Packet(q)
<1>1. trk.min \in Values /\ trk.min \in Nat /\ Packet(q) \in Nat
  BY Fields, Bounds
<1>2. CASE Packet(q) < trk.min
  <2>1. Loads(q, "casMin", trk.min) /\ "casMin" \in WorkerLabels
    BY <1>2 DEF AfterMin, WorkerLabels
  <2> QED
    BY <1>1, <1>2, <2>1, LoadsIs
<1>3. CASE ~(Packet(q) < trk.min)
  <2>1. Through(q)
    BY <1>3 DEF AfterMin
  <2> QED
    BY <1>1, <1>3, <2>1, ThroughIs
<1> QED
  BY <1>2, <1>3

LEMMA TakeIs ==
  ASSUME QueueTypes, NEW q \in Queues, Take(q)
  PROVE  /\ worker' \in WorkerStates /\ worker[q].at = "poll" /\ worker'[q].at = "count"
         /\ Packet(q)' = Head(ring[q]) /\ Others(q)
         /\ ring[q] # <<>> /\ ring' \in Rings /\ ring'[q] = Tail(ring[q])
         /\ \A r \in Queues \ {q} : ring'[r] = ring[r]
         /\ Packet(q)' \in Elements(ring[q])
<1>1. ring[q] # <<>> /\ ring[q] \in Seq(Numbers)
  BY Fields DEF Take
<1>2. /\ Head(ring[q]) \in Numbers /\ Tail(ring[q]) \in Seq(Numbers)
      /\ Head(ring[q]) \in Elements(ring[q])
  BY <1>1, TailIs
<1> DEFINE new == [at |-> "count", seq |-> Head(ring[q]), old |-> 0]
<1>3. new \in [at : WorkerLabels, seq : Numbers, old : Values] /\ new.at = "count" /\ new.seq = Head(ring[q])
  BY <1>2, Bounds DEF WorkerLabels
<1>4. worker' = [worker EXCEPT ![q] = new] /\ worker[q].at = "poll"
  BY DEF Take
<1> HIDE DEF new
<1>5. /\ worker' \in WorkerStates /\ worker'[q].at = "count" /\ worker'[q].seq = Head(ring[q]) /\ Others(q)
  BY <1>3, <1>4 DEF QueueTypes, WorkerStates, Others
<1>6. ring' = [ring EXCEPT ![q] = Tail(ring[q])]
  BY DEF Take
<1>7. ring' \in Rings /\ ring'[q] = Tail(ring[q]) /\ \A r \in Queues \ {q} : ring'[r] = ring[r]
  BY <1>2, <1>6 DEF QueueTypes, Rings
<1> QED
  BY <1>1, <1>2, <1>4, <1>5, <1>7 DEF Packet

LEMMA ArriveIs ==
  ASSUME QueueTypes, NEW q \in Queues, Arrive(q)
  PROVE  /\ ring' \in Rings /\ ring'[q] = Append(ring[q], number)
         /\ \A r \in Queues \ {q} : ring'[r] = ring[r]
         /\ number \in Numbers /\ number' = number + 1 /\ number' \in 0 .. MaxSeq + 1
<1>1. number \in Numbers /\ number' = number + 1 /\ number' \in 0 .. MaxSeq + 1
  BY Fields, Bounds DEF Arrive, Numbers
<1>2. ring[q] \in Seq(Numbers) /\ Append(ring[q], number) \in Seq(Numbers)
  BY <1>1, Fields, AppendProperties
<1>3. ring' = [ring EXCEPT ![q] = Append(ring[q], number)]
  BY DEF Arrive
<1> QED
  BY <1>1, <1>2, <1>3 DEF QueueTypes, Rings

\* The worker has a packet of its own in these steps.
LEMMA StepsIn ==
  ASSUME QueueTypes, NEW q \in Queues
  PROVE  /\ Quit(q) => /\ worker[q].at = "poll" /\ worker'[q].at = "done" /\ Packet(q)' = Packet(q)
                       /\ Others(q) /\ worker' \in WorkerStates /\ trk' = trk
         /\ Count(q) => /\ worker[q].at = "count" /\ worker'[q].at = "first" /\ Packet(q)' = Packet(q)
                        /\ Others(q) /\ worker' \in WorkerStates
         /\ LoadInit(q) => /\ worker[q].at = "first" /\ Packet(q)' = Packet(q) /\ Others(q)
                           /\ worker' \in WorkerStates /\ trk' = trk
                           /\ worker'[q].at = IF trk.init THEN "loadMax" ELSE "casFirst"
         /\ MarkInit(q) => /\ worker[q].at = "mark" /\ worker'[q].at = "loadMax"
                           /\ Packet(q)' = Packet(q) /\ Others(q) /\ worker' \in WorkerStates
<1>1. /\ "done" \in WorkerLabels /\ "first" \in WorkerLabels /\ "loadMax" \in WorkerLabels
      /\ (IF trk.init THEN "loadMax" ELSE "casFirst") \in WorkerLabels
  BY DEF WorkerLabels
<1>2. Quit(q) => /\ worker[q].at = "poll" /\ worker'[q].at = "done" /\ Packet(q)' = Packet(q)
                 /\ Others(q) /\ worker' \in WorkerStates /\ trk' = trk
  BY <1>1, GoesIs DEF Quit
<1>3. Count(q) => /\ worker[q].at = "count" /\ worker'[q].at = "first" /\ Packet(q)' = Packet(q)
                  /\ Others(q) /\ worker' \in WorkerStates
  BY <1>1, GoesIs DEF Count
<1>4. LoadInit(q) => /\ worker[q].at = "first" /\ Packet(q)' = Packet(q) /\ Others(q)
                     /\ worker' \in WorkerStates /\ trk' = trk
                     /\ worker'[q].at = IF trk.init THEN "loadMax" ELSE "casFirst"
  BY <1>1, GoesIs DEF LoadInit
<1>5. MarkInit(q) => /\ worker[q].at = "mark" /\ worker'[q].at = "loadMax" /\ Packet(q)' = Packet(q)
                     /\ Others(q) /\ worker' \in WorkerStates
  BY <1>1, GoesIs DEF MarkInit
<1> QED
  BY <1>2, <1>3, <1>4, <1>5

\* The tracker after each store.
LEMMA StoresAre ==
  ASSUME QueueTypes
  PROVE  /\ \A n \in Values : trk' = [trk EXCEPT !.min = n] =>
              /\ trk' \in Trackers /\ trk'.min = n /\ trk'.max = trk.max /\ trk'.count = trk.count
              /\ trk'.init = trk.init
         /\ \A n \in Numbers : trk' = [trk EXCEPT !.max = n] =>
              /\ trk' \in Trackers /\ trk'.min = trk.min /\ trk'.max = n /\ trk'.count = trk.count
              /\ trk'.init = trk.init
         /\ \A n \in Nat : trk' = [trk EXCEPT !.count = n] =>
              /\ trk' \in Trackers /\ trk'.min = trk.min /\ trk'.max = trk.max /\ trk'.count = n
              /\ trk'.init = trk.init
         /\ \A b \in BOOLEAN : trk' = [trk EXCEPT !.init = b] =>
              /\ trk' \in Trackers /\ trk'.min = trk.min /\ trk'.max = trk.max /\ trk'.count = trk.count
              /\ trk'.init = b
BY DEF QueueTypes, Trackers

LEMMA CasFirstIs ==
  ASSUME QueueTypes, NEW q \in Queues, CasFirst(q)
  PROVE  /\ worker[q].at = "casFirst" /\ worker' \in WorkerStates /\ Packet(q)' = Packet(q) /\ Others(q)
         /\ trk' \in Trackers /\ trk'.max = trk.max /\ trk'.count = trk.count /\ trk'.init = trk.init
         /\ \/ trk.min = Top /\ trk'.min = Packet(q) /\ worker'[q].at = "mark"
            \/ trk.min # Top /\ trk'.min = trk.min /\ worker'[q].at = "loadMax"
<1>1. "mark" \in WorkerLabels /\ "loadMax" \in WorkerLabels /\ Packet(q) \in Values
  BY Fields, Bounds DEF WorkerLabels
<1>2. CASE trk.min = Top /\ trk' = [trk EXCEPT !.min = Packet(q)] /\ Goes(q, "mark")
  BY <1>1, <1>2, GoesIs, StoresAre DEF CasFirst
<1>3. CASE trk.min # Top /\ UNCHANGED trk /\ Goes(q, "loadMax")
  BY <1>1, <1>3, GoesIs DEF CasFirst, QueueTypes
<1> QED
  BY <1>2, <1>3 DEF CasFirst

LEMMA CasMaxIs ==
  ASSUME QueueTypes, NEW q \in Queues, CasMax(q)
  PROVE  /\ worker[q].at = "casMax" /\ worker' \in WorkerStates /\ Packet(q)' = Packet(q) /\ Others(q)
         /\ trk' \in Trackers /\ trk'.min = trk.min /\ trk'.count = trk.count /\ trk'.init = trk.init
         /\ \/ trk.max = worker[q].old /\ trk'.max = Packet(q) /\ worker'[q].at = "loadMin"
            \/ /\ trk'.max = trk.max
               /\ \/ worker'[q].at = "casMax" /\ worker'[q].old = trk.max /\ trk.max < Packet(q)
                  \/ worker'[q].at = "loadMin" /\ Packet(q) <= trk.max
<1>1. "loadMin" \in WorkerLabels /\ Packet(q) \in Numbers
  BY Fields DEF WorkerLabels
<1>2. CASE trk.max = worker[q].old /\ trk' = [trk EXCEPT !.max = Packet(q)] /\ Goes(q, "loadMin")
  BY <1>1, <1>2, GoesIs, StoresAre DEF CasMax
<1>3. CASE trk.max # worker[q].old /\ UNCHANGED trk /\ AfterMax(q, trk.max)
  BY <1>3, AfterMaxIs DEF CasMax, QueueTypes
<1> QED
  BY <1>2, <1>3 DEF CasMax

LEMMA CasMinIs ==
  ASSUME QueueTypes, NEW q \in Queues, CasMin(q)
  PROVE  /\ worker[q].at = "casMin" /\ worker' \in WorkerStates /\ Others(q)
         /\ trk' \in Trackers /\ trk'.max = trk.max /\ trk'.count = trk.count /\ trk'.init = trk.init
         /\ \/ trk.min = worker[q].old /\ trk'.min = Packet(q) /\ worker'[q].at = "poll"
            \/ /\ trk'.min = trk.min
               /\ \/ /\ worker'[q].at = "casMin" /\ worker'[q].old = trk.min /\ Packet(q) < trk.min
                     /\ Packet(q)' = Packet(q)
                  \/ worker'[q].at = "poll" /\ trk.min <= Packet(q)
<1>1. Packet(q) \in Values
  BY Fields, Bounds
<1>2. CASE trk.min = worker[q].old /\ trk' = [trk EXCEPT !.min = Packet(q)] /\ Through(q)
  BY <1>1, <1>2, ThroughIs, StoresAre DEF CasMin
<1>3. CASE trk.min # worker[q].old /\ UNCHANGED trk /\ AfterMin(q, trk.min)
  BY <1>3, AfterMinIs DEF CasMin, QueueTypes
<1> QED
  BY <1>2, <1>3 DEF CasMin

LEMMA IdleIs == Idle \in Mains /\ Idle.at = "idle" /\ Idle.sure = FALSE /\ Idle.most = 0
BY Bounds DEF Idle, Mains, MainLabels

LEMMA MainsAre ==
  ASSUME QueueTypes
  PROVE  /\ ResetMin => main' \in Mains /\ main'.at = "resetMax" /\ main'.sure = FALSE
         /\ ResetMax => main' \in Mains /\ main'.at = "resetCount" /\ main'.sure = main.sure
         /\ ResetCount => main' \in Mains /\ main'.at = "resetInit" /\ main'.sure = main.sure
         /\ ResetInit \/ PrintTable => main' \in Mains /\ main'.at = "idle" /\ main'.sure = FALSE
         /\ ReadInit => main' \in Mains /\ main'.at = "readMin" /\ main'.sure = Tracked
         /\ ReadMin => /\ main' \in Mains /\ main'.at = "readMax" /\ main'.sure = main.sure
                       /\ main'.min = trk.min
         /\ ReadMax => /\ main' \in Mains /\ main'.at = "readCount" /\ main'.sure = main.sure
                       /\ main'.min = main.min /\ main'.max = trk.max
<1>1. main \in Mains /\ trk.min \in Values /\ trk.max \in Numbers /\ Tracked \in BOOLEAN
  BY Fields DEF QueueTypes, Tracked
<1>2. ResetMin => main' \in Mains /\ main'.at = "resetMax" /\ main'.sure = FALSE
  BY IdleIs DEF ResetMin, Mains, MainLabels
<1>3. ResetMax => main' \in Mains /\ main'.at = "resetCount" /\ main'.sure = main.sure
  BY <1>1 DEF ResetMax, Mains, MainLabels
<1>4. ResetCount => main' \in Mains /\ main'.at = "resetInit" /\ main'.sure = main.sure
  BY <1>1 DEF ResetCount, Mains, MainLabels
<1>5. ResetInit \/ PrintTable => main' \in Mains /\ main'.at = "idle" /\ main'.sure = FALSE
  BY IdleIs DEF ResetInit, PrintTable
<1>6. ReadInit => main' \in Mains /\ main'.at = "readMin" /\ main'.sure = Tracked
  <2> DEFINE b == Tracked
  <2>1. ReadInit => main' = [Idle EXCEPT !.at = "readMin", !.sure = b]
    BY DEF ReadInit
  <2>2. b \in BOOLEAN
    BY <1>1
  <2> HIDE DEF b
  <2>3. ReadInit => main' \in Mains /\ main'.at = "readMin" /\ main'.sure = b
    BY IdleIs, <2>1, <2>2 DEF Mains, MainLabels
  <2> QED
    BY <2>3 DEF b
<1>7. ReadMin => /\ main' \in Mains /\ main'.at = "readMax" /\ main'.sure = main.sure
                 /\ main'.min = trk.min
  BY <1>1 DEF ReadMin, Mains, MainLabels
<1>8. ReadMax => /\ main' \in Mains /\ main'.at = "readCount" /\ main'.sure = main.sure
                 /\ main'.min = main.min /\ main'.max = trk.max
  BY <1>1 DEF ReadMax, Mains, MainLabels
<1> QED
  BY <1>2, <1>3, <1>4, <1>5, <1>6, <1>7, <1>8

LEMMA UncountedIs ==
  ASSUME QueueTypes, NEW n
  PROVE  n \in Uncounted <=> \E q \in Queues : n \in Owned(q)
<1> DEFINE Ringed == UNION {{ring[q][i] : i \in DOMAIN ring[q]} : q \in Queues}
           Held == {Packet(q) : q \in {r \in Queues : worker[r].at = "count"}}
<1>1. n \in Uncounted <=> n \in Ringed \/ n \in Held
  BY Zenon DEF Uncounted
<1>2. ASSUME NEW q \in Queues PROVE {ring[q][i] : i \in DOMAIN ring[q]} = Elements(ring[q])
  <2>1. DOMAIN ring[q] = 1 .. Len(ring[q])
    BY Fields, LenProperties
  <2> QED
    BY <2>1 DEF Elements
<1>3. n \in Ringed <=> \E q \in Queues : n \in Elements(ring[q])
  BY <1>2
<1>4. n \in Held <=> \E q \in Queues : n \in Hand(q)
  BY DEF Hand
<1>5. (\E q \in Queues : n \in Owned(q))
        <=> (\E q \in Queues : n \in Elements(ring[q])) \/ (\E q \in Queues : n \in Hand(q))
  BY Zenon DEF Owned
<1> HIDE DEF Ringed, Held
<1> QED
  BY <1>1, <1>3, <1>4, <1>5

LEMMA KnownIsFinite ==
  ASSUME QueueTypes
  PROVE  /\ IsFiniteSet(Known) /\ Known \subseteq Nat
         /\ \A S \in SUBSET Known : IsFiniteSet(S) /\ Cardinality(S) \in Nat
<1>1. number \in Nat /\ 0 \in Int /\ number - 1 \in Int
  BY Fields
<1>2. IsFiniteSet(Known) /\ Known \subseteq Nat
  BY <1>1, FS_Interval DEF Known
<1> QED
  BY <1>2, FS_Subset, FS_CardinalityType

LEMMA MissingIs ==
  ASSUME QueueTypes, PlaceInv
  PROVE  /\ Missing \subseteq Known /\ IsFiniteSet(Missing) /\ Cardinality(Missing) \in Nat
         /\ \A n \in Known : n \in counted \/ n \in Missing
         /\ Missing \cap counted = {}
<1>1. \A n : n \in Missing <=> n \in lost \/ n \in before \/ \E q \in Queues : n \in Owned(q)
  BY UncountedIs DEF Missing
<1>2. Missing \subseteq Known /\ Missing \cap counted = {}
  BY <1>1 DEF QueueTypes, PlaceInv
<1>3. \A n \in Known : n \in counted \/ n \in Missing
  BY <1>1 DEF PlaceInv
<1> QED
  BY <1>2, <1>3, KnownIsFinite

\* What is taken for lost is a number, and less than a round.
LEMMA LostOfIs ==
  ASSUME NEW min \in Values, NEW max \in Numbers, NEW count \in Nat
  PROVE  /\ LostOf(min, max, count) \in Nat /\ LostOf(min, max, count) <= Wrap
         /\ min <= max + 1 =>
              LostOf(min, max, count) = IF max - min + 1 > count THEN max - min + 1 - count ELSE 0
<1> DEFINE e == (max - min + 1) % Wrap
           d == max - min + 1
<1>1. d \in Int /\ Wrap \in Nat /\ Wrap > 0 /\ max < Wrap - 1
  BY Bounds
<1>2. e \in 0 .. Wrap - 1
  BY <1>1
<1>3. min <= max + 1 => e = d
  <2>1. min \in Nat /\ max \in Nat
    BY Bounds
  <2>2. min <= max + 1 => d \in Nat /\ d < Wrap
    BY <1>1, <2>1
  <2> HIDE DEF d
  <2>3. min <= max + 1 => d % Wrap = d
    BY <1>1, <2>2
  <2> QED
    BY <2>3 DEF d
<1>4. LostOf(min, max, count) = IF e > count THEN e - count ELSE 0
  BY DEF LostOf
<1> HIDE DEF e
<1>5. e \in Nat /\ e <= Wrap /\ min \in Nat /\ max \in Nat
  BY <1>1, <1>2, Bounds
<1>6. LostOf(min, max, count) \in Nat /\ LostOf(min, max, count) <= Wrap
  BY <1>1, <1>4, <1>5
<1> QED
  BY <1>3, <1>4, <1>5, <1>6

LEMMA ReadCountIs ==
  ASSUME QueueTypes, PlaceInv, ReadCount
  PROVE  /\ main.at = "readCount" /\ main' \in Mains /\ main'.at = "print" /\ main'.sure = FALSE
         /\ main'.lost = LostOf(main.min, main.max, trk.count)
         /\ main'.most = IF main.sure /\ ~cut THEN Cardinality(Missing) ELSE Wrap
<1> DEFINE l == LostOf(main.min, main.max, trk.count)
           m == IF main.sure /\ ~cut THEN Cardinality(Missing) ELSE Wrap
<1>1. l \in Nat /\ m \in Nat
  BY Fields, LostOfIs, MissingIs, Bounds
<1>2. main.at = "readCount" /\ main' = [Idle EXCEPT !.at = "print", !.lost = l, !.most = m]
  BY DEF ReadCount
<1> HIDE DEF l, m
<1>3. main' \in Mains /\ main'.at = "print" /\ main'.sure = FALSE /\ main'.lost = l /\ main'.most = m
  BY <1>1, <1>2, IdleIs DEF Mains, MainLabels
<1> QED
  BY <1>2, <1>3 DEF l, m

----------------------------------------------------------------------------
(* Each number is in one place.                                            *)

\* A worker that neither takes nor counts a packet, and a step of the main thread, leave
\* every number where it was.
LEMMA SamePlaces ==
  ASSUME UNCHANGED ring, \A q \in Queues : Hand(q)' = Hand(q)
  PROVE  /\ \A q \in Queues : Owned(q)' = Owned(q)
         /\ OwnInv => OwnInv'
BY DEF Owned, OwnInv

LEMMA SameHand ==
  ASSUME NEW q \in Queues, Others(q), worker[q].at # "count", worker'[q].at # "count"
  PROVE  \A r \in Queues : Hand(r)' = Hand(r)
BY DEF Others, Hand, Packet

LEMMA TakeKeeps ==
  ASSUME QueueTypes, OwnInv, NEW q \in Queues, Take(q)
  PROVE  OwnInv' /\ \A r \in Queues : Owned(r)' = Owned(r)
<1> DEFINE s == ring[q]
           n == Head(ring[q])
<1>1. /\ worker[q].at = "poll" /\ worker'[q].at = "count" /\ Packet(q)' = n /\ Others(q)
      /\ s # <<>> /\ ring'[q] = Tail(s) /\ \A r \in Queues \ {q} : ring'[r] = ring[r]
  BY TakeIs
<1>2. /\ Elements(s) = Elements(Tail(s)) \cup {n} /\ Once(Tail(s)) /\ n \notin Elements(Tail(s))
  BY <1>1, Fields, TailIs DEF OwnInv
<1>3. Hand(q) = {} /\ Hand(q)' = {n}
  BY <1>1 DEF Hand
<1>4. \A r \in Queues \ {q} : Hand(r)' = Hand(r)
  BY <1>1 DEF Others, Hand, Packet
<1> HIDE DEF n, s
<1>5. /\ ring'[q] = Tail(s) /\ Owned(q) = Elements(s) \cup Hand(q)
      /\ Owned(q)' = Elements(ring'[q]) \cup Hand(q)'
  BY <1>1 DEF Owned, s
<1>6. \A r \in Queues : Owned(r)' = Owned(r)
  <2>1. Owned(q)' = Owned(q)
    BY <1>2, <1>3, <1>5
  <2>2. ASSUME NEW r \in Queues \ {q} PROVE Owned(r)' = Owned(r)
    BY <1>1, <1>4 DEF Owned
  <2> QED
    BY <2>1, <2>2
<1>7. ASSUME NEW r \in Queues PROVE Once(ring'[r]) /\ Elements(ring'[r]) \cap Hand(r)' = {}
  <2>1. CASE r = q
    BY <2>1, <1>2, <1>3, <1>5
  <2>2. CASE r # q
    BY <2>2, <1>1, <1>4 DEF OwnInv
  <2> QED
    BY <2>1, <2>2
<1>8. \A r, u \in Queues : r # u => Owned(r)' \cap Owned(u)' = {}
  BY <1>6 DEF OwnInv
<1> QED
  BY <1>6, <1>7, <1>8 DEF OwnInv

LEMMA CountTakes ==
  ASSUME QueueTypes, OwnInv, NEW q \in Queues, Count(q)
  PROVE  /\ OwnInv' /\ Owned(q)' = Owned(q) \ {Packet(q)} /\ Packet(q) \in Owned(q)
         /\ \A r \in Queues \ {q} : Owned(r)' = Owned(r)
<1>1. /\ worker[q].at = "count" /\ worker'[q].at = "first" /\ Others(q) /\ ring' = ring
  BY StepsIn DEF Count, Undisturbed, pathVars
<1>2. Hand(q) = {Packet(q)} /\ Hand(q)' = {}
  BY <1>1 DEF Hand
<1>3. \A r \in Queues \ {q} : Hand(r)' = Hand(r)
  BY <1>1 DEF Others, Hand, Packet
<1>4. Packet(q) \notin Elements(ring[q])
  BY <1>2 DEF OwnInv
<1>5. Owned(q)' = Owned(q) \ {Packet(q)} /\ Packet(q) \in Owned(q)
  BY <1>1, <1>2, <1>4 DEF Owned
<1>6. \A r \in Queues \ {q} : Owned(r)' = Owned(r)
  BY <1>1, <1>3 DEF Owned
<1>7. \A r \in Queues : Owned(r)' \subseteq Owned(r) /\ Once(ring'[r]) /\ Elements(ring'[r]) \cap Hand(r)' = {}
  BY <1>1, <1>2, <1>3, <1>5, <1>6 DEF OwnInv
<1>8. \A r, u \in Queues : r # u => Owned(r)' \cap Owned(u)' = {}
  BY <1>7 DEF OwnInv
<1> QED
  BY <1>5, <1>6, <1>7, <1>8 DEF OwnInv

LEMMA ArriveAdds ==
  ASSUME QueueTypes, OwnInv, PlaceInv, NEW q \in Queues, Arrive(q)
  PROVE  /\ OwnInv' /\ Owned(q)' = Owned(q) \cup {number}
         /\ \A r \in Queues \ {q} : Owned(r)' = Owned(r)
<1>1. /\ ring'[q] = Append(ring[q], number) /\ \A r \in Queues \ {q} : ring'[r] = ring[r]
      /\ number \in Numbers /\ worker' = worker
  BY ArriveIs DEF Arrive
<1>2. \A r \in Queues : Hand(r)' = Hand(r)
  BY <1>1 DEF Hand, Packet
<1>3. number \notin Known
  BY Fields DEF Known
<1>4. \A r \in Queues : number \notin Owned(r)
  BY <1>3 DEF PlaceInv
<1>5. number \notin Elements(ring[q]) /\ number \notin Hand(q)
  BY <1>4 DEF Owned
<1>6. Elements(ring'[q]) = Elements(ring[q]) \cup {number} /\ Once(ring'[q])
  BY <1>1, <1>5, Fields, AppendIs DEF OwnInv
<1>7. Owned(q)' = Owned(q) \cup {number}
  BY <1>2, <1>6 DEF Owned
<1>8. \A r \in Queues \ {q} : Owned(r)' = Owned(r)
  BY <1>1, <1>2 DEF Owned
<1>9. ASSUME NEW r \in Queues PROVE Once(ring'[r]) /\ Elements(ring'[r]) \cap Hand(r)' = {}
  <2>1. CASE r = q
    BY <2>1, <1>2, <1>5, <1>6 DEF OwnInv
  <2>2. CASE r # q
    BY <2>2, <1>1, <1>2 DEF OwnInv
  <2> QED
    BY <2>1, <2>2
<1>10. ASSUME NEW r \in Queues, NEW u \in Queues, r # u PROVE Owned(r)' \cap Owned(u)' = {}
  <2>1. Owned(r) \cap Owned(u) = {} /\ number \notin Owned(r) /\ number \notin Owned(u)
    BY <1>4, <1>10 DEF OwnInv
  <2>2. /\ r = q => Owned(r)' = Owned(r) \cup {number}
        /\ r # q => Owned(r)' = Owned(r)
        /\ u = q => Owned(u)' = Owned(u) \cup {number}
        /\ u # q => Owned(u)' = Owned(u)
    BY <1>7, <1>8
  <2> QED
    BY <1>10, <2>1, <2>2
<1> QED
  BY <1>7, <1>8, <1>9, <1>10 DEF OwnInv

LEMMA OwnStep ==
  ASSUME QueueTypes, OwnInv, PlaceInv, QueuesNext
  PROVE  OwnInv'
<1>1. ASSUME NEW q \in Queues, Arrive(q) PROVE OwnInv'
  BY <1>1, ArriveAdds
<1>2. ASSUME NEW q \in Queues, Take(q) PROVE OwnInv'
  BY <1>2, TakeKeeps
<1>3. ASSUME NEW q \in Queues, Quit(q) PROVE OwnInv'
  <2>1. worker[q].at # "count" /\ worker'[q].at # "count" /\ Others(q) /\ ring' = ring
    BY <1>3, StepsIn DEF Quit, Undisturbed, pathVars
  <2> QED
    BY <2>1, SameHand, SamePlaces
<1>4. ASSUME NEW q \in Queues, Count(q) PROVE OwnInv'
  BY <1>4, CountTakes
<1>5. ASSUME NEW q \in Queues, LoadInit(q) PROVE OwnInv'
  <2>1. worker[q].at # "count" /\ worker'[q].at # "count" /\ Others(q) /\ ring' = ring
    BY <1>5, StepsIn DEF LoadInit, Undisturbed, pathVars
  <2> QED
    BY <2>1, SameHand, SamePlaces
<1>6. ASSUME NEW q \in Queues, CasFirst(q) PROVE OwnInv'
  <2>1. worker[q].at # "count" /\ worker'[q].at # "count" /\ Others(q) /\ ring' = ring
    BY <1>6, CasFirstIs DEF CasFirst, Undisturbed, pathVars
  <2> QED
    BY <2>1, SameHand, SamePlaces
<1>7. ASSUME NEW q \in Queues, MarkInit(q) PROVE OwnInv'
  <2>1. worker[q].at # "count" /\ worker'[q].at # "count" /\ Others(q) /\ ring' = ring
    BY <1>7, StepsIn DEF MarkInit, Undisturbed, pathVars
  <2> QED
    BY <2>1, SameHand, SamePlaces
<1>8. ASSUME NEW q \in Queues, LoadMax(q) PROVE OwnInv'
  <2>1. worker[q].at # "count" /\ worker'[q].at # "count" /\ Others(q) /\ ring' = ring
    BY <1>8, AfterMaxIs DEF LoadMax, Undisturbed, pathVars
  <2> QED
    BY <2>1, SameHand, SamePlaces
<1>9. ASSUME NEW q \in Queues, CasMax(q) PROVE OwnInv'
  <2>1. worker[q].at # "count" /\ worker'[q].at # "count" /\ Others(q) /\ ring' = ring
    BY <1>9, CasMaxIs DEF CasMax, Undisturbed, pathVars
  <2> QED
    BY <2>1, SameHand, SamePlaces
<1>10. ASSUME NEW q \in Queues, LoadMin(q) PROVE OwnInv'
  <2>1. worker[q].at # "count" /\ worker'[q].at # "count" /\ Others(q) /\ ring' = ring
    BY <1>10, AfterMinIs DEF LoadMin, Undisturbed, pathVars
  <2> QED
    BY <2>1, SameHand, SamePlaces
<1>11. ASSUME NEW q \in Queues, CasMin(q) PROVE OwnInv'
  <2>1. worker[q].at # "count" /\ worker'[q].at # "count" /\ Others(q) /\ ring' = ring
    BY <1>11, CasMinIs DEF CasMin, Undisturbed, pathVars
  <2> QED
    BY <2>1, SameHand, SamePlaces
<1>12. ASSUME Lose PROVE OwnInv'
  <2>1. worker' = worker /\ ring' = ring
    BY <1>12 DEF Lose, Between, pathVars
  <2> QED
    BY <2>1, SamePlaces DEF Hand, Packet
<1>13. ASSUME ResetMin PROVE OwnInv'
  <2>1. worker' = worker /\ ring' = ring
    BY <1>13 DEF ResetMin, Between, pathVars
  <2> QED
    BY <2>1, SamePlaces DEF Hand, Packet
<1>14. ASSUME ResetMax PROVE OwnInv'
  <2>1. worker' = worker /\ ring' = ring
    BY <1>14 DEF ResetMax, Between, pathVars
  <2> QED
    BY <2>1, SamePlaces DEF Hand, Packet
<1>15. ASSUME ResetCount PROVE OwnInv'
  <2>1. worker' = worker /\ ring' = ring
    BY <1>15 DEF ResetCount, Between, pathVars
  <2> QED
    BY <2>1, SamePlaces DEF Hand, Packet
<1>16. ASSUME ResetInit PROVE OwnInv'
  <2>1. worker' = worker /\ ring' = ring
    BY <1>16 DEF ResetInit, Between, pathVars
  <2> QED
    BY <2>1, SamePlaces DEF Hand, Packet
<1>17. ASSUME ReadInit PROVE OwnInv'
  <2>1. worker' = worker /\ ring' = ring
    BY <1>17 DEF ReadInit, Between, pathVars
  <2> QED
    BY <2>1, SamePlaces DEF Hand, Packet
<1>18. ASSUME ReadMin PROVE OwnInv'
  <2>1. worker' = worker /\ ring' = ring
    BY <1>18 DEF ReadMin, Between, pathVars
  <2> QED
    BY <2>1, SamePlaces DEF Hand, Packet
<1>19. ASSUME ReadMax PROVE OwnInv'
  <2>1. worker' = worker /\ ring' = ring
    BY <1>19 DEF ReadMax, Between, pathVars
  <2> QED
    BY <2>1, SamePlaces DEF Hand, Packet
<1>20. ASSUME ReadCount PROVE OwnInv'
  <2>1. worker' = worker /\ ring' = ring
    BY <1>20 DEF ReadCount, Between, pathVars
  <2> QED
    BY <2>1, SamePlaces DEF Hand, Packet
<1>21. ASSUME PrintTable PROVE OwnInv'
  <2>1. worker' = worker /\ ring' = ring
    BY <1>21 DEF PrintTable, Between, pathVars
  <2> QED
    BY <2>1, SamePlaces DEF Hand, Packet
<1>22. ASSUME Stop PROVE OwnInv'
  <2>1. worker' = worker /\ ring' = ring
    BY <1>22 DEF Stop, Between, pathVars
  <2> QED
    BY <2>1, SamePlaces DEF Hand, Packet
<1> QED
  BY <1>1, <1>2, <1>3, <1>4, <1>5, <1>6, <1>7, <1>8, <1>9, <1>10, <1>11, <1>12, <1>13, <1>14,
     <1>15, <1>16, <1>17, <1>18, <1>19, <1>20, <1>21, <1>22 DEF QueuesNext, WorkerStep, MainStep

LEMMA SamePlaced ==
  ASSUME PlaceInv, \A q \in Queues : Owned(q)' = Owned(q), UNCHANGED <<number, lost, counted, before>>
  PROVE  PlaceInv'
BY DEF PlaceInv, Known

\* The next number goes to one of the queues, or is lost.
LEMMA NewPlaced ==
  ASSUME QueueTypes, PlaceInv, number' = number + 1, UNCHANGED <<counted, before>>,
         \/ /\ lost' = lost \cup {number}
            /\ \A q \in Queues : Owned(q)' = Owned(q)
         \/ /\ lost' = lost
            /\ \E q \in Queues : /\ Owned(q)' = Owned(q) \cup {number}
                                 /\ \A r \in Queues \ {q} : Owned(r)' = Owned(r)
  PROVE  PlaceInv'
<1>1. Known' = Known \cup {number} /\ number \notin Known
  BY Fields DEF Known
<1>2. number \notin lost \cup before \cup counted
  BY <1>1 DEF QueueTypes
<1>3. \A q \in Queues : number \notin Owned(q)
  BY <1>1 DEF PlaceInv
<1>4. CASE lost' = lost \cup {number} /\ \A q \in Queues : Owned(q)' = Owned(q)
  BY <1>1, <1>2, <1>3, <1>4 DEF PlaceInv
<1>5. CASE /\ lost' = lost
           /\ \E q \in Queues : /\ Owned(q)' = Owned(q) \cup {number}
                                /\ \A r \in Queues \ {q} : Owned(r)' = Owned(r)
  <2>1. PICK q \in Queues : /\ Owned(q)' = Owned(q) \cup {number}
                            /\ \A r \in Queues \ {q} : Owned(r)' = Owned(r)
    BY <1>5
  <2>2. ASSUME NEW r \in Queues
        PROVE  Owned(r) \subseteq Owned(r)' /\ Owned(r)' \subseteq Owned(r) \cup {number}
    BY <2>1
  <2>3. \A r \in Queues : Owned(r)' \subseteq Known' /\ Owned(r)' \cap (lost' \cup before' \cup counted') = {}
    BY <1>1, <1>2, <1>5, <2>2 DEF PlaceInv
  <2>4. ASSUME NEW n \in Known' PROVE n \in lost' \cup before' \cup counted' \/ \E r \in Queues : n \in Owned(r)'
    <3>1. CASE n = number
      BY <2>1, <3>1
    <3>2. CASE n \in Known
      BY <1>5, <2>2, <3>2 DEF PlaceInv
    <3> QED
      BY <1>1, <3>1, <3>2
  <2> QED
    BY <1>5, <2>3, <2>4 DEF PlaceInv
<1> QED
  BY <1>4, <1>5

LEMMA PlaceStep ==
  ASSUME QueueTypes, OwnInv, PlaceInv, ResetInv, QueuesNext
  PROVE  PlaceInv'
<1>1. ASSUME NEW q \in Queues, Arrive(q) PROVE PlaceInv'
  <2>1. /\ Owned(q)' = Owned(q) \cup {number}
        /\ \A r \in Queues \ {q} : Owned(r)' = Owned(r)
    BY <1>1, ArriveAdds
  <2>2. number' = number + 1 /\ lost' = lost /\ UNCHANGED <<counted, before>>
    BY <1>1 DEF Arrive, queueHistory
  <2> QED
    BY <2>1, <2>2, NewPlaced
<1>2. ASSUME NEW q \in Queues, Take(q) PROVE PlaceInv'
  <2>1. UNCHANGED <<number, lost, counted, before>>
    BY <1>2 DEF Take, queueHistory
  <2> QED
    BY <1>2, <2>1, TakeKeeps, SamePlaced
<1>3. ASSUME NEW q \in Queues, Quit(q) PROVE PlaceInv'
  <2>1. worker[q].at # "count" /\ worker'[q].at # "count" /\ Others(q) /\ ring' = ring
    BY <1>3, StepsIn DEF Quit, Undisturbed, pathVars
  <2>2. \A r \in Queues : Owned(r)' = Owned(r)
    BY <2>1, SameHand, SamePlaces
  <2>3. UNCHANGED <<number, lost, counted, before>>
    BY <1>3 DEF Quit, Undisturbed, pathVars, queueHistory
  <2> QED
    BY <2>2, <2>3, SamePlaced
<1>4. ASSUME NEW q \in Queues, Count(q) PROVE PlaceInv'
  <2> DEFINE p == Packet(q)
  <2>1. /\ Owned(q)' = Owned(q) \ {p} /\ p \in Owned(q)
        /\ \A r \in Queues \ {q} : Owned(r)' = Owned(r)
    BY <1>4, CountTakes
  <2>2. UNCHANGED <<number, lost, before>> /\ counted' = counted \cup {p}
    BY <1>4 DEF Count, Undisturbed, pathVars
  <2> HIDE DEF p
  <2>3. Known' = Known /\ p \in Known /\ p \notin lost \cup before
    BY <2>1, <2>2 DEF PlaceInv, Known
  <2>4. ASSUME NEW r \in Queues PROVE Owned(r)' \subseteq Owned(r) \ {p} /\ Owned(r) \subseteq Owned(r)' \cup {p}
    <3>1. r # q => p \notin Owned(r)
      BY <2>1 DEF OwnInv
    <3> QED
      BY <2>1, <3>1
  <2>5. /\ lost' \cap before' = {} /\ lost' \cap counted' = {} /\ before' \cap counted' = {}
    BY <2>2, <2>3 DEF PlaceInv
  <2>6. ASSUME NEW r \in Queues
        PROVE  Owned(r)' \subseteq Known' /\ Owned(r)' \cap (lost' \cup before' \cup counted') = {}
    <3>1. Owned(r) \subseteq Known /\ Owned(r) \cap (lost \cup before \cup counted) = {}
      BY DEF PlaceInv
    <3> QED
      BY <2>2, <2>3, <2>4, <3>1
  <2>7. ASSUME NEW n \in Known' PROVE n \in lost' \cup before' \cup counted' \/ \E r \in Queues : n \in Owned(r)'
    <3>1. n \in lost \cup before \cup counted \/ \E r \in Queues : n \in Owned(r)
      BY <2>3 DEF PlaceInv
    <3> QED
      BY <2>2, <2>4, <3>1
  <2> QED
    BY <2>5, <2>6, <2>7 DEF PlaceInv
<1>5. ASSUME NEW q \in Queues, LoadInit(q) PROVE PlaceInv'
  <2>1. worker[q].at # "count" /\ worker'[q].at # "count" /\ Others(q) /\ ring' = ring
    BY <1>5, StepsIn DEF LoadInit, Undisturbed, pathVars
  <2>2. \A r \in Queues : Owned(r)' = Owned(r)
    BY <2>1, SameHand, SamePlaces
  <2>3. UNCHANGED <<number, lost, counted, before>>
    BY <1>5 DEF LoadInit, Undisturbed, pathVars, queueHistory
  <2> QED
    BY <2>2, <2>3, SamePlaced
<1>6. ASSUME NEW q \in Queues, CasFirst(q) PROVE PlaceInv'
  <2>1. worker[q].at # "count" /\ worker'[q].at # "count" /\ Others(q) /\ ring' = ring
    BY <1>6, CasFirstIs DEF CasFirst, Undisturbed, pathVars
  <2>2. \A r \in Queues : Owned(r)' = Owned(r)
    BY <2>1, SameHand, SamePlaces
  <2>3. UNCHANGED <<number, lost, counted, before>>
    BY <1>6 DEF CasFirst, Undisturbed, pathVars, queueHistory
  <2> QED
    BY <2>2, <2>3, SamePlaced
<1>7. ASSUME NEW q \in Queues, MarkInit(q) PROVE PlaceInv'
  <2>1. worker[q].at # "count" /\ worker'[q].at # "count" /\ Others(q) /\ ring' = ring
    BY <1>7, StepsIn DEF MarkInit, Undisturbed, pathVars
  <2>2. \A r \in Queues : Owned(r)' = Owned(r)
    BY <2>1, SameHand, SamePlaces
  <2>3. UNCHANGED <<number, lost, counted, before>>
    BY <1>7 DEF MarkInit, Undisturbed, pathVars, queueHistory
  <2> QED
    BY <2>2, <2>3, SamePlaced
<1>8. ASSUME NEW q \in Queues, LoadMax(q) PROVE PlaceInv'
  <2>1. worker[q].at # "count" /\ worker'[q].at # "count" /\ Others(q) /\ ring' = ring
    BY <1>8, AfterMaxIs DEF LoadMax, Undisturbed, pathVars
  <2>2. \A r \in Queues : Owned(r)' = Owned(r)
    BY <2>1, SameHand, SamePlaces
  <2>3. UNCHANGED <<number, lost, counted, before>>
    BY <1>8 DEF LoadMax, Undisturbed, pathVars, queueHistory
  <2> QED
    BY <2>2, <2>3, SamePlaced
<1>9. ASSUME NEW q \in Queues, CasMax(q) PROVE PlaceInv'
  <2>1. worker[q].at # "count" /\ worker'[q].at # "count" /\ Others(q) /\ ring' = ring
    BY <1>9, CasMaxIs DEF CasMax, Undisturbed, pathVars
  <2>2. \A r \in Queues : Owned(r)' = Owned(r)
    BY <2>1, SameHand, SamePlaces
  <2>3. UNCHANGED <<number, lost, counted, before>>
    BY <1>9 DEF CasMax, Undisturbed, pathVars, queueHistory
  <2> QED
    BY <2>2, <2>3, SamePlaced
<1>10. ASSUME NEW q \in Queues, LoadMin(q) PROVE PlaceInv'
  <2>1. worker[q].at # "count" /\ worker'[q].at # "count" /\ Others(q) /\ ring' = ring
    BY <1>10, AfterMinIs DEF LoadMin, Undisturbed, pathVars
  <2>2. \A r \in Queues : Owned(r)' = Owned(r)
    BY <2>1, SameHand, SamePlaces
  <2>3. UNCHANGED <<number, lost, counted, before>>
    BY <1>10 DEF LoadMin, Undisturbed, pathVars, queueHistory
  <2> QED
    BY <2>2, <2>3, SamePlaced
<1>11. ASSUME NEW q \in Queues, CasMin(q) PROVE PlaceInv'
  <2>1. worker[q].at # "count" /\ worker'[q].at # "count" /\ Others(q) /\ ring' = ring
    BY <1>11, CasMinIs DEF CasMin, Undisturbed, pathVars
  <2>2. \A r \in Queues : Owned(r)' = Owned(r)
    BY <2>1, SameHand, SamePlaces
  <2>3. UNCHANGED <<number, lost, counted, before>>
    BY <1>11 DEF CasMin, Undisturbed, pathVars, queueHistory
  <2> QED
    BY <2>2, <2>3, SamePlaced
<1>12. ASSUME Lose PROVE PlaceInv'
  <2>1. /\ ring' = ring /\ worker' = worker /\ number' = number + 1 /\ lost' = lost \cup {number}
        /\ UNCHANGED <<counted, before>>
    BY <1>12 DEF Lose, queueHistory
  <2>2. \A r \in Queues : Owned(r)' = Owned(r)
    BY <2>1, SamePlaces DEF Hand, Packet
  <2> QED
    BY <2>1, <2>2, NewPlaced
<1>13. ASSUME ResetMin PROVE PlaceInv'
  <2>1. ring' = ring /\ worker' = worker /\ UNCHANGED <<number, lost, counted, before>>
    BY <1>13 DEF ResetMin, Between, pathVars, queueHistory
  <2>2. \A r \in Queues : Owned(r)' = Owned(r)
    BY <2>1, SamePlaces DEF Hand, Packet
  <2> QED
    BY <2>1, <2>2, SamePlaced
<1>14. ASSUME ResetMax PROVE PlaceInv'
  <2>1. ring' = ring /\ worker' = worker /\ UNCHANGED <<number, lost, counted, before>>
    BY <1>14 DEF ResetMax, Between, pathVars, queueHistory
  <2>2. \A r \in Queues : Owned(r)' = Owned(r)
    BY <2>1, SamePlaces DEF Hand, Packet
  <2> QED
    BY <2>1, <2>2, SamePlaced
<1>15. ASSUME ResetCount PROVE PlaceInv'
  <2>1. /\ ring' = ring /\ worker' = worker /\ number' = number /\ lost' = lost
        /\ counted' = {} /\ before' = counted
    BY <1>15 DEF ResetCount, Between, pathVars
  <2>2. \A r \in Queues : Owned(r)' = Owned(r)
    BY <2>1, SamePlaces DEF Hand, Packet
  <2>3. before = {}
    BY <1>15 DEF ResetCount, ResetInv
  <2> QED
    BY <2>1, <2>2, <2>3 DEF PlaceInv, Known
<1>16. ASSUME ResetInit PROVE PlaceInv'
  <2>1. ring' = ring /\ worker' = worker /\ UNCHANGED <<number, lost, counted, before>>
    BY <1>16 DEF ResetInit, Between, pathVars, queueHistory
  <2>2. \A r \in Queues : Owned(r)' = Owned(r)
    BY <2>1, SamePlaces DEF Hand, Packet
  <2> QED
    BY <2>1, <2>2, SamePlaced
<1>17. ASSUME ReadInit PROVE PlaceInv'
  <2>1. ring' = ring /\ worker' = worker /\ UNCHANGED <<number, lost, counted, before>>
    BY <1>17 DEF ReadInit, Between, pathVars, queueHistory
  <2>2. \A r \in Queues : Owned(r)' = Owned(r)
    BY <2>1, SamePlaces DEF Hand, Packet
  <2> QED
    BY <2>1, <2>2, SamePlaced
<1>18. ASSUME ReadMin PROVE PlaceInv'
  <2>1. ring' = ring /\ worker' = worker /\ UNCHANGED <<number, lost, counted, before>>
    BY <1>18 DEF ReadMin, Between, pathVars, queueHistory
  <2>2. \A r \in Queues : Owned(r)' = Owned(r)
    BY <2>1, SamePlaces DEF Hand, Packet
  <2> QED
    BY <2>1, <2>2, SamePlaced
<1>19. ASSUME ReadMax PROVE PlaceInv'
  <2>1. ring' = ring /\ worker' = worker /\ UNCHANGED <<number, lost, counted, before>>
    BY <1>19 DEF ReadMax, Between, pathVars, queueHistory
  <2>2. \A r \in Queues : Owned(r)' = Owned(r)
    BY <2>1, SamePlaces DEF Hand, Packet
  <2> QED
    BY <2>1, <2>2, SamePlaced
<1>20. ASSUME ReadCount PROVE PlaceInv'
  <2>1. ring' = ring /\ worker' = worker /\ UNCHANGED <<number, lost, counted, before>>
    BY <1>20 DEF ReadCount, Between, pathVars, queueHistory
  <2>2. \A r \in Queues : Owned(r)' = Owned(r)
    BY <2>1, SamePlaces DEF Hand, Packet
  <2> QED
    BY <2>1, <2>2, SamePlaced
<1>21. ASSUME PrintTable PROVE PlaceInv'
  <2>1. ring' = ring /\ worker' = worker /\ UNCHANGED <<number, lost, counted, before>>
    BY <1>21 DEF PrintTable, Between, pathVars, queueHistory
  <2>2. \A r \in Queues : Owned(r)' = Owned(r)
    BY <2>1, SamePlaces DEF Hand, Packet
  <2> QED
    BY <2>1, <2>2, SamePlaced
<1>22. ASSUME Stop PROVE PlaceInv'
  <2>1. ring' = ring /\ worker' = worker /\ UNCHANGED <<number, lost, counted, before>>
    BY <1>22 DEF Stop, Between, pathVars, queueHistory
  <2>2. \A r \in Queues : Owned(r)' = Owned(r)
    BY <2>1, SamePlaces DEF Hand, Packet
  <2> QED
    BY <2>1, <2>2, SamePlaced
<1> QED
  BY <1>1, <1>2, <1>3, <1>4, <1>5, <1>6, <1>7, <1>8, <1>9, <1>10, <1>11, <1>12, <1>13, <1>14,
     <1>15, <1>16, <1>17, <1>18, <1>19, <1>20, <1>21, <1>22 DEF QueuesNext, WorkerStep, MainStep

\* The count of the tracker is the number of packets that were counted.

LEMMA CountStep ==
  ASSUME QueueTypes, OwnInv, PlaceInv, CountInv, QueuesNext
  PROVE  CountInv'
<1>1. ASSUME NEW q \in Queues, Arrive(q) PROVE CountInv'
  BY <1>1 DEF Arrive, CountInv, queueHistory
<1>2. ASSUME NEW q \in Queues, Take(q) PROVE CountInv'
  BY <1>2 DEF Take, CountInv, queueHistory
<1>3. ASSUME NEW q \in Queues, Quit(q) PROVE CountInv'
  BY <1>3, StepsIn DEF Quit, CountInv, Undisturbed, queueHistory
<1>4. ASSUME NEW q \in Queues, Count(q) PROVE CountInv'
  <2>1. trk'.count = trk.count + 1
    <3>1. trk.count + 1 \in Nat
      BY Fields
    <3> QED
      BY <1>4, <3>1, StoresAre DEF Count
  <2>2. counted' = counted \cup {Packet(q)} /\ Packet(q) \notin counted
    BY <1>4, CountTakes DEF Count, PlaceInv
  <2>3. IsFiniteSet(counted)
    BY KnownIsFinite DEF QueueTypes
  <2>4. Cardinality(counted \cup {Packet(q)}) = Cardinality(counted) + 1
    BY <2>2, <2>3, FS_AddElement
  <2> QED
    BY <2>1, <2>2, <2>4 DEF CountInv
<1>5. ASSUME NEW q \in Queues, LoadInit(q) PROVE CountInv'
  BY <1>5, StepsIn DEF LoadInit, CountInv, Undisturbed, queueHistory
<1>6. ASSUME NEW q \in Queues, CasFirst(q) PROVE CountInv'
  BY <1>6, CasFirstIs DEF CasFirst, CountInv, Undisturbed, queueHistory
<1>7. ASSUME NEW q \in Queues, MarkInit(q) PROVE CountInv'
  BY <1>7, StoresAre DEF MarkInit, CountInv, Undisturbed, queueHistory
<1>8. ASSUME NEW q \in Queues, LoadMax(q) PROVE CountInv'
  BY <1>8, AfterMaxIs DEF LoadMax, CountInv, Undisturbed, queueHistory
<1>9. ASSUME NEW q \in Queues, CasMax(q) PROVE CountInv'
  BY <1>9, CasMaxIs DEF CasMax, CountInv, Undisturbed, queueHistory
<1>10. ASSUME NEW q \in Queues, LoadMin(q) PROVE CountInv'
  BY <1>10, AfterMinIs DEF LoadMin, CountInv, Undisturbed, queueHistory
<1>11. ASSUME NEW q \in Queues, CasMin(q) PROVE CountInv'
  BY <1>11, CasMinIs DEF CasMin, CountInv, Undisturbed, queueHistory
<1>12. ASSUME Lose PROVE CountInv'
  BY <1>12 DEF Lose, CountInv, queueHistory
<1>13. ASSUME ResetMin PROVE CountInv'
  BY <1>13, StoresAre, Bounds DEF ResetMin, CountInv, queueHistory
<1>14. ASSUME ResetMax PROVE CountInv'
  BY <1>14, StoresAre, Bounds DEF ResetMax, CountInv, queueHistory
<1>15. ASSUME ResetCount PROVE CountInv'
  <2>1. trk'.count = 0 /\ counted' = {}
    BY <1>15, StoresAre DEF ResetCount
  <2> QED
    BY <2>1, FS_EmptySet DEF CountInv
<1>16. ASSUME ResetInit PROVE CountInv'
  BY <1>16, StoresAre DEF ResetInit, CountInv, queueHistory
<1>17. ASSUME ReadInit PROVE CountInv'
  BY <1>17 DEF ReadInit, CountInv, queueHistory
<1>18. ASSUME ReadMin PROVE CountInv'
  BY <1>18 DEF ReadMin, CountInv, queueHistory
<1>19. ASSUME ReadMax PROVE CountInv'
  BY <1>19 DEF ReadMax, CountInv, queueHistory
<1>20. ASSUME ReadCount PROVE CountInv'
  BY <1>20 DEF ReadCount, CountInv, queueHistory
<1>21. ASSUME PrintTable PROVE CountInv'
  BY <1>21 DEF PrintTable, CountInv, queueHistory
<1>22. ASSUME Stop PROVE CountInv'
  BY <1>22 DEF Stop, CountInv, queueHistory
<1> QED
  BY <1>1, <1>2, <1>3, <1>4, <1>5, <1>6, <1>7, <1>8, <1>9, <1>10, <1>11, <1>12, <1>13, <1>14,
     <1>15, <1>16, <1>17, <1>18, <1>19, <1>20, <1>21, <1>22 DEF QueuesNext, WorkerStep, MainStep

----------------------------------------------------------------------------
(* The tracker.                                                            *)

LEMMA TypesStep ==
  ASSUME QueueTypes, PlaceInv, CompareInv, QueuesNext
  PROVE  QueueTypes'
<1>0. /\ lost \subseteq Known /\ counted \subseteq Known /\ before \subseteq Known
      /\ wasReset \in BOOLEAN /\ stop \in BOOLEAN /\ cut \in BOOLEAN
      /\ number \in 0 .. MaxSeq + 1 /\ ring \in Rings /\ worker \in WorkerStates
      /\ trk \in Trackers /\ main \in Mains
  BY DEF QueueTypes
<1>1. ASSUME NEW q \in Queues, Arrive(q) PROVE QueueTypes'
  <2>1. ring' \in Rings /\ number' \in 0 .. MaxSeq + 1 /\ number' = number + 1
    BY <1>1, ArriveIs
  <2>2. UNCHANGED <<worker, trk, main, wasReset, stop, lost, counted, before, cut>>
    BY <1>1 DEF Arrive, mainVars, queueHistory
  <2>3. Known \subseteq Known'
    BY <2>1, Fields DEF Known
  <2> QED
    BY <1>0, <2>1, <2>2, <2>3 DEF QueueTypes
<1>2. ASSUME NEW q \in Queues, Take(q) PROVE QueueTypes'
  <2>1. worker' \in WorkerStates /\ ring' \in Rings
    BY <1>2, TakeIs
  <2>2. UNCHANGED <<number, trk, main, wasReset, stop, lost, counted, before, cut>>
    BY <1>2 DEF Take, mainVars, queueHistory
  <2> QED
    BY <1>0, <2>1, <2>2 DEF QueueTypes, Known
<1>3. ASSUME NEW q \in Queues, Quit(q) PROVE QueueTypes'
  <2>1. worker' \in WorkerStates /\ trk' \in Trackers
    BY <1>3, StepsIn, <1>0 DEF Quit
  <2>2. UNCHANGED <<number, ring, main, wasReset, stop, lost, counted, before, cut>>
    BY <1>3 DEF Quit, Undisturbed, pathVars, mainVars, queueHistory
  <2> QED
    BY <1>0, <2>1, <2>2 DEF QueueTypes, Known
<1>4. ASSUME NEW q \in Queues, Count(q) PROVE QueueTypes'
  <2>1. worker' \in WorkerStates /\ worker[q].at = "count"
    BY <1>4, StepsIn
  <2>2. trk' \in Trackers
    <3>1. trk.count + 1 \in Nat
      BY Fields
    <3> QED
      BY <1>4, <3>1, StoresAre DEF Count
  <2>3. UNCHANGED <<number, ring, main, wasReset, stop, lost, before>> /\ counted' = counted \cup {Packet(q)}
    BY <1>4 DEF Count, Undisturbed, pathVars, mainVars
  <2>4. cut' \in BOOLEAN
    BY <1>4, <1>0 DEF Count
  <2>5. Packet(q) \in Known
    <3>1. Packet(q) < number
      BY <2>1 DEF CompareInv
    <3>2. Packet(q) \in Nat /\ number \in Nat
      BY Fields, Bounds
    <3> QED
      BY <3>1, <3>2 DEF Known
  <2> QED
    BY <1>0, <2>1, <2>2, <2>3, <2>4, <2>5 DEF QueueTypes, Known
<1>5. ASSUME NEW q \in Queues, LoadInit(q) PROVE QueueTypes'
  <2>1. worker' \in WorkerStates /\ trk' \in Trackers
    BY <1>5, StepsIn, <1>0 DEF LoadInit
  <2>2. UNCHANGED <<number, ring, main, wasReset, stop, lost, counted, before, cut>>
    BY <1>5 DEF LoadInit, Undisturbed, pathVars, mainVars, queueHistory
  <2> QED
    BY <1>0, <2>1, <2>2 DEF QueueTypes, Known
<1>6. ASSUME NEW q \in Queues, CasFirst(q) PROVE QueueTypes'
  <2>1. worker' \in WorkerStates /\ trk' \in Trackers
    BY <1>6, CasFirstIs, <1>0 DEF CasFirst
  <2>2. UNCHANGED <<number, ring, main, wasReset, stop, lost, counted, before, cut>>
    BY <1>6 DEF CasFirst, Undisturbed, pathVars, mainVars, queueHistory
  <2> QED
    BY <1>0, <2>1, <2>2 DEF QueueTypes, Known
<1>7. ASSUME NEW q \in Queues, MarkInit(q) PROVE QueueTypes'
  <2>1. worker' \in WorkerStates /\ trk' \in Trackers
    BY <1>7, StepsIn, StoresAre, <1>0 DEF MarkInit
  <2>2. UNCHANGED <<number, ring, main, wasReset, stop, lost, counted, before, cut>>
    BY <1>7 DEF MarkInit, Undisturbed, pathVars, mainVars, queueHistory
  <2> QED
    BY <1>0, <2>1, <2>2 DEF QueueTypes, Known
<1>8. ASSUME NEW q \in Queues, LoadMax(q) PROVE QueueTypes'
  <2>1. worker' \in WorkerStates /\ trk' \in Trackers
    BY <1>8, AfterMaxIs, <1>0 DEF LoadMax
  <2>2. UNCHANGED <<number, ring, main, wasReset, stop, lost, counted, before, cut>>
    BY <1>8 DEF LoadMax, Undisturbed, pathVars, mainVars, queueHistory
  <2> QED
    BY <1>0, <2>1, <2>2 DEF QueueTypes, Known
<1>9. ASSUME NEW q \in Queues, CasMax(q) PROVE QueueTypes'
  <2>1. worker' \in WorkerStates /\ trk' \in Trackers
    BY <1>9, CasMaxIs, <1>0 DEF CasMax
  <2>2. UNCHANGED <<number, ring, main, wasReset, stop, lost, counted, before, cut>>
    BY <1>9 DEF CasMax, Undisturbed, pathVars, mainVars, queueHistory
  <2> QED
    BY <1>0, <2>1, <2>2 DEF QueueTypes, Known
<1>10. ASSUME NEW q \in Queues, LoadMin(q) PROVE QueueTypes'
  <2>1. worker' \in WorkerStates /\ trk' \in Trackers
    BY <1>10, AfterMinIs, <1>0 DEF LoadMin
  <2>2. UNCHANGED <<number, ring, main, wasReset, stop, lost, counted, before, cut>>
    BY <1>10 DEF LoadMin, Undisturbed, pathVars, mainVars, queueHistory
  <2> QED
    BY <1>0, <2>1, <2>2 DEF QueueTypes, Known
<1>11. ASSUME NEW q \in Queues, CasMin(q) PROVE QueueTypes'
  <2>1. worker' \in WorkerStates /\ trk' \in Trackers
    BY <1>11, CasMinIs, <1>0 DEF CasMin
  <2>2. UNCHANGED <<number, ring, main, wasReset, stop, lost, counted, before, cut>>
    BY <1>11 DEF CasMin, Undisturbed, pathVars, mainVars, queueHistory
  <2> QED
    BY <1>0, <2>1, <2>2 DEF QueueTypes, Known
<1>12. ASSUME Lose PROVE QueueTypes'
  <2>1. number \in Nat /\ number' = number + 1 /\ number' \in 0 .. MaxSeq + 1 /\ lost' = lost \cup {number}
    BY <1>12, Fields, Bounds DEF Lose
  <2>2. UNCHANGED <<ring, worker, trk, main, wasReset, stop, counted, before, cut>>
    BY <1>12 DEF Lose, mainVars, queueHistory
  <2>3. Known \subseteq Known' /\ number \in Known'
    BY <2>1 DEF Known
  <2> QED
    BY <1>0, <2>1, <2>2, <2>3 DEF QueueTypes
<1>13. ASSUME ResetMin PROVE QueueTypes'
  <2>1. main' \in Mains /\ trk' \in Trackers
    BY <1>13, <1>0, MainsAre, ReadCountIs, StoresAre, Bounds DEF ResetMin
  <2>2. UNCHANGED <<number, ring, worker, stop, lost, counted, before>> /\ wasReset' \in BOOLEAN /\ cut' \in BOOLEAN
    BY <1>13, <1>0 DEF ResetMin, Between, pathVars, queueHistory
  <2> QED
    BY <1>0, <2>1, <2>2 DEF QueueTypes, Known
<1>14. ASSUME ResetMax PROVE QueueTypes'
  <2>1. main' \in Mains /\ trk' \in Trackers
    BY <1>14, <1>0, MainsAre, ReadCountIs, StoresAre, Bounds DEF ResetMax
  <2>2. UNCHANGED <<number, ring, worker, stop, lost, counted, before>> /\ wasReset' \in BOOLEAN /\ cut' \in BOOLEAN
    BY <1>14, <1>0 DEF ResetMax, Between, pathVars, queueHistory
  <2> QED
    BY <1>0, <2>1, <2>2 DEF QueueTypes, Known
<1>15. ASSUME ResetCount PROVE QueueTypes'
  <2>1. main' \in Mains /\ trk' \in Trackers
    BY <1>15, MainsAre, StoresAre DEF ResetCount
  <2>2. UNCHANGED <<number, ring, worker, stop, lost, wasReset, cut>> /\ counted' = {} /\ before' = counted
    BY <1>15 DEF ResetCount, Between, pathVars
  <2> QED
    BY <1>0, <2>1, <2>2 DEF QueueTypes, Known
<1>16. ASSUME ResetInit PROVE QueueTypes'
  <2>1. main' \in Mains /\ trk' \in Trackers
    BY <1>16, <1>0, MainsAre, ReadCountIs, StoresAre, Bounds DEF ResetInit
  <2>2. UNCHANGED <<number, ring, worker, stop, lost, counted, before>> /\ wasReset' \in BOOLEAN /\ cut' \in BOOLEAN
    BY <1>16, <1>0 DEF ResetInit, Between, pathVars, queueHistory
  <2> QED
    BY <1>0, <2>1, <2>2 DEF QueueTypes, Known
<1>17. ASSUME ReadInit PROVE QueueTypes'
  <2>1. main' \in Mains /\ trk' \in Trackers
    BY <1>17, <1>0, MainsAre, ReadCountIs, StoresAre, Bounds DEF ReadInit
  <2>2. UNCHANGED <<number, ring, worker, stop, lost, counted, before>> /\ wasReset' \in BOOLEAN /\ cut' \in BOOLEAN
    BY <1>17, <1>0 DEF ReadInit, Between, pathVars, queueHistory
  <2> QED
    BY <1>0, <2>1, <2>2 DEF QueueTypes, Known
<1>18. ASSUME ReadMin PROVE QueueTypes'
  <2>1. main' \in Mains /\ trk' \in Trackers
    BY <1>18, <1>0, MainsAre, ReadCountIs, StoresAre, Bounds DEF ReadMin
  <2>2. UNCHANGED <<number, ring, worker, stop, lost, counted, before>> /\ wasReset' \in BOOLEAN /\ cut' \in BOOLEAN
    BY <1>18, <1>0 DEF ReadMin, Between, pathVars, queueHistory
  <2> QED
    BY <1>0, <2>1, <2>2 DEF QueueTypes, Known
<1>19. ASSUME ReadMax PROVE QueueTypes'
  <2>1. main' \in Mains /\ trk' \in Trackers
    BY <1>19, <1>0, MainsAre, ReadCountIs, StoresAre, Bounds DEF ReadMax
  <2>2. UNCHANGED <<number, ring, worker, stop, lost, counted, before>> /\ wasReset' \in BOOLEAN /\ cut' \in BOOLEAN
    BY <1>19, <1>0 DEF ReadMax, Between, pathVars, queueHistory
  <2> QED
    BY <1>0, <2>1, <2>2 DEF QueueTypes, Known
<1>20. ASSUME ReadCount PROVE QueueTypes'
  <2>1. main' \in Mains /\ trk' \in Trackers
    BY <1>20, <1>0, MainsAre, ReadCountIs, StoresAre, Bounds DEF ReadCount
  <2>2. UNCHANGED <<number, ring, worker, stop, lost, counted, before>> /\ wasReset' \in BOOLEAN /\ cut' \in BOOLEAN
    BY <1>20, <1>0 DEF ReadCount, Between, pathVars, queueHistory
  <2> QED
    BY <1>0, <2>1, <2>2 DEF QueueTypes, Known
<1>21. ASSUME PrintTable PROVE QueueTypes'
  <2>1. main' \in Mains /\ trk' \in Trackers
    BY <1>21, <1>0, MainsAre, ReadCountIs, StoresAre, Bounds DEF PrintTable
  <2>2. UNCHANGED <<number, ring, worker, stop, lost, counted, before>> /\ wasReset' \in BOOLEAN /\ cut' \in BOOLEAN
    BY <1>21, <1>0 DEF PrintTable, Between, pathVars, queueHistory
  <2> QED
    BY <1>0, <2>1, <2>2 DEF QueueTypes, Known
<1>22. ASSUME Stop PROVE QueueTypes'
  <2>1. UNCHANGED <<number, ring, worker, trk, main, wasReset, lost, counted, before, cut>> /\ stop' \in BOOLEAN
    BY <1>22 DEF Stop, pathVars, mainVars, queueHistory
  <2> QED
    BY <1>0, <2>1 DEF QueueTypes, Known
<1> QED
  BY <1>1, <1>2, <1>3, <1>4, <1>5, <1>6, <1>7, <1>8, <1>9, <1>10, <1>11, <1>12, <1>13, <1>14,
     <1>15, <1>16, <1>17, <1>18, <1>19, <1>20, <1>21, <1>22 DEF QueuesNext, WorkerStep, MainStep

\* A step of a worker that has no packet in its hands before and after.
LEMMA SameInHand ==
  ASSUME NEW q \in Queues, Others(q),
         worker[q].at \in {"poll", "count", "done"}, worker'[q].at \in {"poll", "count", "done"}
  PROVE  InHand' = InHand /\ \A r \in InHand : r # q
BY DEF Others, InHand

LEMMA ResetStep ==
  ASSUME QueueTypes, PlaceInv, ResetInv, QueuesNext
  PROVE  ResetInv'
<1>1. ASSUME NEW q \in Queues, Arrive(q) PROVE ResetInv'
  <2>1. UNCHANGED <<worker, trk, main, wasReset, counted, before, cut>>
    BY <1>1 DEF Arrive, mainVars, queueHistory
  <2> QED
    BY <2>1 DEF ResetInv, Resetting, InHand
<1>2. ASSUME NEW q \in Queues, Take(q) PROVE ResetInv'
  <2>1. UNCHANGED <<trk, main, wasReset, counted, before, cut>>
    BY <1>2 DEF Take, mainVars, queueHistory
  <2>2. InHand' = InHand
    BY <1>2, TakeIs, SameInHand
  <2> QED
    BY <2>1, <2>2 DEF ResetInv, Resetting
<1>3. ASSUME NEW q \in Queues, Quit(q) PROVE ResetInv'
  <2>1. UNCHANGED <<trk, main, wasReset, counted, before, cut>>
    BY <1>3 DEF Quit, mainVars, queueHistory, Undisturbed
  <2>2. InHand' = InHand
    BY <1>3, StepsIn, SameInHand
  <2> QED
    BY <2>1, <2>2 DEF ResetInv, Resetting
<1>4. ASSUME NEW q \in Queues, Count(q) PROVE ResetInv'
  <2>1. UNCHANGED <<main, wasReset, before>> /\ cut' = (cut \/ Resetting)
    BY <1>4 DEF Count, mainVars, Undisturbed
  <2>2. Resetting' = Resetting
    BY <2>1 DEF Resetting
  <2> QED
    BY <2>1, <2>2 DEF ResetInv
<1>5. ASSUME NEW q \in Queues, LoadInit(q) PROVE ResetInv'
  <2>1. q \in InHand /\ UNCHANGED <<main, wasReset, before, cut>>
    BY <1>5, StepsIn DEF LoadInit, InHand, Undisturbed, mainVars, queueHistory
  <2> QED
    BY <2>1 DEF ResetInv, Resetting
<1>6. ASSUME NEW q \in Queues, CasFirst(q) PROVE ResetInv'
  <2>1. q \in InHand /\ UNCHANGED <<main, wasReset, before, cut>>
    BY <1>6, CasFirstIs DEF CasFirst, InHand, Undisturbed, mainVars, queueHistory
  <2> QED
    BY <2>1 DEF ResetInv, Resetting
<1>7. ASSUME NEW q \in Queues, MarkInit(q) PROVE ResetInv'
  <2>1. q \in InHand /\ UNCHANGED <<main, wasReset, before, cut>>
    BY <1>7, StepsIn DEF MarkInit, InHand, Undisturbed, mainVars, queueHistory
  <2> QED
    BY <2>1 DEF ResetInv, Resetting
<1>8. ASSUME NEW q \in Queues, LoadMax(q) PROVE ResetInv'
  <2>1. q \in InHand /\ UNCHANGED <<main, wasReset, before, cut>>
    BY <1>8, AfterMaxIs DEF LoadMax, InHand, Undisturbed, mainVars, queueHistory
  <2> QED
    BY <2>1 DEF ResetInv, Resetting
<1>9. ASSUME NEW q \in Queues, CasMax(q) PROVE ResetInv'
  <2>1. q \in InHand /\ UNCHANGED <<main, wasReset, before, cut>>
    BY <1>9, CasMaxIs DEF CasMax, InHand, Undisturbed, mainVars, queueHistory
  <2> QED
    BY <2>1 DEF ResetInv, Resetting
<1>10. ASSUME NEW q \in Queues, LoadMin(q) PROVE ResetInv'
  <2>1. q \in InHand /\ UNCHANGED <<main, wasReset, before, cut>>
    BY <1>10, AfterMinIs DEF LoadMin, InHand, Undisturbed, mainVars, queueHistory
  <2> QED
    BY <2>1 DEF ResetInv, Resetting
<1>11. ASSUME NEW q \in Queues, CasMin(q) PROVE ResetInv'
  <2>1. q \in InHand /\ UNCHANGED <<main, wasReset, before, cut>>
    BY <1>11, CasMinIs DEF CasMin, InHand, Undisturbed, mainVars, queueHistory
  <2> QED
    BY <2>1 DEF ResetInv, Resetting
<1>12. ASSUME Lose PROVE ResetInv'
  <2>1. UNCHANGED <<worker, trk, main, wasReset, counted, before, cut>>
    BY <1>12 DEF Lose, mainVars, queueHistory
  <2> QED
    BY <2>1 DEF ResetInv, Resetting, InHand
<1>13. ASSUME ResetMin PROVE ResetInv'
  <2>1. /\ ~wasReset /\ wasReset' = TRUE /\ main'.at = "resetMax" /\ trk'.min = Top /\ UNCHANGED <<worker, before>>
        /\ cut' = (InHand # {})
    BY <1>13, MainsAre, StoresAre, Bounds DEF ResetMin, Between
  <2>2. InHand' = InHand /\ before = {}
    BY <2>1 DEF InHand, ResetInv
  <2> QED
    BY <2>1, <2>2 DEF ResetInv
<1>14. ASSUME ResetMax PROVE ResetInv'
  <2>1. /\ main.at = "resetMax" /\ main'.at = "resetCount" /\ trk'.min = trk.min /\ trk'.max = 0
        /\ UNCHANGED <<worker, wasReset, before, cut>>
    BY <1>14, MainsAre, StoresAre, Bounds DEF ResetMax, Between, queueHistory
  <2>2. InHand' = InHand /\ Resetting
    BY <2>1 DEF InHand, Resetting
  <2> QED
    BY <2>1, <2>2 DEF ResetInv
<1>15. ASSUME ResetCount PROVE ResetInv'
  <2>1. /\ main.at = "resetCount" /\ main'.at = "resetInit" /\ trk'.min = trk.min /\ trk'.max = trk.max
        /\ UNCHANGED <<worker, wasReset, cut>> /\ counted' = {}
    BY <1>15, MainsAre, StoresAre, Bounds DEF ResetCount, Between
  <2>2. InHand' = InHand /\ Resetting
    BY <2>1 DEF InHand, Resetting
  <2> QED
    BY <2>1, <2>2 DEF ResetInv
<1>16. ASSUME ResetInit PROVE ResetInv'
  <2>1. ~Resetting' /\ UNCHANGED <<wasReset, before, cut>>
    BY <1>16, MainsAre DEF ResetInit, Resetting, queueHistory
  <2>2. main'.at \notin {"resetMax", "resetCount"}
    BY <2>1 DEF Resetting
  <2>3. ~wasReset => before = {} /\ ~cut
    BY DEF ResetInv
  <2> QED
    BY <2>1, <2>2, <2>3 DEF ResetInv
<1>17. ASSUME ReadInit PROVE ResetInv'
  <2>1. ~Resetting' /\ UNCHANGED <<wasReset, before, cut>>
    BY <1>17, MainsAre DEF ReadInit, Resetting, queueHistory
  <2>2. main'.at \notin {"resetMax", "resetCount"}
    BY <2>1 DEF Resetting
  <2>3. ~wasReset => before = {} /\ ~cut
    BY DEF ResetInv
  <2> QED
    BY <2>1, <2>2, <2>3 DEF ResetInv
<1>18. ASSUME ReadMin PROVE ResetInv'
  <2>1. ~Resetting' /\ UNCHANGED <<wasReset, before, cut>>
    BY <1>18, MainsAre DEF ReadMin, Resetting, queueHistory
  <2>2. main'.at \notin {"resetMax", "resetCount"}
    BY <2>1 DEF Resetting
  <2>3. ~wasReset => before = {} /\ ~cut
    BY DEF ResetInv
  <2> QED
    BY <2>1, <2>2, <2>3 DEF ResetInv
<1>19. ASSUME ReadMax PROVE ResetInv'
  <2>1. ~Resetting' /\ UNCHANGED <<wasReset, before, cut>>
    BY <1>19, MainsAre DEF ReadMax, Resetting, queueHistory
  <2>2. main'.at \notin {"resetMax", "resetCount"}
    BY <2>1 DEF Resetting
  <2>3. ~wasReset => before = {} /\ ~cut
    BY DEF ResetInv
  <2> QED
    BY <2>1, <2>2, <2>3 DEF ResetInv
<1>20. ASSUME ReadCount PROVE ResetInv'
  <2>1. ~Resetting' /\ UNCHANGED <<wasReset, before, cut>>
    BY <1>20, ReadCountIs DEF ReadCount, Resetting, queueHistory
  <2>2. main'.at \notin {"resetMax", "resetCount"}
    BY <2>1 DEF Resetting
  <2>3. ~wasReset => before = {} /\ ~cut
    BY DEF ResetInv
  <2> QED
    BY <2>1, <2>2, <2>3 DEF ResetInv
<1>21. ASSUME PrintTable PROVE ResetInv'
  <2>1. ~Resetting' /\ UNCHANGED <<wasReset, before, cut>>
    BY <1>21, MainsAre DEF PrintTable, Resetting, queueHistory
  <2>2. main'.at \notin {"resetMax", "resetCount"}
    BY <2>1 DEF Resetting
  <2>3. ~wasReset => before = {} /\ ~cut
    BY DEF ResetInv
  <2> QED
    BY <2>1, <2>2, <2>3 DEF ResetInv
<1>22. ASSUME Stop PROVE ResetInv'
  <2>1. UNCHANGED <<worker, trk, main, wasReset, counted, before, cut>>
    BY <1>22 DEF Stop, mainVars, queueHistory
  <2> QED
    BY <2>1 DEF ResetInv, Resetting, InHand
<1> QED
  BY <1>1, <1>2, <1>3, <1>4, <1>5, <1>6, <1>7, <1>8, <1>9, <1>10, <1>11, <1>12, <1>13, <1>14,
     <1>15, <1>16, <1>17, <1>18, <1>19, <1>20, <1>21, <1>22 DEF QueuesNext, WorkerStep, MainStep

\* A worker's step: where it goes, and how its packet compares.

LEMMA CompareStep ==
  ASSUME QueueTypes, OwnInv, PlaceInv, CompareInv, QueuesNext
  PROVE  CompareInv'
<1> DEFINE Fine(q) == /\ worker[q].at \notin {"poll", "done"} => Packet(q) < number
                      /\ worker[q].at = "casMax" => worker[q].old < Packet(q)
                      /\ worker[q].at = "casMin" => Packet(q) < worker[q].old
<1>0. CompareInv <=> (\A q \in Queues : Fine(q)) /\ (trk.max = 0 \/ trk.max < number)
  BY DEF CompareInv
<1>a. CompareInv' <=> (\A q \in Queues : Fine(q)') /\ (trk'.max = 0 \/ trk'.max < number')
  BY DEF CompareInv
<1>b. ASSUME worker' = worker, trk'.max \in {0, trk.max}, number' \in {number, number + 1} PROVE CompareInv'
  <2>1. number \in Nat /\ trk.max \in Nat /\ \A q \in Queues : Packet(q) \in Nat
    BY Fields, Bounds
  <2>2. \A q \in Queues : Fine(q)'
    <3>1. number <= number'
      BY <1>b, <2>1
    <3> QED
      BY <1>0, <1>b, <2>1, <3>1 DEF Packet
  <2> QED
    BY <1>0, <1>a, <1>b, <2>1, <2>2
<1>c. ASSUME NEW q \in Queues, Others(q), number' = number, trk'.max = 0 \/ trk'.max < number, Fine(q)'
      PROVE  CompareInv'
  <2>1. \A r \in Queues \ {q} : Fine(r)'
    BY <1>0, <1>c DEF Others, Packet
  <2> QED
    BY <1>a, <1>c, <2>1
<1>1. ASSUME NEW q \in Queues, Arrive(q) PROVE CompareInv'
  <2>1. worker' = worker /\ trk' = trk /\ number' = number + 1
    BY <1>1 DEF Arrive
  <2> QED
    BY <1>b, <2>1
<1>2. ASSUME NEW q \in Queues, Take(q) PROVE CompareInv'
  <2>1. Others(q) /\ worker'[q].at = "count" /\ Packet(q)' \in Elements(ring[q])
    BY <1>2, TakeIs
  <2>2. trk' = trk /\ number' = number
    BY <1>2 DEF Take
  <2>3. Packet(q)' < number
    <3>1. Packet(q)' \in Owned(q)
      BY <2>1 DEF Owned
    <3>2. Packet(q)' \in Known /\ number \in Nat
      BY <3>1, Fields DEF PlaceInv
    <3> QED
      BY <3>2 DEF Known
  <2> QED
    BY <1>0, <1>c, <2>1, <2>2, <2>3
<1>3. ASSUME NEW q \in Queues, Quit(q) PROVE CompareInv'
  <2>1. Others(q) /\ worker'[q].at = "done" /\ trk' = trk /\ number' = number
    BY <1>3, StepsIn DEF Quit, Undisturbed, pathVars
  <2> QED
    BY <1>0, <1>c, <2>1
<1>4. ASSUME NEW q \in Queues, Count(q) PROVE CompareInv'
  <2>1. Others(q) /\ worker[q].at = "count" /\ worker'[q].at = "first" /\ Packet(q)' = Packet(q)
    BY <1>4, StepsIn
  <2>2. trk'.max = trk.max /\ number' = number
    <3>1. trk.count + 1 \in Nat
      BY Fields
    <3> QED
      BY <1>4, <3>1, StoresAre DEF Count, Undisturbed, pathVars
  <2> QED
    BY <1>0, <1>c, <2>1, <2>2
<1>5. ASSUME NEW q \in Queues, LoadInit(q) PROVE CompareInv'
  <2>1. Others(q) /\ worker[q].at = "first" /\ worker'[q].at \in {"loadMax", "casFirst"} /\ Packet(q)' = Packet(q)
        /\ trk' = trk /\ number' = number
    BY <1>5, StepsIn DEF LoadInit, Undisturbed, pathVars
  <2> QED
    BY <1>0, <1>c, <2>1
<1>6. ASSUME NEW q \in Queues, CasFirst(q) PROVE CompareInv'
  <2>1. Others(q) /\ worker[q].at = "casFirst" /\ worker'[q].at \in {"mark", "loadMax"} /\ Packet(q)' = Packet(q)
        /\ trk'.max = trk.max /\ number' = number
    BY <1>6, CasFirstIs DEF CasFirst, Undisturbed, pathVars
  <2> QED
    BY <1>0, <1>c, <2>1
<1>7. ASSUME NEW q \in Queues, MarkInit(q) PROVE CompareInv'
  <2>1. Others(q) /\ worker[q].at = "mark" /\ worker'[q].at = "loadMax" /\ Packet(q)' = Packet(q)
        /\ trk'.max = trk.max /\ number' = number
    BY <1>7, StepsIn, StoresAre DEF MarkInit, Undisturbed, pathVars
  <2> QED
    BY <1>0, <1>c, <2>1
<1>8. ASSUME NEW q \in Queues, LoadMax(q) PROVE CompareInv'
  <2>1. /\ Others(q) /\ worker[q].at = "loadMax" /\ Packet(q)' = Packet(q) /\ trk' = trk /\ number' = number
        /\ \/ worker'[q].at = "casMax" /\ worker'[q].old = trk.max /\ trk.max < Packet(q)
           \/ worker'[q].at = "loadMin"
    BY <1>8, AfterMaxIs DEF LoadMax, Undisturbed, pathVars
  <2> QED
    BY <1>0, <1>c, <2>1
<1>9. ASSUME NEW q \in Queues, CasMax(q) PROVE CompareInv'
  <2>1. /\ Others(q) /\ worker[q].at = "casMax" /\ Packet(q)' = Packet(q) /\ number' = number
        /\ \/ trk'.max = Packet(q) /\ worker'[q].at = "loadMin"
           \/ /\ trk'.max = trk.max
              /\ \/ worker'[q].at = "casMax" /\ worker'[q].old = trk.max /\ trk.max < Packet(q)
                 \/ worker'[q].at = "loadMin"
    BY <1>9, CasMaxIs DEF CasMax, Undisturbed, pathVars
  <2> QED
    BY <1>0, <1>c, <2>1
<1>10. ASSUME NEW q \in Queues, LoadMin(q) PROVE CompareInv'
  <2>1. /\ Others(q) /\ worker[q].at = "loadMin" /\ trk' = trk /\ number' = number
        /\ \/ /\ worker'[q].at = "casMin" /\ worker'[q].old = trk.min /\ Packet(q) < trk.min
              /\ Packet(q)' = Packet(q)
           \/ worker'[q].at = "poll"
    BY <1>10, AfterMinIs DEF LoadMin, Undisturbed, pathVars
  <2> QED
    BY <1>0, <1>c, <2>1
<1>11. ASSUME NEW q \in Queues, CasMin(q) PROVE CompareInv'
  <2>1. /\ Others(q) /\ worker[q].at = "casMin" /\ trk'.max = trk.max /\ number' = number
        /\ \/ /\ worker'[q].at = "casMin" /\ worker'[q].old = trk.min /\ Packet(q) < trk.min
              /\ Packet(q)' = Packet(q)
           \/ worker'[q].at = "poll"
    BY <1>11, CasMinIs DEF CasMin, Undisturbed, pathVars
  <2> QED
    BY <1>0, <1>c, <2>1
<1>12. ASSUME Lose PROVE CompareInv'
  <2>1. worker' = worker /\ trk' = trk /\ number' = number + 1
    BY <1>12 DEF Lose
  <2> QED
    BY <1>b, <2>1
<1>13. ASSUME ResetMin PROVE CompareInv'
  <2>1. worker' = worker /\ trk'.max \in {0, trk.max} /\ number' = number
    BY <1>13, StoresAre, Bounds DEF ResetMin, Between, pathVars
  <2> QED
    BY <1>b, <2>1
<1>14. ASSUME ResetMax PROVE CompareInv'
  <2>1. worker' = worker /\ trk'.max \in {0, trk.max} /\ number' = number
    BY <1>14, StoresAre, Bounds DEF ResetMax, Between, pathVars
  <2> QED
    BY <1>b, <2>1
<1>15. ASSUME ResetCount PROVE CompareInv'
  <2>1. worker' = worker /\ trk'.max \in {0, trk.max} /\ number' = number
    BY <1>15, StoresAre, Bounds DEF ResetCount, Between, pathVars
  <2> QED
    BY <1>b, <2>1
<1>16. ASSUME ResetInit PROVE CompareInv'
  <2>1. worker' = worker /\ trk'.max \in {0, trk.max} /\ number' = number
    BY <1>16, StoresAre, Bounds DEF ResetInit, Between, pathVars
  <2> QED
    BY <1>b, <2>1
<1>17. ASSUME ReadInit PROVE CompareInv'
  <2>1. worker' = worker /\ trk'.max \in {0, trk.max} /\ number' = number
    BY <1>17, StoresAre, Bounds DEF ReadInit, Between, pathVars
  <2> QED
    BY <1>b, <2>1
<1>18. ASSUME ReadMin PROVE CompareInv'
  <2>1. worker' = worker /\ trk'.max \in {0, trk.max} /\ number' = number
    BY <1>18, StoresAre, Bounds DEF ReadMin, Between, pathVars
  <2> QED
    BY <1>b, <2>1
<1>19. ASSUME ReadMax PROVE CompareInv'
  <2>1. worker' = worker /\ trk'.max \in {0, trk.max} /\ number' = number
    BY <1>19, StoresAre, Bounds DEF ReadMax, Between, pathVars
  <2> QED
    BY <1>b, <2>1
<1>20. ASSUME ReadCount PROVE CompareInv'
  <2>1. worker' = worker /\ trk'.max \in {0, trk.max} /\ number' = number
    BY <1>20, StoresAre, Bounds DEF ReadCount, Between, pathVars
  <2> QED
    BY <1>b, <2>1
<1>21. ASSUME PrintTable PROVE CompareInv'
  <2>1. worker' = worker /\ trk'.max \in {0, trk.max} /\ number' = number
    BY <1>21, StoresAre, Bounds DEF PrintTable, Between, pathVars
  <2> QED
    BY <1>b, <2>1
<1>22. ASSUME Stop PROVE CompareInv'
  <2>1. worker' = worker /\ trk' = trk /\ number' = number
    BY <1>22 DEF Stop, pathVars
  <2> QED
    BY <1>b, <2>1
<1> QED
  BY <1>1, <1>2, <1>3, <1>4, <1>5, <1>6, <1>7, <1>8, <1>9, <1>10, <1>11, <1>12, <1>13, <1>14,
     <1>15, <1>16, <1>17, <1>18, <1>19, <1>20, <1>21, <1>22 DEF QueuesNext, WorkerStep, MainStep

\* Nothing that matters to the tracker has changed.
LEMMA SameTrack ==
  ASSUME UNCHANGED <<trk, counted>>, NEW S \in SUBSET Queues, InHand \cap S = {}, InHand' \cap S = {},
         \A q \in Queues \ S : worker'[q] = worker[q]
  PROVE  (SeenInv => SeenInv') /\ (FirstInv => FirstInv')
<1>1. InHand' = InHand /\ \A q \in InHand : worker'[q] = worker[q]
  BY DEF InHand
<1>2. ASSUME NEW q \in Queues
      PROVE  /\ worker'[q].at \in SawFirst <=> worker[q].at \in SawFirst
             /\ worker'[q].at = "mark" <=> worker[q].at = "mark"
  <2>1. CASE q \in S
    BY <2>1 DEF InHand, SawFirst
  <2> QED
    BY <2>1
<1>3. SeenInv => SeenInv'
  BY <1>1 DEF SeenInv, Packet
<1> QED
  BY <1>2, <1>3 DEF FirstInv

\* A worker goes on with a packet that was counted: the minimum sinks at most to its number,
\* the maximum grows at most to it, and the worker is not through before they have.
LEMMA HandStep ==
  ASSUME QueueTypes, QueueTypes', NEW q \in Queues, Others(q), counted' = counted, q \in InHand,
         trk'.min <= trk.min, trk'.min \in {trk.min, Packet(q)},
         trk.max <= trk'.max, trk'.max \in {trk.max, Packet(q)},
         \/ q \in InHand' /\ Packet(q)' = Packet(q)
         \/ q \notin InHand' /\ trk'.min <= Packet(q),
         worker[q].at \in SeesMax => worker'[q].at \in SeesMax \/ Packet(q) <= trk'.max
  PROVE  SeenInv => SeenInv'
<1> SUFFICES ASSUME SeenInv PROVE SeenInv'
  OBVIOUS
<1>1. /\ trk.min \in Nat /\ trk.max \in Nat /\ trk'.min \in Nat /\ trk'.max \in Nat /\ Packet(q) \in Nat
      /\ \A n \in counted : n \in Nat
  <2>1. trk'.min \in Values /\ trk'.max \in Numbers
    BY DEF QueueTypes, Trackers
  <2>2. counted \subseteq Nat
    BY KnownIsFinite DEF QueueTypes
  <2> QED
    BY <2>1, <2>2, Fields, Bounds
<1>2. \A r \in Queues \ {q} : worker'[r] = worker[r] /\ (r \in InHand' <=> r \in InHand)
  BY DEF Others, InHand
<1>3. SeesMax \cap {"poll", "count", "done"} = {}
  BY DEF SeesMax
<1>4. (trk'.min = Top \/ trk'.min \in counted') /\ (trk'.max = 0 \/ trk'.max \in counted')
  BY DEF SeenInv
<1>5. \A r \in InHand' : worker'[r].seq \in counted'
  <2>1. \A r \in InHand' : worker'[r].seq = worker[r].seq /\ r \in InHand
    BY <1>2 DEF Packet, InHand
  <2> QED
    BY <2>1 DEF SeenInv, Packet
<1>6. ASSUME NEW n \in counted PROVE trk'.min <= n \/ \E r \in InHand' : worker'[r].seq = n
  <2>1. CASE trk.min <= n
    BY <1>1, <2>1
  <2>2. CASE \E r \in InHand : Packet(r) = n
    <3>1. PICK r \in InHand : Packet(r) = n
      BY <2>2
    <3>2. CASE r = q
      BY <3>1, <3>2 DEF Packet
    <3>3. CASE r # q
      BY <1>2, <3>1, <3>3 DEF Packet, InHand
    <3> QED
      BY <3>2, <3>3
  <2> QED
    BY <2>1, <2>2 DEF SeenInv
<1>7. ASSUME NEW n \in counted
      PROVE  n <= trk'.max \/ \E r \in InHand' : worker'[r].at \in SeesMax /\ worker'[r].seq = n
  <2>1. CASE n <= trk.max
    BY <1>1, <2>1
  <2>2. CASE \E r \in InHand : worker[r].at \in SeesMax /\ Packet(r) = n
    <3>1. PICK r \in InHand : worker[r].at \in SeesMax /\ Packet(r) = n
      BY <2>2
    <3>2. CASE r = q
      <4>1. CASE worker'[q].at \in SeesMax
        <5>1. q \in InHand'
          BY <1>3, <4>1 DEF InHand
        <5> QED
          BY <3>1, <3>2, <4>1, <5>1 DEF Packet
      <4>2. CASE Packet(q) <= trk'.max
        BY <3>1, <3>2, <4>2
      <4> QED
        BY <3>1, <3>2, <4>1, <4>2
    <3>3. CASE r # q
      BY <1>2, <3>1, <3>3 DEF Packet, InHand
    <3> QED
      BY <3>2, <3>3
  <2> QED
    BY <2>1, <2>2 DEF SeenInv
<1> QED
  BY <1>4, <1>5, <1>6, <1>7 DEF SeenInv, Packet

LEMMA TrackStep ==
  ASSUME QueueTypes, QueueTypes', PlaceInv, CompareInv, ResetInv, TrackInv, QueuesNext
  PROVE  TrackInv'
<1>1. ASSUME NEW q \in Queues, Arrive(q) PROVE TrackInv'
  <2>1. UNCHANGED <<worker, trk, counted, cut>> /\ Resetting' = Resetting
    BY <1>1 DEF Arrive, Resetting, mainVars, queueHistory, Between
  <2>2. InHand' = InHand
    BY <2>1 DEF InHand
  <2>3. (SeenInv => SeenInv') /\ (FirstInv => FirstInv')
    BY <2>1, <2>2 DEF SeenInv, FirstInv, Packet
  <2> QED
    BY <2>1, <2>3 DEF TrackInv
<1>2. ASSUME NEW q \in Queues, Take(q) PROVE TrackInv'
  <2>1. UNCHANGED <<main, trk, counted, cut>>
    BY <1>2 DEF Take, mainVars, queueHistory
  <2>2. worker[q].at = "poll" /\ worker'[q].at = "count" /\ \A r \in Queues \ {q} : worker'[r] = worker[r]
    BY <1>2, TakeIs DEF Others
  <2>3. InHand \cap {q} = {} /\ InHand' \cap {q} = {}
    BY <2>2 DEF InHand
  <2> QED
    BY <2>1, <2>2, <2>3, SameTrack DEF TrackInv, Resetting
<1>3. ASSUME NEW q \in Queues, Quit(q) PROVE TrackInv'
  <2>1. UNCHANGED <<main, trk, counted, cut>>
    BY <1>3 DEF Quit, mainVars, queueHistory, Undisturbed
  <2>2. worker[q].at = "poll" /\ worker'[q].at = "done" /\ \A r \in Queues \ {q} : worker'[r] = worker[r]
    BY <1>3, StepsIn DEF Others
  <2>3. InHand \cap {q} = {} /\ InHand' \cap {q} = {}
    BY <2>2 DEF InHand
  <2> QED
    BY <2>1, <2>2, <2>3, SameTrack DEF TrackInv, Resetting
<1>4. ASSUME NEW q \in Queues, Count(q) PROVE TrackInv'
  <2> DEFINE p == Packet(q)
  <2>1. /\ worker[q].at = "count" /\ worker'[q].at = "first" /\ worker'[q].seq = p
        /\ \A r \in Queues \ {q} : worker'[r] = worker[r]
    BY <1>4, StepsIn DEF Others, Packet
  <2>2. trk'.min = trk.min /\ trk'.max = trk.max /\ trk'.init = trk.init
    <3>1. trk.count + 1 \in Nat
      BY Fields
    <3> QED
      BY <1>4, <3>1, StoresAre DEF Count
  <2>3. main' = main /\ counted' = counted \cup {p} /\ cut' = (cut \/ Resetting)
    BY <1>4 DEF Count, Undisturbed, mainVars
  <2> HIDE DEF p
  <2>4. InHand' = InHand \cup {q} /\ \A r \in InHand : r # q
    BY <2>1 DEF InHand
  <2>5. SeenInv => SeenInv'
    <3> SUFFICES ASSUME SeenInv PROVE SeenInv'
      OBVIOUS
    <3>1. \A r \in InHand : worker'[r] = worker[r] /\ r \in InHand'
      BY <2>1, <2>4 DEF InHand
    <3>2. q \in InHand' /\ worker'[q].at \in SeesMax /\ worker'[q].seq = p
      BY <2>1, <2>4 DEF SeesMax
    <3>3. (trk'.min = Top \/ trk'.min \in counted') /\ (trk'.max = 0 \/ trk'.max \in counted')
      BY <2>2, <2>3 DEF SeenInv
    <3>4. \A r \in InHand' : worker'[r].seq \in counted'
      BY <2>3, <2>4, <3>1, <3>2 DEF SeenInv, Packet
    <3>5. ASSUME NEW n \in counted'
          PROVE  /\ trk'.min <= n \/ \E r \in InHand' : worker'[r].seq = n
                 /\ n <= trk'.max \/ \E r \in InHand' : worker'[r].at \in SeesMax /\ worker'[r].seq = n
      <4>1. CASE n = p
        BY <3>2, <4>1
      <4>2. CASE n \in counted
        <5>1. /\ trk.min <= n \/ \E r \in InHand : worker[r].seq = n
              /\ n <= trk.max \/ \E r \in InHand : worker[r].at \in SeesMax /\ worker[r].seq = n
          BY <4>2 DEF SeenInv, Packet
        <5> QED
          BY <2>2, <3>1, <5>1
      <4> QED
        BY <2>3, <4>1, <4>2
    <3> QED
      BY <3>3, <3>4, <3>5 DEF SeenInv, Packet
  <2>6. FirstInv => FirstInv'
    <3>1. \A r \in Queues : /\ worker'[r].at \in SawFirst <=> worker[r].at \in SawFirst
                            /\ worker'[r].at = "mark" <=> worker[r].at = "mark"
      BY <2>1 DEF SawFirst
    <3> QED
      BY <2>2, <3>1 DEF FirstInv
  <2> QED
    BY <2>3, <2>5, <2>6 DEF TrackInv, Resetting
<1>5. ASSUME NEW q \in Queues, LoadInit(q) PROVE TrackInv'
  <2>1. /\ worker[q].at = "first" /\ Packet(q)' = Packet(q) /\ Others(q) /\ trk' = trk
        /\ worker'[q].at = IF trk.init THEN "loadMax" ELSE "casFirst"
    BY <1>5, StepsIn DEF LoadInit
  <2>2. UNCHANGED <<main, cut, counted>> /\ q \in InHand
    BY <1>5, <2>1 DEF LoadInit, Undisturbed, mainVars, queueHistory, InHand
  <2>3. trk.min \in Nat /\ trk.max \in Nat /\ Packet(q) \in Nat /\ Packet(q) < Top
    BY Fields, Bounds
  <2>4. SeenInv => SeenInv'
    <3>1. /\ trk'.min <= trk.min /\ trk'.min \in {trk.min, Packet(q)}
          /\ trk.max <= trk'.max /\ trk'.max \in {trk.max, Packet(q)}
      BY <2>1, <2>3
    <3>2. \/ q \in InHand' /\ Packet(q)' = Packet(q)
          \/ q \notin InHand' /\ trk'.min <= Packet(q)
      BY <2>1, <2>3 DEF InHand
    <3>3. worker[q].at \in SeesMax => worker'[q].at \in SeesMax \/ Packet(q) <= trk'.max
      BY <2>1, <2>3 DEF SeesMax
    <3> QED
      BY <2>1, <2>2, <3>1, <3>2, <3>3, HandStep
  <2>5. FirstInv => FirstInv'
    <3>1. \A r \in Queues \ {q} : worker'[r] = worker[r]
      BY <2>1 DEF Others
    <3>2. worker'[q].at \in SawFirst => trk.init
      BY <2>1 DEF SawFirst
    <3>3. worker[q].at # "mark" /\ worker'[q].at # "mark"
      BY <2>1
    <3> QED
      BY <2>1, <3>1, <3>2, <3>3 DEF FirstInv
  <2> QED
    BY <2>2, <2>4, <2>5 DEF TrackInv, Resetting
<1>6. ASSUME NEW q \in Queues, CasFirst(q) PROVE TrackInv'
  <2>1. /\ worker[q].at = "casFirst" /\ Packet(q)' = Packet(q) /\ Others(q)
        /\ trk'.max = trk.max /\ trk'.init = trk.init
        /\ \/ trk.min = Top /\ trk'.min = Packet(q) /\ worker'[q].at = "mark"
           \/ trk.min # Top /\ trk'.min = trk.min /\ worker'[q].at = "loadMax"
    BY <1>6, CasFirstIs DEF CasFirst
  <2>2. UNCHANGED <<main, cut, counted>> /\ q \in InHand
    BY <1>6, <2>1 DEF CasFirst, Undisturbed, mainVars, queueHistory, InHand
  <2>3. trk.min \in Nat /\ trk.max \in Nat /\ Packet(q) \in Nat /\ Packet(q) < Top
    BY Fields, Bounds
  <2>4. SeenInv => SeenInv'
    <3>1. /\ trk'.min <= trk.min /\ trk'.min \in {trk.min, Packet(q)}
          /\ trk.max <= trk'.max /\ trk'.max \in {trk.max, Packet(q)}
      BY <2>1, <2>3
    <3>2. \/ q \in InHand' /\ Packet(q)' = Packet(q)
          \/ q \notin InHand' /\ trk'.min <= Packet(q)
      BY <2>1, <2>3 DEF InHand
    <3>3. worker[q].at \in SeesMax => worker'[q].at \in SeesMax \/ Packet(q) <= trk'.max
      BY <2>1, <2>3 DEF SeesMax
    <3> QED
      BY <2>1, <2>2, <3>1, <3>2, <3>3, HandStep
  <2>5. FirstInv => FirstInv'
    <3>1. \A r \in Queues \ {q} : worker'[r] = worker[r]
      BY <2>1 DEF Others
    <3>2. trk'.min # Top
      BY <2>1, <2>3
    <3>3. FirstInv => trk'.init \/ \E r \in Queues : worker'[r].at = "mark"
      BY <2>1, <3>1 DEF FirstInv
    <3> QED
      BY <3>2, <3>3 DEF FirstInv
  <2> QED
    BY <2>2, <2>4, <2>5 DEF TrackInv, Resetting
<1>7. ASSUME NEW q \in Queues, MarkInit(q) PROVE TrackInv'
  <2>1. /\ worker[q].at = "mark" /\ worker'[q].at = "loadMax" /\ Packet(q)' = Packet(q) /\ Others(q)
        /\ trk'.min = trk.min /\ trk'.max = trk.max /\ trk'.init = TRUE
    BY <1>7, StepsIn, StoresAre DEF MarkInit
  <2>2. UNCHANGED <<main, cut, counted>> /\ q \in InHand
    BY <1>7, <2>1 DEF MarkInit, Undisturbed, mainVars, queueHistory, InHand
  <2>3. trk.min \in Nat /\ trk.max \in Nat /\ Packet(q) \in Nat /\ Packet(q) < Top
    BY Fields, Bounds
  <2>4. SeenInv => SeenInv'
    <3>1. /\ trk'.min <= trk.min /\ trk'.min \in {trk.min, Packet(q)}
          /\ trk.max <= trk'.max /\ trk'.max \in {trk.max, Packet(q)}
      BY <2>1, <2>3
    <3>2. \/ q \in InHand' /\ Packet(q)' = Packet(q)
          \/ q \notin InHand' /\ trk'.min <= Packet(q)
      BY <2>1, <2>3 DEF InHand
    <3>3. worker[q].at \in SeesMax => worker'[q].at \in SeesMax \/ Packet(q) <= trk'.max
      BY <2>1, <2>3 DEF SeesMax
    <3> QED
      BY <2>1, <2>2, <3>1, <3>2, <3>3, HandStep
  <2>5. FirstInv => FirstInv'
    BY <2>1 DEF FirstInv, SawFirst
  <2> QED
    BY <2>2, <2>4, <2>5 DEF TrackInv, Resetting
<1>8. ASSUME NEW q \in Queues, LoadMax(q) PROVE TrackInv'
  <2>1. /\ worker[q].at = "loadMax" /\ Packet(q)' = Packet(q) /\ Others(q) /\ trk' = trk
        /\ \/ worker'[q].at = "casMax"
           \/ worker'[q].at = "loadMin" /\ Packet(q) <= trk.max
    BY <1>8, AfterMaxIs DEF LoadMax
  <2>2. UNCHANGED <<main, cut, counted>> /\ q \in InHand
    BY <1>8, <2>1 DEF LoadMax, Undisturbed, mainVars, queueHistory, InHand
  <2>3. trk.min \in Nat /\ trk.max \in Nat /\ Packet(q) \in Nat /\ Packet(q) < Top
    BY Fields, Bounds
  <2>4. SeenInv => SeenInv'
    <3>1. /\ trk'.min <= trk.min /\ trk'.min \in {trk.min, Packet(q)}
          /\ trk.max <= trk'.max /\ trk'.max \in {trk.max, Packet(q)}
      BY <2>1, <2>3
    <3>2. \/ q \in InHand' /\ Packet(q)' = Packet(q)
          \/ q \notin InHand' /\ trk'.min <= Packet(q)
      BY <2>1, <2>3 DEF InHand
    <3>3. worker[q].at \in SeesMax => worker'[q].at \in SeesMax \/ Packet(q) <= trk'.max
      BY <2>1, <2>3 DEF SeesMax
    <3> QED
      BY <2>1, <2>2, <3>1, <3>2, <3>3, HandStep
  <2>5. FirstInv => FirstInv'
    <3>1. \A r \in Queues \ {q} : worker'[r] = worker[r]
      BY <2>1 DEF Others
    <3>2. worker[q].at \in SawFirst \ {"mark"}
      BY <2>1 DEF SawFirst
    <3>3. FirstInv => trk'.min # Top
      BY <2>1, <2>3, <3>2 DEF FirstInv
    <3>4. FirstInv => trk'.init \/ \E r \in Queues : worker'[r].at = "mark"
      BY <2>1, <3>1, <3>2, <3>3 DEF FirstInv, SawFirst
    <3> QED
      BY <3>3, <3>4 DEF FirstInv
  <2> QED
    BY <2>2, <2>4, <2>5 DEF TrackInv, Resetting
<1>9. ASSUME NEW q \in Queues, CasMax(q) PROVE TrackInv'
  <2>1. /\ worker[q].at = "casMax" /\ Packet(q)' = Packet(q) /\ Others(q)
        /\ trk'.min = trk.min /\ trk'.init = trk.init
        /\ \/ trk.max = worker[q].old /\ trk'.max = Packet(q) /\ worker'[q].at = "loadMin"
           \/ /\ trk'.max = trk.max
              /\ \/ worker'[q].at = "casMax"
                 \/ worker'[q].at = "loadMin" /\ Packet(q) <= trk.max
    BY <1>9, CasMaxIs DEF CasMax
  <2>2. UNCHANGED <<main, cut, counted>> /\ q \in InHand
    BY <1>9, <2>1 DEF CasMax, Undisturbed, mainVars, queueHistory, InHand
  <2>3. trk.min \in Nat /\ trk.max \in Nat /\ Packet(q) \in Nat /\ Packet(q) < Top
    BY Fields, Bounds
  <2>4. trk.max <= trk'.max
    BY <2>1, <2>3 DEF CompareInv
  <2>5. SeenInv => SeenInv'
    <3>1. /\ trk'.min <= trk.min /\ trk'.min \in {trk.min, Packet(q)}
          /\ trk.max <= trk'.max /\ trk'.max \in {trk.max, Packet(q)}
      BY <2>1, <2>3, <2>4
    <3>2. \/ q \in InHand' /\ Packet(q)' = Packet(q)
          \/ q \notin InHand' /\ trk'.min <= Packet(q)
      BY <2>1, <2>3 DEF InHand
    <3>3. worker[q].at \in SeesMax => worker'[q].at \in SeesMax \/ Packet(q) <= trk'.max
      BY <2>1, <2>3 DEF SeesMax
    <3> QED
      BY <2>1, <2>2, <3>1, <3>2, <3>3, HandStep
  <2>6. FirstInv => FirstInv'
    <3>1. \A r \in Queues \ {q} : worker'[r] = worker[r]
      BY <2>1 DEF Others
    <3>2. worker[q].at \in SawFirst \ {"mark"}
      BY <2>1 DEF SawFirst
    <3>3. FirstInv => trk'.min # Top
      BY <2>1, <2>3, <3>2 DEF FirstInv
    <3>4. FirstInv => trk'.init \/ \E r \in Queues : worker'[r].at = "mark"
      BY <2>1, <3>1, <3>2, <3>3 DEF FirstInv, SawFirst
    <3> QED
      BY <3>3, <3>4 DEF FirstInv
  <2> QED
    BY <2>2, <2>5, <2>6 DEF TrackInv, Resetting
<1>10. ASSUME NEW q \in Queues, LoadMin(q) PROVE TrackInv'
  <2>1. /\ worker[q].at = "loadMin" /\ Others(q) /\ trk' = trk
        /\ \/ worker'[q].at = "casMin" /\ Packet(q)' = Packet(q)
           \/ worker'[q].at = "poll" /\ trk.min <= Packet(q)
    BY <1>10, AfterMinIs DEF LoadMin
  <2>2. UNCHANGED <<main, cut, counted>> /\ q \in InHand
    BY <1>10, <2>1 DEF LoadMin, Undisturbed, mainVars, queueHistory, InHand
  <2>3. trk.min \in Nat /\ trk.max \in Nat /\ Packet(q) \in Nat /\ Packet(q) < Top
    BY Fields, Bounds
  <2>4. SeenInv => SeenInv'
    <3>1. /\ trk'.min <= trk.min /\ trk'.min \in {trk.min, Packet(q)}
          /\ trk.max <= trk'.max /\ trk'.max \in {trk.max, Packet(q)}
      BY <2>1, <2>3
    <3>2. \/ q \in InHand' /\ Packet(q)' = Packet(q)
          \/ q \notin InHand' /\ trk'.min <= Packet(q)
      BY <2>1, <2>3 DEF InHand
    <3>3. worker[q].at \in SeesMax => worker'[q].at \in SeesMax \/ Packet(q) <= trk'.max
      BY <2>1, <2>3 DEF SeesMax
    <3> QED
      BY <2>1, <2>2, <3>1, <3>2, <3>3, HandStep
  <2>5. FirstInv => FirstInv'
    <3>1. \A r \in Queues \ {q} : worker'[r] = worker[r]
      BY <2>1 DEF Others
    <3>2. worker[q].at \in SawFirst \ {"mark"}
      BY <2>1 DEF SawFirst
    <3>3. FirstInv => trk'.min # Top
      BY <2>1, <2>3, <3>2 DEF FirstInv
    <3>4. FirstInv => trk'.init \/ \E r \in Queues : worker'[r].at = "mark"
      BY <2>1, <3>1, <3>2, <3>3 DEF FirstInv, SawFirst
    <3> QED
      BY <3>3, <3>4 DEF FirstInv
  <2> QED
    BY <2>2, <2>4, <2>5 DEF TrackInv, Resetting
<1>11. ASSUME NEW q \in Queues, CasMin(q) PROVE TrackInv'
  <2>1. /\ worker[q].at = "casMin" /\ Others(q) /\ trk'.max = trk.max /\ trk'.init = trk.init
        /\ \/ trk.min = worker[q].old /\ trk'.min = Packet(q) /\ worker'[q].at = "poll"
           \/ /\ trk'.min = trk.min
              /\ \/ worker'[q].at = "casMin" /\ Packet(q)' = Packet(q)
                 \/ worker'[q].at = "poll" /\ trk.min <= Packet(q)
    BY <1>11, CasMinIs DEF CasMin
  <2>2. UNCHANGED <<main, cut, counted>> /\ q \in InHand
    BY <1>11, <2>1 DEF CasMin, Undisturbed, mainVars, queueHistory, InHand
  <2>3. trk.min \in Nat /\ trk.max \in Nat /\ Packet(q) \in Nat /\ Packet(q) < Top
    BY Fields, Bounds
  <2>4. trk'.min <= trk.min
    BY <2>1, <2>3 DEF CompareInv
  <2>5. SeenInv => SeenInv'
    <3>1. /\ trk'.min <= trk.min /\ trk'.min \in {trk.min, Packet(q)}
          /\ trk.max <= trk'.max /\ trk'.max \in {trk.max, Packet(q)}
      BY <2>1, <2>3, <2>4
    <3>2. \/ q \in InHand' /\ Packet(q)' = Packet(q)
          \/ q \notin InHand' /\ trk'.min <= Packet(q)
      BY <2>1, <2>3 DEF InHand
    <3>3. worker[q].at \in SeesMax => worker'[q].at \in SeesMax \/ Packet(q) <= trk'.max
      BY <2>1, <2>3 DEF SeesMax
    <3> QED
      BY <2>1, <2>2, <3>1, <3>2, <3>3, HandStep
  <2>6. FirstInv => FirstInv'
    <3>1. \A r \in Queues \ {q} : worker'[r] = worker[r]
      BY <2>1 DEF Others
    <3>2. worker[q].at \in SawFirst \ {"mark"}
      BY <2>1 DEF SawFirst
    <3>3. FirstInv => trk'.min # Top
      BY <2>1, <2>3, <3>2 DEF FirstInv
    <3>4. FirstInv => trk'.init \/ \E r \in Queues : worker'[r].at = "mark"
      BY <2>1, <3>1, <3>2, <3>3 DEF FirstInv, SawFirst
    <3> QED
      BY <3>3, <3>4 DEF FirstInv
  <2> QED
    BY <2>2, <2>5, <2>6 DEF TrackInv, Resetting
<1>12. ASSUME Lose PROVE TrackInv'
  <2>1. UNCHANGED <<worker, trk, counted, cut>> /\ Resetting' = Resetting
    BY <1>12 DEF Lose, Resetting, mainVars, queueHistory, Between
  <2>2. InHand' = InHand
    BY <2>1 DEF InHand
  <2>3. (SeenInv => SeenInv') /\ (FirstInv => FirstInv')
    BY <2>1, <2>2 DEF SeenInv, FirstInv, Packet
  <2> QED
    BY <2>1, <2>3 DEF TrackInv
<1>13. ASSUME ResetMin PROVE TrackInv'
  <2>1. Resetting'
    BY <1>13, MainsAre DEF Resetting
  <2> QED
    BY <2>1 DEF TrackInv
<1>14. ASSUME ResetMax PROVE TrackInv'
  <2>1. Resetting'
    BY <1>14, MainsAre DEF Resetting
  <2> QED
    BY <2>1 DEF TrackInv
<1>15. ASSUME ResetCount PROVE TrackInv'
  <2>1. Resetting'
    BY <1>15, MainsAre DEF Resetting
  <2> QED
    BY <2>1 DEF TrackInv
<1>16. ASSUME ResetInit PROVE TrackInv'
  <2>1. /\ main.at = "resetInit" /\ trk'.min = trk.min /\ trk'.max = trk.max /\ trk'.init = FALSE
        /\ UNCHANGED <<worker, counted, cut>>
    BY <1>16, StoresAre DEF ResetInit, Between, queueHistory
  <2> SUFFICES ASSUME ~cut PROVE SeenInv' /\ FirstInv'
    BY <2>1 DEF TrackInv
  <2>2. InHand = {} /\ trk.min = Top /\ trk.max = 0 /\ counted = {}
    BY <2>1 DEF ResetInv, Resetting
  <2>3. InHand' = {} /\ trk'.min = Top /\ trk'.max = 0 /\ counted' = {}
    BY <2>1, <2>2 DEF InHand
  <2>4. \A r \in Queues : worker'[r].at \in {"poll", "count", "done"}
    BY <2>3 DEF InHand
  <2> QED
    BY <2>1, <2>3, <2>4 DEF SeenInv, FirstInv, SawFirst
<1>17. ASSUME ReadInit PROVE TrackInv'
  <2>1. UNCHANGED <<worker, trk, counted, cut>> /\ Resetting' = Resetting
    BY <1>17, MainsAre DEF ReadInit, Resetting, mainVars, queueHistory, Between
  <2>2. InHand' = InHand
    BY <2>1 DEF InHand
  <2>3. (SeenInv => SeenInv') /\ (FirstInv => FirstInv')
    BY <2>1, <2>2 DEF SeenInv, FirstInv, Packet
  <2> QED
    BY <2>1, <2>3 DEF TrackInv
<1>18. ASSUME ReadMin PROVE TrackInv'
  <2>1. UNCHANGED <<worker, trk, counted, cut>> /\ Resetting' = Resetting
    BY <1>18, MainsAre DEF ReadMin, Resetting, mainVars, queueHistory, Between
  <2>2. InHand' = InHand
    BY <2>1 DEF InHand
  <2>3. (SeenInv => SeenInv') /\ (FirstInv => FirstInv')
    BY <2>1, <2>2 DEF SeenInv, FirstInv, Packet
  <2> QED
    BY <2>1, <2>3 DEF TrackInv
<1>19. ASSUME ReadMax PROVE TrackInv'
  <2>1. UNCHANGED <<worker, trk, counted, cut>> /\ Resetting' = Resetting
    BY <1>19, MainsAre DEF ReadMax, Resetting, mainVars, queueHistory, Between
  <2>2. InHand' = InHand
    BY <2>1 DEF InHand
  <2>3. (SeenInv => SeenInv') /\ (FirstInv => FirstInv')
    BY <2>1, <2>2 DEF SeenInv, FirstInv, Packet
  <2> QED
    BY <2>1, <2>3 DEF TrackInv
<1>20. ASSUME ReadCount PROVE TrackInv'
  <2>1. UNCHANGED <<worker, trk, counted, cut>> /\ Resetting' = Resetting
    BY <1>20, ReadCountIs DEF ReadCount, Resetting, mainVars, queueHistory, Between
  <2>2. InHand' = InHand
    BY <2>1 DEF InHand
  <2>3. (SeenInv => SeenInv') /\ (FirstInv => FirstInv')
    BY <2>1, <2>2 DEF SeenInv, FirstInv, Packet
  <2> QED
    BY <2>1, <2>3 DEF TrackInv
<1>21. ASSUME PrintTable PROVE TrackInv'
  <2>1. UNCHANGED <<worker, trk, counted, cut>> /\ Resetting' = Resetting
    BY <1>21, MainsAre DEF PrintTable, Resetting, mainVars, queueHistory, Between
  <2>2. InHand' = InHand
    BY <2>1 DEF InHand
  <2>3. (SeenInv => SeenInv') /\ (FirstInv => FirstInv')
    BY <2>1, <2>2 DEF SeenInv, FirstInv, Packet
  <2> QED
    BY <2>1, <2>3 DEF TrackInv
<1>22. ASSUME Stop PROVE TrackInv'
  <2>1. UNCHANGED <<worker, trk, counted, cut>> /\ Resetting' = Resetting
    BY <1>22 DEF Stop, Resetting, mainVars, queueHistory, Between
  <2>2. InHand' = InHand
    BY <2>1 DEF InHand
  <2>3. (SeenInv => SeenInv') /\ (FirstInv => FirstInv')
    BY <2>1, <2>2 DEF SeenInv, FirstInv, Packet
  <2> QED
    BY <2>1, <2>3 DEF TrackInv
<1> QED
  BY <1>1, <1>2, <1>3, <1>4, <1>5, <1>6, <1>7, <1>8, <1>9, <1>10, <1>11, <1>12, <1>13, <1>14,
     <1>15, <1>16, <1>17, <1>18, <1>19, <1>20, <1>21, <1>22 DEF QueuesNext, WorkerStep, MainStep

----------------------------------------------------------------------------
(* What the main thread reads.                                             *)

\* Between two resets the minimum only sinks and the maximum only grows.
LEMMA WorkersWiden ==
  ASSUME QueueTypes, CompareInv, NEW q \in Queues, WorkerStep(q)
  PROVE  trk'.min <= trk.min /\ trk.max <= trk'.max /\ main' = main
<1>1. /\ trk.min \in Nat /\ trk.max \in Nat /\ trk.count + 1 \in Nat
      /\ Packet(q) \in Nat /\ Packet(q) < Top
  <2>1. trk.min \in Nat /\ trk.max \in Nat /\ Packet(q) \in Nat /\ Packet(q) < Top
    BY Fields, Bounds
  <2>2. trk.count + 1 \in Nat
    BY Fields
  <2> QED
    BY <2>1, <2>2
<1>2. CASE Take(q)
  BY <1>1, <1>2 DEF Take, mainVars
<1>3. CASE Quit(q)
  BY <1>1, <1>3 DEF Quit, Undisturbed, mainVars
<1>4. CASE Count(q)
  <2>1. trk'.min = trk.min /\ trk'.max = trk.max
    BY <1>1, <1>4, StoresAre DEF Count
  <2> QED
    BY <1>1, <1>4, <2>1 DEF Count, Undisturbed, mainVars
<1>5. CASE LoadInit(q)
  BY <1>1, <1>5 DEF LoadInit, Undisturbed, mainVars
<1>6. CASE CasFirst(q)
  <2>1. trk'.min = trk.min \/ (trk.min = Top /\ trk'.min = Packet(q))
    BY <1>6, CasFirstIs
  <2> QED
    BY <1>1, <1>6, <2>1, CasFirstIs DEF CasFirst, Undisturbed, mainVars
<1>7. CASE MarkInit(q)
  <2>1. trk'.min = trk.min /\ trk'.max = trk.max
    BY <1>7, StoresAre DEF MarkInit
  <2> QED
    BY <1>1, <1>7, <2>1 DEF MarkInit, Undisturbed, mainVars
<1>8. CASE LoadMax(q)
  BY <1>1, <1>8 DEF LoadMax, Undisturbed, mainVars
<1>9. CASE CasMax(q)
  <2>1. /\ worker[q].at = "casMax" /\ trk'.min = trk.min
        /\ trk'.max = trk.max \/ (trk.max = worker[q].old /\ trk'.max = Packet(q))
    BY <1>9, CasMaxIs
  <2>2. trk.max <= trk'.max
    BY <1>1, <2>1 DEF CompareInv
  <2> QED
    BY <1>1, <1>9, <2>1, <2>2 DEF CasMax, Undisturbed, mainVars
<1>10. CASE LoadMin(q)
  BY <1>1, <1>10 DEF LoadMin, Undisturbed, mainVars
<1>11. CASE CasMin(q)
  <2>1. /\ worker[q].at = "casMin" /\ trk'.max = trk.max
        /\ trk'.min = trk.min \/ (trk.min = worker[q].old /\ trk'.min = Packet(q))
    BY <1>11, CasMinIs
  <2>2. trk'.min <= trk.min
    BY <1>1, <2>1 DEF CompareInv
  <2> QED
    BY <1>1, <1>11, <2>1, <2>2 DEF CasMin, Undisturbed, mainVars
<1> QED
  BY <1>2, <1>3, <1>4, <1>5, <1>6, <1>7, <1>8, <1>9, <1>10, <1>11 DEF WorkerStep

\* When a packet is through, the minimum is not above the maximum.
LEMMA TrackedIs ==
  ASSUME QueueTypes, TrackInv, Tracked
  PROVE  number >= 1 /\ (~Resetting /\ ~cut => trk.min <= trk.max)
<1>1. PICK n \in counted : \A q \in InHand : Packet(q) # n
  BY DEF Tracked
<1>2. n \in Nat /\ n < number /\ number \in Nat /\ trk.min \in Nat /\ trk.max \in Nat
  <2>1. n \in 0 .. number - 1
    BY DEF QueueTypes, Known
  <2>2. number \in Nat /\ trk.min \in Nat /\ trk.max \in Nat
    BY Fields, Bounds
  <2> QED
    BY <2>1, <2>2
<1>3. ~Resetting /\ ~cut => trk.min <= n /\ n <= trk.max
  BY <1>1 DEF TrackInv, SeenInv
<1> QED
  BY <1>2, <1>3


LEMMA ReadStep ==
  ASSUME QueueTypes, QueueTypes', PlaceInv, CompareInv, TrackInv, ReadInv, QueuesNext
  PROVE  ReadInv'
<1>0. /\ trk.min \in Nat /\ trk.max \in Nat /\ main.min \in Nat /\ main.max \in Nat /\ number \in Nat
      /\ trk'.min \in Nat /\ trk'.max \in Nat /\ number' \in Nat
  <2>1. trk'.min \in Values /\ trk'.max \in Numbers /\ number' \in 0 .. MaxSeq + 1
    BY DEF QueueTypes, Trackers
  <2>2. /\ trk.min \in Values /\ trk.max \in Numbers /\ main.min \in Values
        /\ main.max \in Numbers /\ number \in Nat
    BY Fields
  <2>3. number' \in Nat
    BY <2>1, Bounds
  <2> QED
    BY <2>1, <2>2, <2>3, Bounds
<1>a. ASSUME main' = main, cut => cut', trk'.min <= trk.min, trk.max <= trk'.max, number <= number'
      PROVE  ReadInv'
  <2>1. /\ main.at = "readMin" /\ trk.min <= trk.max => trk'.min <= trk'.max
        /\ main.at = "readMax" /\ main.min <= trk.max => main.min <= trk'.max
        /\ number >= 1 => number' >= 1
        /\ main.max < number => main.max < number'
    BY <1>0, <1>a
  <2>2. ~cut' => ~cut
    BY <1>a
  <2> QED
    BY <1>a, <2>1, <2>2 DEF ReadInv
<1>b. ASSUME NEW q \in Queues, WorkerStep(q), number' = number, cut => cut' PROVE ReadInv'
  BY <1>0, <1>a, <1>b, WorkersWiden
<1>1. ASSUME NEW q \in Queues, Arrive(q) PROVE ReadInv'
  <2>1. UNCHANGED <<main, trk, cut>> /\ number' = number + 1
    BY <1>1 DEF Arrive, mainVars, queueHistory
  <2> QED
    BY <1>0, <1>a, <2>1
<1>2. ASSUME NEW q \in Queues, Take(q) PROVE ReadInv'
  <2>1. number' = number /\ cut' = cut
    BY <1>2 DEF Take, Undisturbed, pathVars, queueHistory
  <2> QED
    BY <1>2, <1>b, <2>1 DEF WorkerStep
<1>3. ASSUME NEW q \in Queues, Quit(q) PROVE ReadInv'
  <2>1. number' = number /\ cut' = cut
    BY <1>3 DEF Quit, Undisturbed, pathVars, queueHistory
  <2> QED
    BY <1>3, <1>b, <2>1 DEF WorkerStep
<1>4. ASSUME NEW q \in Queues, Count(q) PROVE ReadInv'
  <2>1. number' = number /\ (cut => cut')
    BY <1>4 DEF Count, Undisturbed, pathVars, QueueTypes
  <2> QED
    BY <1>4, <1>b, <2>1 DEF WorkerStep
<1>5. ASSUME NEW q \in Queues, LoadInit(q) PROVE ReadInv'
  <2>1. number' = number /\ cut' = cut
    BY <1>5 DEF LoadInit, Undisturbed, pathVars, queueHistory
  <2> QED
    BY <1>5, <1>b, <2>1 DEF WorkerStep
<1>6. ASSUME NEW q \in Queues, CasFirst(q) PROVE ReadInv'
  <2>1. number' = number /\ cut' = cut
    BY <1>6 DEF CasFirst, Undisturbed, pathVars, queueHistory
  <2> QED
    BY <1>6, <1>b, <2>1 DEF WorkerStep
<1>7. ASSUME NEW q \in Queues, MarkInit(q) PROVE ReadInv'
  <2>1. number' = number /\ cut' = cut
    BY <1>7 DEF MarkInit, Undisturbed, pathVars, queueHistory
  <2> QED
    BY <1>7, <1>b, <2>1 DEF WorkerStep
<1>8. ASSUME NEW q \in Queues, LoadMax(q) PROVE ReadInv'
  <2>1. number' = number /\ cut' = cut
    BY <1>8 DEF LoadMax, Undisturbed, pathVars, queueHistory
  <2> QED
    BY <1>8, <1>b, <2>1 DEF WorkerStep
<1>9. ASSUME NEW q \in Queues, CasMax(q) PROVE ReadInv'
  <2>1. number' = number /\ cut' = cut
    BY <1>9 DEF CasMax, Undisturbed, pathVars, queueHistory
  <2> QED
    BY <1>9, <1>b, <2>1 DEF WorkerStep
<1>10. ASSUME NEW q \in Queues, LoadMin(q) PROVE ReadInv'
  <2>1. number' = number /\ cut' = cut
    BY <1>10 DEF LoadMin, Undisturbed, pathVars, queueHistory
  <2> QED
    BY <1>10, <1>b, <2>1 DEF WorkerStep
<1>11. ASSUME NEW q \in Queues, CasMin(q) PROVE ReadInv'
  <2>1. number' = number /\ cut' = cut
    BY <1>11 DEF CasMin, Undisturbed, pathVars, queueHistory
  <2> QED
    BY <1>11, <1>b, <2>1 DEF WorkerStep
<1>12. ASSUME Lose PROVE ReadInv'
  <2>1. UNCHANGED <<main, trk, cut>> /\ number' = number + 1
    BY <1>12 DEF Lose, mainVars, queueHistory
  <2> QED
    BY <1>0, <1>a, <2>1
<1>13. ASSUME ResetMin PROVE ReadInv'
  <2>1. main'.at \notin {"readMin", "readMax", "readCount"} /\ number' = number /\ (main'.sure => main.sure)
    BY <1>13, MainsAre DEF ResetMin, Between, pathVars
  <2> QED
    BY <2>1 DEF ReadInv
<1>14. ASSUME ResetMax PROVE ReadInv'
  <2>1. main'.at \notin {"readMin", "readMax", "readCount"} /\ number' = number /\ (main'.sure => main.sure)
    BY <1>14, MainsAre DEF ResetMax, Between, pathVars
  <2> QED
    BY <2>1 DEF ReadInv
<1>15. ASSUME ResetCount PROVE ReadInv'
  <2>1. main'.at \notin {"readMin", "readMax", "readCount"} /\ number' = number /\ (main'.sure => main.sure)
    BY <1>15, MainsAre DEF ResetCount, Between, pathVars
  <2> QED
    BY <2>1 DEF ReadInv
<1>16. ASSUME ResetInit PROVE ReadInv'
  <2>1. main'.at \notin {"readMin", "readMax", "readCount"} /\ number' = number /\ (main'.sure => main.sure)
    BY <1>16, MainsAre DEF ResetInit, Between, pathVars
  <2> QED
    BY <2>1 DEF ReadInv
<1>17. ASSUME ReadInit PROVE ReadInv'
  <2>1. /\ main.at = "idle" /\ main'.at = "readMin" /\ main'.sure = Tracked
        /\ UNCHANGED <<trk, number, cut>>
    BY <1>17, MainsAre DEF ReadInit, Between, pathVars, queueHistory
  <2>2. ~Resetting
    BY <2>1 DEF Resetting
  <2> QED
    BY <2>1, <2>2, TrackedIs DEF ReadInv
<1>18. ASSUME ReadMin PROVE ReadInv'
  <2>1. /\ main.at = "readMin" /\ main'.at = "readMax" /\ main'.sure = main.sure /\ main'.min = trk.min
        /\ UNCHANGED <<trk, number, cut>>
    BY <1>18, MainsAre DEF ReadMin, Between, pathVars, queueHistory
  <2> QED
    BY <2>1 DEF ReadInv
<1>19. ASSUME ReadMax PROVE ReadInv'
  <2>1. /\ main.at = "readMax" /\ main'.at = "readCount" /\ main'.sure = main.sure
        /\ main'.min = main.min /\ main'.max = trk.max
        /\ UNCHANGED <<trk, number, cut>>
    BY <1>19, MainsAre DEF ReadMax, Between, pathVars, queueHistory
  <2> QED
    BY <2>1 DEF ReadInv, CompareInv
<1>20. ASSUME ReadCount PROVE ReadInv'
  <2>1. main'.at = "print" /\ main'.sure = FALSE
    BY <1>20, ReadCountIs
  <2> QED
    BY <2>1 DEF ReadInv
<1>21. ASSUME PrintTable PROVE ReadInv'
  <2>1. main'.at \notin {"readMin", "readMax", "readCount"} /\ number' = number /\ (main'.sure => main.sure)
    BY <1>21, MainsAre DEF PrintTable, Between, pathVars
  <2> QED
    BY <2>1 DEF ReadInv
<1>22. ASSUME Stop PROVE ReadInv'
  <2>1. UNCHANGED <<main, trk, cut, number>>
    BY <1>22 DEF Stop, mainVars, pathVars, queueHistory
  <2> QED
    BY <1>0, <1>a, <2>1
<1> QED
  BY <1>1, <1>2, <1>3, <1>4, <1>5, <1>6, <1>7, <1>8, <1>9, <1>10, <1>11, <1>12, <1>13, <1>14,
     <1>15, <1>16, <1>17, <1>18, <1>19, <1>20, <1>21, <1>22 DEF QueuesNext, WorkerStep, MainStep

LEMMA QueuesKeepMain ==
  ASSUME NEW q \in Queues, Arrive(q) \/ WorkerStep(q)
  PROVE  main' = main
BY DEF Arrive, WorkerStep, Take, Quit, Count, LoadInit, CasFirst, MarkInit, LoadMax, CasMax,
       LoadMin, CasMin, Undisturbed, mainVars

\* What is taken for lost, when the loads are in order, are numbers of the interval that are
\* missing.
LEMMA LiveStep ==
  ASSUME QueueTypes, PlaceInv, CountInv, ReadInv, LiveBounded, QueuesNext
  PROVE  LiveBounded'
<1>1. CASE ReadCount
  <2> DEFINE lo == main.min
             hi == main.max
             few == main.sure /\ ~cut
  <2>1. main.at = "readCount" /\ main'.lost = LostOf(lo, hi, trk.count)
        /\ main'.most = IF few THEN Cardinality(Missing) ELSE Wrap
    BY <1>1, ReadCountIs
  <2>2. lo \in Values /\ hi \in Numbers /\ trk.count \in Nat /\ number \in Nat
    BY Fields
  <2>3. lo \in Nat /\ hi \in Nat /\ Wrap \in Nat
    BY <2>2, Bounds
  <2>4. few => lo <= hi /\ hi < number
    BY <2>1, <2>2, <2>3 DEF ReadInv
  <2> HIDE DEF lo, hi, few
  <2>5. CASE ~few
    BY <2>1, <2>2, <2>5, LostOfIs DEF LiveBounded
  <2>6. CASE few
    <3> DEFINE I == lo .. hi
    <3>1. IsFiniteSet(I) /\ Cardinality(I) = hi - lo + 1
      BY <2>3, <2>4, <2>6, FS_Interval
    <3>2. \A n \in I : n \in Known
      BY <2>2, <2>3, <2>4, <2>6 DEF Known
    <3>3. I \subseteq counted \cup Missing
      BY <3>2, MissingIs
    <3>4. /\ IsFiniteSet(counted) /\ IsFiniteSet(Missing) /\ Cardinality(counted) \in Nat
          /\ Cardinality(Missing) \in Nat /\ trk.count = Cardinality(counted)
      BY KnownIsFinite, MissingIs DEF QueueTypes, CountInv
    <3>5. IsFiniteSet(counted \cup Missing) /\ Cardinality(counted \cup Missing) \in Nat
          /\ Cardinality(counted \cup Missing) <= Cardinality(counted) + Cardinality(Missing)
      <4>1. IsFiniteSet(counted \cup Missing) /\ Cardinality(counted \cup Missing) \in Nat
        BY <3>4, FS_Union, FS_CardinalityType
      <4>2. Cardinality(counted \cup Missing)
              = Cardinality(counted) + Cardinality(Missing) - Cardinality(counted \cap Missing)
        BY <3>4, FS_Union
      <4>3. Cardinality(counted \cap Missing) \in Nat
        BY <3>4, FS_Intersection, FS_CardinalityType
      <4> QED
        BY <3>4, <4>1, <4>2, <4>3
    <3>6. Cardinality(I) <= Cardinality(counted \cup Missing)
      BY <3>3, <3>5, FS_Subset
    <3>7. LostOf(lo, hi, trk.count) = IF hi - lo + 1 > trk.count THEN hi - lo + 1 - trk.count ELSE 0
      BY <2>2, <2>3, <2>4, <2>6, LostOfIs
    <3> HIDE DEF I
    <3>8. LostOf(lo, hi, trk.count) <= Cardinality(Missing)
      BY <2>3, <3>1, <3>4, <3>5, <3>6, <3>7
    <3> QED
      BY <2>1, <2>6, <3>8 DEF LiveBounded
  <2> QED
    BY <2>5, <2>6
<1>2. CASE \E q \in Queues : Arrive(q) \/ WorkerStep(q)
  BY <1>2, QueuesKeepMain DEF LiveBounded
<1>3. CASE Lose \/ Stop
  BY <1>3 DEF Lose, Stop, mainVars, LiveBounded
<1>4. CASE ResetMin \/ ResetMax \/ ResetCount \/ ResetInit \/ ReadInit \/ ReadMin \/ ReadMax \/ PrintTable
  <2>1. main'.at # "print"
    BY <1>4, MainsAre
  <2> QED
    BY <2>1 DEF LiveBounded
<1> QED
  BY <1>1, <1>2, <1>3, <1>4 DEF QueuesNext, MainStep

----------------------------------------------------------------------------
(* The invariant, and what follows.                                        *)

LEMMA QueuesStart ==
  ASSUME QueuesInit
  PROVE  QueuesInv
<1>1. /\ number = 0 /\ ring = [q \in Queues |-> <<>>] /\ worker = [q \in Queues |-> Poll]
      /\ trk = [min |-> Top, max |-> 0, count |-> 0, init |-> FALSE]
      /\ main = Idle /\ wasReset = FALSE /\ stop = FALSE
      /\ lost = {} /\ counted = {} /\ before = {} /\ cut = FALSE
  BY DEF QueuesInit
<1>2. Known = {} /\ number \in 0 .. MaxSeq + 1
  BY <1>1, Bounds DEF Known
<1>3. /\ worker \in WorkerStates /\ \A q \in Queues : worker[q].at = "poll"
  <2>1. Poll \in [at : WorkerLabels, seq : Numbers, old : Values] /\ Poll.at = "poll"
    BY Bounds DEF Poll, WorkerLabels
  <2> QED
    BY <1>1, <2>1 DEF WorkerStates
<1>4. /\ ring \in Rings /\ \A q \in Queues : ring[q] = <<>>
  BY <1>1, EmptySeq DEF Rings
<1>5. \A q \in Queues : Owned(q) = {} /\ Once(ring[q]) /\ Elements(ring[q]) = {} /\ Hand(q) = {}
  <2>1. Elements(<<>>) = {} /\ Once(<<>>)
    BY DEF Elements, Once
  <2> QED
    BY <1>3, <1>4, <2>1 DEF Owned, Hand
<1>6. trk \in Trackers /\ trk.min = Top /\ trk.max = 0 /\ trk.count = 0 /\ trk.init = FALSE
  BY <1>1, Bounds DEF Trackers
<1>7. main \in Mains /\ main.at = "idle" /\ main.sure = FALSE
  BY <1>1, IdleIs
<1>8. InHand = {} /\ ~Resetting
  BY <1>3, <1>7 DEF InHand, Resetting
<1>9. QueueTypes
  BY <1>1, <1>2, <1>3, <1>4, <1>6, <1>7 DEF QueueTypes
<1>10. OwnInv /\ PlaceInv
  BY <1>1, <1>2, <1>5 DEF OwnInv, PlaceInv
<1>11. CountInv
  BY <1>1, <1>6, FS_EmptySet DEF CountInv
<1>12. ResetInv /\ ReadInv /\ LiveBounded
  BY <1>1, <1>7, <1>8 DEF ResetInv, ReadInv, LiveBounded
<1>13. TrackInv
  BY <1>1, <1>3, <1>6, <1>8 DEF TrackInv, SeenInv, FirstInv, SawFirst
<1>14. CompareInv
  BY <1>3, <1>6 DEF CompareInv
<1> QED
  BY <1>9, <1>10, <1>11, <1>12, <1>13, <1>14 DEF QueuesInv

LEMMA QueuesStutter ==
  ASSUME QueuesInv, UNCHANGED queueVars
  PROVE  QueuesInv'
<1>1. UNCHANGED <<number, ring, worker, trk, main, wasReset, stop, lost, counted, before, cut>>
  BY DEF queueVars
<1>2. /\ Known' = Known /\ InHand' = InHand /\ Resetting' = Resetting
      /\ \A q \in Queues : Owned(q)' = Owned(q) /\ Hand(q)' = Hand(q)
  BY <1>1 DEF Known, InHand, Resetting, Owned, Hand, Packet
<1>3. QueueTypes' /\ OwnInv' /\ PlaceInv' /\ CountInv'
  BY <1>1, <1>2 DEF QueuesInv, QueueTypes, OwnInv, PlaceInv, CountInv
<1>4. ResetInv' /\ CompareInv' /\ ReadInv' /\ LiveBounded'
  BY <1>1, <1>2 DEF QueuesInv, ResetInv, CompareInv, ReadInv, LiveBounded, Packet
<1>5. TrackInv'
  BY <1>1, <1>2 DEF QueuesInv, TrackInv, SeenInv, FirstInv, Packet
<1> QED
  BY <1>3, <1>4, <1>5 DEF QueuesInv

\* Between two packets the tracker is exact.
LEMMA QuietFollows ==
  ASSUME QueuesInv
  PROVE  QuietExact
<1> SUFFICES ASSUME Settled, ~cut
             PROVE  /\ trk.init <=> counted # {}
                    /\ trk.init => LostOf(trk.min, trk.max, trk.count) =
                         Cardinality({n \in Missing : \E least, most \in counted : least < n /\ n < most})
  BY DEF QuietExact
<1> DEFINE lo == trk.min
           hi == trk.max
           B == {n \in Missing : \E least, most \in counted : least < n /\ n < most}
<1>1. QueueTypes /\ PlaceInv /\ CountInv /\ SeenInv /\ FirstInv
  BY DEF QueuesInv, TrackInv, Settled
<1>2. InHand = {} /\ \A q \in Queues : worker[q].at \notin SawFirst
  BY DEF Settled, InHand, SawFirst
<1>3. lo \in Values /\ hi \in Numbers /\ trk.count \in Nat /\ number \in Nat /\ lo \in Nat /\ hi \in Nat
  <2>1. lo \in Values /\ hi \in Numbers /\ trk.count \in Nat /\ number \in Nat
    BY <1>1, Fields
  <2> QED
    BY <2>1, Bounds
<1>4. \A n \in counted : n \in Nat /\ n < number /\ n < Top
  <2>1. \A n \in counted : n \in 0 .. number - 1
    BY <1>1 DEF QueueTypes, Known
  <2>2. number <= MaxSeq + 1 /\ MaxSeq + 1 < Top
    BY <1>1, Fields, Bounds
  <2> QED
    BY <1>3, <2>1, <2>2, Bounds
<1>5. /\ lo = Top \/ lo \in counted
      /\ hi = 0 \/ hi \in counted
      /\ \A n \in counted : lo <= n /\ n <= hi
  BY <1>1, <1>2 DEF SeenInv
<1>6. trk.init <=> lo # Top
  <2>1. trk.init => lo # Top
    BY <1>1 DEF FirstInv
  <2>2. lo # Top => trk.init
    BY <1>1, <1>2 DEF FirstInv, SawFirst
  <2> QED
    BY <1>1, <2>1, <2>2, Fields
<1> HIDE DEF lo, hi
<1>7. trk.init <=> counted # {}
  <2>1. lo # Top => counted # {}
    BY <1>5
  <2>2. ASSUME NEW n \in counted PROVE lo # Top
    <3>1. lo <= n /\ n < Top
      BY <1>4, <1>5
    <3> QED
      BY <1>3, <1>4, <3>1
  <2> QED
    BY <1>6, <2>1, <2>2
<1>8. ASSUME trk.init PROVE LostOf(lo, hi, trk.count) = Cardinality(B)
  <2>1. PICK m : m \in counted
    BY <1>7, <1>8
  <2>2. lo \in counted /\ hi \in counted
    <3>1. lo <= m /\ m <= hi /\ m \in Nat
      BY <1>4, <1>5, <2>1
    <3>2. hi = 0 => m = hi
      BY <1>3, <3>1
    <3> QED
      BY <1>5, <1>6, <1>8, <2>1, <3>2
  <2>3. lo <= hi /\ hi < number
    BY <1>4, <1>5, <2>2
  <2> DEFINE I == lo .. hi
  <2>4. IsFiniteSet(I) /\ Cardinality(I) = hi - lo + 1
    BY <1>3, <2>3, FS_Interval
  <2>5. \A n \in I : n \in Known /\ n \in Int /\ lo <= n /\ n <= hi
    BY <1>3, <2>3 DEF Known
  <2>6. /\ Missing \subseteq Known /\ IsFiniteSet(Missing) /\ Missing \cap counted = {}
        /\ \A n \in Known : n \in counted \/ n \in Missing
    BY <1>1, MissingIs
  <2>7. \A n \in Known : n \in Nat
    BY <1>1, KnownIsFinite
  <2>8. ASSUME NEW n \in Missing PROVE n \in I <=> \E least, most \in counted : least < n /\ n < most
    <3>1. n \in Nat /\ n # lo /\ n # hi
      BY <2>2, <2>6, <2>7
    <3>2. n \in I => lo < n /\ n < hi
      BY <1>3, <3>1
    <3>3. ASSUME NEW least \in counted, NEW most \in counted, least < n, n < most PROVE n \in I
      <4>1. lo <= least /\ most <= hi /\ least \in Nat /\ most \in Nat
        BY <1>4, <1>5
      <4> QED
        BY <1>3, <3>1, <3>3, <4>1
    <3> QED
      BY <2>2, <3>2, <3>3
  <2>9. \A n \in counted : n \in I
    BY <1>3, <1>4, <1>5
  <2> HIDE DEF I
  <2>10. B = I \cap Missing
    BY <2>8
  <2> HIDE DEF B
  <2>11. I = counted \cup B /\ counted \cap B = {} /\ B \subseteq Missing
    BY <2>5, <2>6, <2>9, <2>10
  <2>12. /\ IsFiniteSet(counted) /\ IsFiniteSet(B) /\ Cardinality(counted) \in Nat /\ Cardinality(B) \in Nat
    <3>1. IsFiniteSet(B)
      BY <2>6, <2>11, FS_Subset
    <3> QED
      BY <1>1, <3>1, KnownIsFinite, FS_CardinalityType DEF QueueTypes
  <2>13. Cardinality(I) = Cardinality(counted) + Cardinality(B)
    <3>1. Cardinality(counted \cup B) = Cardinality(counted) + Cardinality(B) - Cardinality(counted \cap B)
      BY <2>12, FS_Union
    <3>2. Cardinality(counted \cap B) = 0
      BY <2>11, FS_EmptySet
    <3> QED
      BY <2>11, <2>12, <3>1, <3>2
  <2>14. LostOf(lo, hi, trk.count) = IF hi - lo + 1 > trk.count THEN hi - lo + 1 - trk.count ELSE 0
    BY <1>3, <2>3, LostOfIs
  <2> QED
    BY <1>1, <1>3, <2>4, <2>12, <2>13, <2>14 DEF CountInv
<1> QED
  BY <1>7, <1>8 DEF lo, hi

\* The invariant holds however many queues there are and however their steps interleave.
THEOREM QueuesInductive == QueuesSpec => []QueuesInv
<1>1. QueuesInit => QueuesInv
  BY QueuesStart
<1>2. QueuesInv /\ [QueuesNext]_queueVars => QueuesInv'
  <2> SUFFICES ASSUME QueuesInv, QueuesNext PROVE QueuesInv'
    BY QueuesStutter
  <2>1. /\ QueueTypes /\ OwnInv /\ PlaceInv /\ CountInv /\ ResetInv /\ TrackInv /\ CompareInv
        /\ ReadInv /\ LiveBounded
    BY DEF QueuesInv
  <2>2. QueueTypes' /\ OwnInv' /\ PlaceInv' /\ CountInv' /\ ResetInv' /\ CompareInv'
    BY <2>1, TypesStep, OwnStep, PlaceStep, CountStep, ResetStep, CompareStep
  <2>3. TrackInv' /\ ReadInv' /\ LiveBounded'
    BY <2>1, <2>2, TrackStep, ReadStep, LiveStep
  <2> QED
    BY <2>2, <2>3 DEF QueuesInv
<1> QED
  BY <1>1, <1>2, PTL DEF QueuesSpec

\* Type correctness of the queues, their workers and the tracker (multi_queue_rx_worker).
THEOREM QueuesTypeCorrect == QueuesSpec => []QueueTypes
<1>1. QueuesInv => QueueTypes
  BY DEF QueuesInv
<1> QED
  BY <1>1, QueuesInductive, PTL

\* When no worker is at a packet, the tracker tells exactly what is missing between the
\* least and the greatest number counted, for any number of queues (g_vl_seq).
THEOREM QuietIsExact == QueuesSpec => []QuietExact
<1>1. QueuesInv => QuietExact
  BY QuietFollows
<1> QED
  BY <1>1, QueuesInductive, PTL

\* What the table shows as lost while the workers go on is never more than is missing
\* (get_global_sequence_lost).
THEOREM LiveIsBounded == QueuesSpec => []LiveBounded
<1>1. QueuesInv => LiveBounded
  BY DEF QueuesInv
<1> QED
  BY <1>1, QueuesInductive, PTL

----------------------------------------------------------------------------
(* A session of the PTP slave.                                             *)


\* The number of an answer and the requests sent since its own lead to the last
\* request, modulo the size of the sequence space.
Leads(a) ==
  \/ a.seq + a.behind = lastSeq
  \/ a.seq + a.behind = lastSeq + SeqCount

\* Once there has been a request, the next one takes the number after it.
SeqInv ==
  /\ answers # {} => nextSeq = SeqAfter(lastSeq)
  /\ \A a \in answers : Leads(a)

\* t3 belongs to the stored Sync while an answer is awaited.
ExchangeInv == OffsetGenuine /\ (state = "DELAY_REQ_SENT" => t3AfterT2)

\* Only a timestamp of this iteration is later than current_tsc.
FreshInv ==
  /\ syncFresh => sinceSync <= loopAge
  /\ changeFresh => sinceChange <= loopAge
  /\ ~syncFresh => loopAge <= sinceSync

\* How old the last Sync can be in each state.  SYNC_RECEIVED never outlives an
\* iteration: its timestamp is later than current_tsc, the difference wraps, and the
\* request is due at once.
AgeInv ==
  /\ state = "SYNC_RECEIVED" => changeFresh /\ sinceSync <= sinceChange
  /\ state = "DELAY_REQ_SENT" =>
       /\ ~changeFresh /\ sinceSync <= sinceChange
       /\ sinceChange <= RespTimeout + MaxStall + loopAge
  /\ state = "SYNCED" => sinceSync <= SyncTimeout + MaxStall + loopAge

SessionInv == SessionTypeOK /\ SeqInv /\ ExchangeInv /\ FreshInv /\ AgeInv

----------------------------------------------------------------------------
(* Sequence numbers.                                                       *)

LEMMA NextNumber ==
  ASSUME NEW seq \in 0..(SeqCount - 1)
  PROVE  /\ SeqAfter(seq) \in 0..(SeqCount - 1)
         /\ SeqAfter(seq) = IF seq = SeqCount - 1 THEN 0 ELSE seq + 1
<1>1. SeqCount \in Nat \ {0}
  BY TimeoutsAssumption
<1>2. CASE seq = SeqCount - 1
  BY <1>1, <1>2 DEF SeqAfter
<1>3. CASE seq # SeqCount - 1
  <2>1. seq + 1 \in 0..(SeqCount - 1)
    BY <1>1, <1>3
  <2> QED
    BY <1>1, <1>3, <2>1 DEF SeqAfter
<1> QED
  BY <1>2, <1>3

\* The answer with the number of the last request is the answer to the last request.
LEMMA OwnAnswer ==
  ASSUME SessionTypeOK, SeqInv, NEW a \in answers, a.seq = lastSeq
  PROVE  a.behind = 0
<1>1. a.behind \in 0..(SeqCount - 1) /\ lastSeq \in 0..(SeqCount - 1) /\ SeqCount \in Nat \ {0}
  BY TimeoutsAssumption DEF SessionTypeOK, Answers
<1> QED
  BY <1>1 DEF SeqInv, Leads

\* Answers on their way fall one request behind when a new one is sent.
LEMMA OvertakenLead ==
  ASSUME SessionTypeOK, SeqInv, NEW a \in Overtaken
  PROVE  /\ a \in Answers
         /\ a.seq + a.behind = nextSeq \/ a.seq + a.behind = nextSeq + SeqCount
<1>1. PICK b \in answers : b.behind + 1 < SeqCount /\ a = [b EXCEPT !.behind = b.behind + 1]
  BY DEF Overtaken
<1>2. /\ b.seq \in 0..(SeqCount - 1) /\ b.behind \in 0..(SeqCount - 1)
      /\ b = [seq |-> b.seq, behind |-> b.behind]
  BY DEF SessionTypeOK, Answers
<1>3. a = [seq |-> b.seq, behind |-> b.behind + 1]
  BY <1>1, <1>2
<1>4. lastSeq \in 0..(SeqCount - 1) /\ SeqCount \in Nat \ {0}
  BY TimeoutsAssumption DEF SessionTypeOK
<1>5. a \in Answers
  BY <1>1, <1>2, <1>3, <1>4 DEF Answers
<1>6. nextSeq = IF lastSeq = SeqCount - 1 THEN 0 ELSE lastSeq + 1
  BY <1>1, <1>4, NextNumber DEF SeqInv
<1>7. b.seq + b.behind = lastSeq \/ b.seq + b.behind = lastSeq + SeqCount
  BY <1>1 DEF SeqInv, Leads
<1>8. a.seq = b.seq /\ a.behind = b.behind + 1
  BY <1>3
<1> QED
  BY <1>1, <1>2, <1>4, <1>5, <1>6, <1>7, <1>8

LEMMA TimeBounds ==
  /\ Interval \in 1..SyncTimeout /\ RespTimeout \in 1..SyncTimeout /\ SyncTimeout \in Nat
  /\ MaxStall \in Nat \ {0} /\ Burst \in Nat \ {0} /\ SeqCount \in Nat \ {0}
  /\ MaxAge \in Nat /\ MaxAge = SyncTimeout + 2 * MaxStall + 1
  BY TimeoutsAssumption DEF MaxAge

----------------------------------------------------------------------------
(* SessionInit and the steps.                                                     *)

LEMMA SessionStart == SessionInit => SessionInv
<1> SUFFICES ASSUME SessionInit PROVE SessionInv
  OBVIOUS
<1>1. SessionTypeOK
  <2>1. 0 \in 0..MaxAge /\ MaxAge \in 0..MaxAge /\ 0 \in 0..(SeqCount - 1)
        /\ 0 \in 0..MaxStall /\ 0 \in 0..Burst
    BY TimeBounds
  <2> QED
    BY <2>1 DEF SessionInit, SessionTypeOK, States
<1>2. SeqInv /\ ExchangeInv
  BY DEF SessionInit, SeqInv, ExchangeInv, OffsetGenuine
<1>3. FreshInv /\ AgeInv
  BY TimeBounds DEF SessionInit, FreshInv, AgeInv
<1> QED
  BY <1>1, <1>2, <1>3 DEF SessionInv

\* A step that sends nothing and takes answers away at most.
LEMMA SeqKept ==
  ASSUME SeqInv, answers' \subseteq answers, UNCHANGED seqVars
  PROVE  SeqInv'
  BY DEF SeqInv, Leads, seqVars, SeqAfter

LEMMA SyncKeepsInv == ASSUME SessionInv, HandleSync PROVE SessionInv'
<1> USE DEF SessionInv
<1>1. received' \in 0..Burst /\ loopAge' = loopAge /\ 0 \in 0..MaxAge
  BY TimeBounds DEF HandleSync, Receive, SessionTypeOK
<1>2. CASE state \in {"LISTENING", "SYNCED", "ERROR"}
  <2>1. /\ state' = "SYNC_RECEIVED" /\ sinceChange' = 0 /\ changeFresh' = TRUE
        /\ t3AfterT2' = FALSE /\ sinceSync' = 0 /\ syncFresh' = TRUE
    BY <1>2 DEF HandleSync
  <2>2. SessionTypeOK'
    BY <1>1, <2>1 DEF HandleSync, SessionTypeOK, States, seqVars
  <2>3. SeqInv'
    BY SeqKept DEF HandleSync
  <2>4. ExchangeInv'
    BY <2>1 DEF HandleSync, ExchangeInv, OffsetGenuine
  <2>5. FreshInv' /\ AgeInv'
    BY <1>1, <2>1 DEF FreshInv, AgeInv, SessionTypeOK
  <2> QED
    BY <2>2, <2>3, <2>4, <2>5
<1>3. CASE state \notin {"LISTENING", "SYNCED", "ERROR"}
  <2>1. /\ state' = state /\ sinceChange' = sinceChange /\ changeFresh' = changeFresh
        /\ t3AfterT2' = t3AfterT2 /\ sinceSync' = 0 /\ syncFresh' = TRUE
    BY <1>3 DEF HandleSync
  <2>2. SessionTypeOK'
    BY <1>1, <2>1 DEF HandleSync, SessionTypeOK, seqVars
  <2>3. SeqInv'
    BY SeqKept DEF HandleSync
  <2>4. ExchangeInv'
    BY <2>1 DEF HandleSync, ExchangeInv, OffsetGenuine
  <2>5. FreshInv'
    BY <1>1, <2>1 DEF FreshInv, SessionTypeOK
  <2>6. AgeInv'
    BY <1>1, <1>3, <2>1 DEF AgeInv, SessionTypeOK
  <2> QED
    BY <2>2, <2>3, <2>4, <2>5, <2>6
<1> QED
  BY <1>2, <1>3

LEMMA AnswerKeepsInv ==
  ASSUME SessionInv, NEW a \in answers, HandleDelayResp(a) PROVE SessionInv'
<1> USE DEF SessionInv
<1>1. received' \in 0..Burst /\ loopAge' = loopAge
  BY TimeBounds DEF HandleDelayResp, Receive, SessionTypeOK
<1>2. /\ answers' \subseteq answers
      /\ sinceSync' = sinceSync /\ syncFresh' = syncFresh /\ t3AfterT2' = t3AfterT2
      /\ nextSeq' = nextSeq /\ lastSeq' = lastSeq
  BY DEF HandleDelayResp, seqVars
<1>3. SeqInv'
  BY <1>2, SeqKept DEF seqVars
<1>4. CASE a.seq = lastSeq /\ state = "DELAY_REQ_SENT"
  <2>1. /\ state' = "SYNCED" /\ isSynced' = TRUE /\ sinceChange' = 0 /\ changeFresh' = TRUE
        /\ offset' \in {IF t3AfterT2 /\ a.behind = 0 THEN "genuine" ELSE "mixed", "empty"}
    BY <1>4 DEF HandleDelayResp, Accept, Offset
  <2>2. a.behind = 0 /\ t3AfterT2
    BY <1>4, OwnAnswer DEF ExchangeInv
  <2>3. offset' \in {"genuine", "empty"}
    BY <2>1, <2>2
  <2>4. SessionTypeOK'
    BY <1>1, <1>2, <2>1, <2>3, TimeBounds DEF SessionTypeOK, States
  <2>5. ExchangeInv'
    BY <2>1, <2>3 DEF ExchangeInv, OffsetGenuine
  <2>6. FreshInv'
    BY <1>1, <1>2, <2>1 DEF FreshInv, SessionTypeOK
  <2>7. sinceSync <= SyncTimeout + MaxStall + loopAge
    BY <1>4, TimeBounds DEF AgeInv, SessionTypeOK
  <2>8. AgeInv'
    BY <1>1, <1>2, <2>1, <2>7 DEF AgeInv
  <2> QED
    BY <1>3, <2>4, <2>5, <2>6, <2>8
<1>5. CASE ~(a.seq = lastSeq /\ state = "DELAY_REQ_SENT")
  <2>1. UNCHANGED <<state, isSynced, sinceChange, changeFresh, offset>>
    BY <1>5 DEF HandleDelayResp
  <2>2. SessionTypeOK'
    BY <1>1, <1>2, <2>1 DEF SessionTypeOK
  <2>3. ExchangeInv' /\ FreshInv' /\ AgeInv'
    BY <1>1, <1>2, <2>1 DEF ExchangeInv, OffsetGenuine, FreshInv, AgeInv
  <2> QED
    BY <1>3, <2>2, <2>3
<1> QED
  BY <1>4, <1>5

\* What every end of an iteration does to the clocks.
LEMMA TickClocks ==
  ASSUME SessionTypeOK, FreshInv, NEW change \in 0..MaxAge, NextIteration(change)
  PROVE  /\ loopAge' = 0 /\ received' = 0 /\ sinceChange' = change /\ sinceSync' = sinceSync
         /\ syncFresh' = FALSE /\ changeFresh' = FALSE
         /\ FreshInv'
  BY TimeBounds DEF NextIteration, SessionTypeOK, FreshInv

\* The end of an iteration that leaves the exchange as it is and goes to a state in
\* which no Sync is remembered.
LEMMA RestKeepsInv ==
  ASSUME SessionInv, NEW change \in 0..MaxAge, NextIteration(change),
         state' \in {"LISTENING", "ERROR"}, isSynced' \in BOOLEAN,
         UNCHANGED <<seqVars, t3AfterT2, offset, answers>>
  PROVE  SessionInv'
<1> USE DEF SessionInv
<1>1. SessionTypeOK'
  <2>1. 0 \in 0..MaxStall /\ 0 \in 0..Burst
    BY TimeBounds
  <2> QED
    BY <2>1, TickClocks DEF SessionTypeOK, States, seqVars
<1>2. SeqInv'
  BY SeqKept
<1>3. ExchangeInv' /\ AgeInv'
  BY DEF ExchangeInv, OffsetGenuine, AgeInv
<1> QED
  BY <1>1, <1>2, <1>3, TickClocks

LEMMA LoopAgeIsAge == ASSUME SessionTypeOK PROVE loopAge \in 0..MaxAge /\ sinceChange \in 0..MaxAge
  BY TimeBounds DEF SessionTypeOK

LEMMA SendKeepsInv == ASSUME SessionInv, SendDelayReq PROVE SessionInv'
<1> USE DEF SessionInv
<1>1. /\ state = "SYNC_RECEIVED" /\ state' = "DELAY_REQ_SENT" /\ t3AfterT2' = TRUE
      /\ lastSeq' = nextSeq /\ nextSeq' = SeqAfter(nextSeq)
      /\ isSynced' = isSynced /\ offset' = offset
      /\ NextIteration(loopAge)
  BY DEF SendDelayReq, SendDue, SentSeq
<1>2. \A a \in answers' : a \in Overtaken \/ a = [seq |-> nextSeq, behind |-> 0]
  BY DEF SendDelayReq
<1>3. nextSeq \in 0..(SeqCount - 1) /\ nextSeq' \in 0..(SeqCount - 1)
  BY <1>1, NextNumber DEF SessionTypeOK
<1>4. \A a \in answers' : /\ a \in Answers
                          /\ \/ a.seq + a.behind = nextSeq
                             \/ a.seq + a.behind = nextSeq + SeqCount
  <2> TAKE a \in answers'
  <2>1. CASE a \in Overtaken
    BY <2>1, OvertakenLead
  <2>2. CASE a = [seq |-> nextSeq, behind |-> 0]
    BY <1>3, <2>2, TimeBounds DEF Answers
  <2> QED
    BY <1>2, <2>1, <2>2
<1>5. SeqInv'
  BY <1>1, <1>4 DEF SeqInv, Leads, SeqAfter
<1>6. /\ loopAge' = 0 /\ received' = 0 /\ sinceChange' = loopAge /\ sinceSync' = sinceSync
      /\ syncFresh' = FALSE /\ changeFresh' = FALSE /\ FreshInv'
  BY <1>1, TickClocks, LoopAgeIsAge
<1>7. SessionTypeOK'
  <2>1. answers' \subseteq Answers
    BY <1>4
  <2>2. 0 \in 0..MaxStall /\ 0 \in 0..Burst
    BY TimeBounds
  <2>3. sinceSync' \in 0..MaxAge /\ sinceChange' \in 0..MaxAge
    BY <1>6, LoopAgeIsAge DEF SessionTypeOK
  <2>4. isSynced' \in BOOLEAN /\ offset' \in {"none", "empty", "genuine", "mixed"}
    BY <1>1 DEF SessionTypeOK
  <2>5. nextSeq' \in 0..(SeqCount - 1) /\ lastSeq' \in 0..(SeqCount - 1)
    BY <1>1, <1>3
  <2> HIDE DEF SessionInv
  <2> QED
    BY <1>1, <1>6, <2>1, <2>2, <2>3, <2>4, <2>5 DEF SessionTypeOK, States
<1>8. ExchangeInv'
  BY <1>1 DEF ExchangeInv, OffsetGenuine
<1>9. AgeInv'
  <2>1. sinceSync <= loopAge /\ loopAge <= MaxStall
    BY <1>1 DEF AgeInv, FreshInv, SessionTypeOK
  <2> QED
    BY <1>1, <1>6, <2>1, TimeBounds DEF AgeInv, SessionTypeOK
<1> QED
  BY <1>5, <1>6, <1>7, <1>8, <1>9

LEMMA IdleKeepsInv == ASSUME SessionInv, TickIdle PROVE SessionInv'
<1> USE DEF SessionInv
<1>1. /\ UNCHANGED <<state, isSynced, nextSeq, lastSeq, t3AfterT2, offset, answers>>
      /\ NextIteration(sinceChange)
  BY DEF TickIdle, seqVars
<1>2. /\ loopAge' = 0 /\ received' = 0 /\ sinceChange' = sinceChange /\ sinceSync' = sinceSync
      /\ syncFresh' = FALSE /\ changeFresh' = FALSE /\ FreshInv'
  BY <1>1, TickClocks, LoopAgeIsAge
<1>3. SessionTypeOK'
  <2>1. 0 \in 0..MaxStall /\ 0 \in 0..Burst
    BY TimeBounds
  <2> QED
    BY <1>1, <1>2, <2>1 DEF SessionTypeOK
<1>4. SeqInv'
  BY <1>1, SeqKept DEF seqVars
<1>5. ExchangeInv'
  BY <1>1 DEF ExchangeInv, OffsetGenuine
<1>6. ~SendDue /\ ~RespDue /\ ~SyncDue
  BY DEF TickIdle
<1>7. state # "SYNC_RECEIVED"
  BY <1>6, TimeBounds DEF SendDue, Elapsed, AgeInv
<1>8. ASSUME state = "DELAY_REQ_SENT"
      PROVE  sinceSync <= sinceChange /\ sinceChange <= RespTimeout + MaxStall
  <2>1. sinceChange - loopAge <= RespTimeout
    BY <1>6, <1>8, TimeBounds DEF RespDue, Elapsed, AgeInv, SessionTypeOK
  <2> QED
    BY <1>8, <2>1, TimeBounds DEF AgeInv, SessionTypeOK
<1>9. ASSUME state = "SYNCED"
      PROVE  sinceSync <= SyncTimeout + MaxStall
  <2>1. ~syncFresh
    BY <1>6, <1>9, TimeBounds DEF SyncDue, Elapsed
  <2>2. sinceSync - loopAge <= SyncTimeout
    BY <1>6, <1>9, <2>1, TimeBounds DEF SyncDue, Elapsed, SessionTypeOK
  <2> QED
    BY <2>2, TimeBounds DEF SessionTypeOK
<1>10. AgeInv'
  <2>1. state' = state
    BY <1>1
  <2>2. CASE state = "DELAY_REQ_SENT"
    BY <1>2, <1>8, <2>1, <2>2, TimeBounds DEF AgeInv
  <2>3. CASE state = "SYNCED"
    BY <1>2, <1>9, <2>1, <2>3, TimeBounds DEF AgeInv
  <2> QED
    BY <1>7, <2>1, <2>2, <2>3 DEF AgeInv
<1> QED
  BY <1>2, <1>3, <1>4, <1>5, <1>10

LEMMA ElapseKeepsInv == ASSUME SessionInv, TimePasses PROVE SessionInv'
<1> USE DEF SessionInv
<1>1. /\ loopAge < MaxStall /\ loopAge' = loopAge + 1
      /\ sinceSync' = IF sinceSync < MaxAge THEN sinceSync + 1 ELSE sinceSync
      /\ sinceChange' = IF sinceChange < MaxAge THEN sinceChange + 1 ELSE sinceChange
      /\ UNCHANGED <<state, isSynced, syncFresh, changeFresh, nextSeq, lastSeq, t3AfterT2,
                     offset, received, answers>>
  BY DEF TimePasses, Older, seqVars
<1>2. SessionTypeOK'
  BY <1>1, TimeBounds DEF SessionTypeOK
<1>3. SeqInv' /\ ExchangeInv'
  BY <1>1, SeqKept DEF seqVars, ExchangeInv, OffsetGenuine
<1>4. FreshInv'
  BY <1>1, TimeBounds DEF FreshInv, SessionTypeOK
<1>5. AgeInv'
  BY <1>1, TimeBounds DEF AgeInv, SessionTypeOK
<1> QED
  BY <1>2, <1>3, <1>4, <1>5

----------------------------------------------------------------------------
(* Theorems.                                                               *)

\* The inductive invariant of the session: what the numbers on their way mean, which
\* exchange the stored timestamps belong to, and how old the last Sync is.
THEOREM SessionInductive == SessionSpec => []SessionInv
<1>1. SessionInit => SessionInv
  BY SessionStart
<1>2. SessionInv /\ [SessionNext]_sessionVars => SessionInv'
  <2> SUFFICES ASSUME SessionInv, [SessionNext]_sessionVars PROVE SessionInv'
    OBVIOUS
  <2>1. CASE HandleSync
    BY <2>1, SyncKeepsInv
  <2>2. ASSUME NEW a \in answers, HandleDelayResp(a) PROVE SessionInv'
    BY <2>2, AnswerKeepsInv
  <2>3. CASE TickInit
    BY <2>3, RestKeepsInv, LoopAgeIsAge DEF TickInit, SessionInv, SessionTypeOK
  <2>4. CASE SendDelayReq
    BY <2>4, SendKeepsInv
  <2>5. CASE SendFails
    BY <2>5, RestKeepsInv, LoopAgeIsAge DEF SendFails, SessionInv, SessionTypeOK
  <2>6. CASE ListenAgain
    BY <2>6, RestKeepsInv, LoopAgeIsAge DEF ListenAgain, SessionInv, SessionTypeOK
  <2>7. CASE LoseSync
    BY <2>7, RestKeepsInv, LoopAgeIsAge DEF LoseSync, SessionInv
  <2>8. CASE TickIdle
    BY <2>8, IdleKeepsInv
  <2>9. CASE TimePasses
    BY <2>9, ElapseKeepsInv
  <2>10. CASE LoseMessage
    <3>1. /\ answers' \subseteq answers
          /\ UNCHANGED <<state, isSynced, sinceSync, syncFresh, sinceChange, changeFresh,
                         nextSeq, lastSeq, t3AfterT2, offset, loopAge, received>>
      BY <2>10 DEF LoseMessage, clockVars, seqVars
    <3>2. SessionTypeOK' /\ SeqInv'
      BY <3>1, SeqKept DEF SessionInv, SessionTypeOK, seqVars
    <3>3. ExchangeInv' /\ FreshInv' /\ AgeInv'
      BY <3>1 DEF SessionInv, ExchangeInv, OffsetGenuine, FreshInv, AgeInv
    <3> QED
      BY <3>2, <3>3 DEF SessionInv
  <2>11. CASE UNCHANGED sessionVars
    BY <2>11 DEF sessionVars, clockVars, seqVars, SessionInv, SessionTypeOK, SeqInv, Leads, SeqAfter,
                 ExchangeInv, OffsetGenuine, FreshInv, AgeInv
  <2> QED
    BY <2>1, <2>2, <2>3, <2>4, <2>5, <2>6, <2>7, <2>8, <2>9, <2>10, <2>11 DEF SessionNext, Tick
<1> QED
  BY <1>1, <1>2, PTL DEF SessionSpec

\* Every variable of a session keeps its type (ptp_session_t and the worker's locals).
THEOREM SessionTypeCorrect == SessionSpec => []SessionTypeOK
<1>1. SessionInv => SessionTypeOK
  BY DEF SessionInv
<1> QED
  BY <1>1, SessionInductive, PTL

\* The offset never mixes timestamps of two exchanges, for every size of the sequence
\* space, as long as no answer is a whole round of numbers late (ptp_handle_delay_resp).
THEOREM OffsetIsGenuine == SessionSpec => []OffsetGenuine
<1>1. SessionInv => OffsetGenuine
  BY DEF SessionInv, ExchangeInv
<1> QED
  BY <1>1, SessionInductive, PTL

\* SYNCED is left in time when Syncs stop, for all time-outs and stalls of the loop
\* (ptp_state_machine_tick).
THEOREM SyncIsRecent == SessionSpec => []SyncedIsRecent
<1>1. SessionInv => SyncedIsRecent
  BY TimeBounds DEF SessionInv, AgeInv, SessionTypeOK, SyncedIsRecent
<1> QED
  BY <1>1, SessionInductive, PTL

----------------------------------------------------------------------------
(* A capture channel.  What a thread still has to do is a place in one of  *)
(* its programs.                                                           *)

Stages ==
  {"open", "flowOff", "flowOn", "sleep", "configure", "alloc", "start", "catch", "writers",
   "ifFlow", "loop", "check", "clear", "joinWorker", "stopDisplay", "joinDisplay", "release",
   "releaseCard", "free", "freeSibling", "allocSibling", "halt", "ifThreads", "close", "end"}
Halts == {"halt", "exit"}
Siblings == {"stopSibling", "restartSibling"}
CommandPrograms == {"stopCard", "restartCard", "stopBoth", "restartBoth"} \cup Siblings
Programs == CommandPrograms \cup Halts \cup {"velocity"}
Program ==
  [stopCard |-> StopCard, restartCard |-> RestartCard, stopSibling |-> StopSibling,
   restartSibling |-> RestartSibling, stopBoth |-> StopBoth, restartBoth |-> RestartBoth,
   halt |-> StopFlickerDetection, exit |-> StopFlickerDetection \o <<"end">>,
   velocity |-> StartFlickerDetection]
Size ==
  [stopCard |-> 10, restartCard |-> 7, stopSibling |-> 6, restartSibling |-> 6,
   stopBoth |-> 4, restartBoth |-> 3, halt |-> 12, exit |-> 13, velocity |-> 18]
Rest(c, k) == SubSeq(c, k, Len(c))
Place(p, k) == Rest(Program[p], k)
\* Where a program goes on at the latest when place k is reached, and after a failure.
Pass(p, k) ==
  CASE p \in Halts /\ k = 12 -> 13
    [] p = "velocity" /\ k \in {9, 16} -> k + 1
    [] OTHER -> k
Caught(p, k) ==
  CASE p \in Halts -> 13
    [] p = "velocity" /\ k <= 9 -> 10
    [] p = "velocity" /\ k > 9 -> 17
    [] OTHER -> Size[p] + 1

\* Every program is a sequence of its size.
LEMMA ProgramSizes ==
  ASSUME NEW p \in Programs
  PROVE  Program[p] \in Seq(Stages) /\ Len(Program[p]) = Size[p] /\ Size[p] \in Nat
<1>1. StopCard \in Seq(Stages) /\ Len(StopCard) = 10
  BY DEF StopCard, StopThread, Stages
<1>2. RestartCard \in Seq(Stages) /\ Len(RestartCard) = 7
  BY DEF RestartCard, Stages
<1>3. StopSibling \in Seq(Stages) /\ Len(StopSibling) = 6
  BY DEF StopSibling, Stages
<1>4. RestartSibling \in Seq(Stages) /\ Len(RestartSibling) = 6
  BY DEF RestartSibling, Stages
<1>5. StopFlickerDetection \in Seq(Stages) /\ Len(StopFlickerDetection) = 12
  BY DEF StopFlickerDetection, StopThread, Stages
<1>6. /\ StopFlickerDetection \o <<"end">> \in Seq(Stages)
      /\ Len(StopFlickerDetection \o <<"end">>) = 13
  BY DEF StopFlickerDetection, StopThread, Stages
<1>7. StartFlickerDetection \in Seq(Stages) /\ Len(StartFlickerDetection) = 18
  BY DEF StartFlickerDetection, InitializeDriver, StartVideoCapture, Stages
<1>8. p \in {"stopCard", "restartCard", "stopSibling", "restartSibling", "stopBoth", "restartBoth",
             "halt", "exit", "velocity"}
  BY DEF Programs, CommandPrograms, Halts, Siblings
<1>16. StopBoth \in Seq(Stages) /\ Len(StopBoth) = 4
  BY DEF StopBoth, Stages
<1>17. RestartBoth \in Seq(Stages) /\ Len(RestartBoth) = 3
  BY DEF RestartBoth, Stages
<1>9. CASE p = "stopCard"
  <2>1. Program[p] = StopCard /\ Size[p] = 10
    BY <1>9 DEF Program, Size
  <2> QED
    BY <1>1, <2>1
<1>10. CASE p = "restartCard"
  <2>1. Program[p] = RestartCard /\ Size[p] = 7
    BY <1>10 DEF Program, Size
  <2> QED
    BY <1>2, <2>1
<1>11. CASE p = "stopSibling"
  <2>1. Program[p] = StopSibling /\ Size[p] = 6
    BY <1>11 DEF Program, Size
  <2> QED
    BY <1>3, <2>1
<1>12. CASE p = "restartSibling"
  <2>1. Program[p] = RestartSibling /\ Size[p] = 6
    BY <1>12 DEF Program, Size
  <2> QED
    BY <1>4, <2>1
<1>13. CASE p = "halt"
  <2>1. Program[p] = StopFlickerDetection /\ Size[p] = 12
    BY <1>13 DEF Program, Size
  <2> QED
    BY <1>5, <2>1
<1>14. CASE p = "exit"
  <2>1. Program[p] = StopFlickerDetection \o <<"end">> /\ Size[p] = 13
    BY <1>14 DEF Program, Size
  <2> QED
    BY <1>6, <2>1
<1>15. CASE p = "velocity"
  <2>1. Program[p] = StartFlickerDetection /\ Size[p] = 18
    BY <1>15 DEF Program, Size
  <2> QED
    BY <1>7, <2>1
<1>18. CASE p = "stopBoth"
  <2>1. Program[p] = StopBoth /\ Size[p] = 4
    BY <1>18 DEF Program, Size
  <2> QED
    BY <1>16, <2>1
<1>19. CASE p = "restartBoth"
  <2>1. Program[p] = RestartBoth /\ Size[p] = 3
    BY <1>19 DEF Program, Size
  <2> QED
    BY <1>17, <2>1
<1> QED
  BY <1>8, <1>9, <1>10, <1>11, <1>12, <1>13, <1>14, <1>15, <1>18, <1>19

\* Where a command or the shutdown is, by the name of its stage.
LEMMA ControlStages ==
  ASSUME NEW p \in CommandPrograms \cup Halts, NEW k \in 1 .. Size[p]
  PROVE  LET s == Program[p][k]
         IN /\ s = "clear" => (p = "stopCard" /\ k = 1) \/ (p \in Halts /\ k = 6)
            /\ s = "joinWorker" => (p = "stopCard" /\ k = 2) \/ (p \in Halts /\ k = 7)
            /\ s = "stopDisplay" => (p = "stopCard" /\ k = 3) \/ (p \in Halts /\ k = 8)
            /\ s = "joinDisplay" => (p = "stopCard" /\ k = 4) \/ (p \in Halts /\ k = 9)
            /\ s = "flowOff" => \/ p = "stopCard" /\ k = 5
                                \/ p \in {"restartCard"} \cup Siblings /\ k = 1
                                \/ p = "stopBoth" /\ k = 3
                                \/ p \in Halts /\ k = 3
            /\ s = "sleep" => \/ p = "stopCard" /\ k \in {6, 10}
                              \/ p = "restartCard" /\ k \in {2, 7}
                              \/ p \in Siblings /\ k \in {2, 6}
                              \/ p = "stopBoth" /\ k = 4
                              \/ p = "restartBoth" /\ k = 3
                              \/ p \in Halts /\ k = 4
            /\ s = "release" => (p = "stopCard" /\ k = 7) \/ (p \in Halts /\ k = 10)
            /\ s = "releaseCard" => (p = "stopSibling" /\ k = 3) \/ (p = "stopBoth" /\ k = 1)
            /\ s = "free" => p = "stopCard" /\ k = 8
            /\ s = "flowOn" => \/ p = "stopCard" /\ k = 9
                               \/ p = "restartCard" /\ k = 6
                               \/ p \in Siblings /\ k = 5
                               \/ p = "restartBoth" /\ k = 2
            /\ s = "alloc" => p = "restartCard" /\ k = 3
            /\ s = "writers" => p \in {"restartCard", "restartSibling"} /\ k = 4
            /\ s = "start" => p = "restartCard" /\ k = 5
            /\ s = "freeSibling" => p = "stopSibling" /\ k = 4
            /\ s = "allocSibling" => p = "restartSibling" /\ k = 3
            /\ s = "halt" => p \in Halts /\ k = 1
            /\ s = "ifFlow" => \/ p = "stopBoth" /\ k = 2
                               \/ p = "restartBoth" /\ k = 1
                               \/ p \in Halts /\ k = 2
            /\ s = "ifThreads" => p \in Halts /\ k = 5
            /\ s = "close" => p \in Halts /\ k = 11
            /\ s = "end" => p = "exit" /\ k = 13
            /\ (s = "catch") <=> (p \in Halts /\ k = 12)
            /\ s \notin {"open", "configure", "loop", "check"}
<1> USE DEF Program, Size
<1>1. CASE p = "stopCard"
  <2> DEFINE f == StopCard
  <2>1. /\ f[1] = "clear" /\ f[2] = "joinWorker" /\ f[3] = "stopDisplay"
        /\ f[4] = "joinDisplay" /\ f[5] = "flowOff" /\ f[6] = "sleep"
        /\ f[7] = "release" /\ f[8] = "free" /\ f[9] = "flowOn" /\ f[10] = "sleep"
    BY DEF StopCard, StopThread
  <2> HIDE DEF f
  <2>2. Program[p][k] = f[k] /\ k \in 1 .. 10
    BY <1>1 DEF f
  <2>3. k \in {1, 2, 3, 4, 5, 6, 7, 8, 9, 10}
    BY <2>2
  <2> HIDE DEF Program, Size
  <2> QED
    BY <1>1, <2>1, <2>2, <2>3 DEF Halts, Siblings
<1>2. CASE p = "restartCard"
  BY <1>2 DEF RestartCard, Halts, Siblings
<1>3. CASE p = "stopSibling"
  <2> DEFINE f == StopSibling
  <2>1. /\ f[1] = "flowOff" /\ f[2] = "sleep" /\ f[3] = "releaseCard"
        /\ f[4] = "freeSibling" /\ f[5] = "flowOn" /\ f[6] = "sleep"
    BY DEF StopSibling
  <2> HIDE DEF f
  <2>2. Program[p][k] = f[k] /\ k \in 1 .. 6
    BY <1>3 DEF f
  <2>3. k \in {1, 2, 3, 4, 5, 6}
    BY <2>2
  <2> HIDE DEF Program, Size
  <2> QED
    BY <1>3, <2>1, <2>2, <2>3 DEF Halts, Siblings
<1>4. CASE p = "restartSibling"
  <2> DEFINE f == RestartSibling
  <2>1. /\ f[1] = "flowOff" /\ f[2] = "sleep" /\ f[3] = "allocSibling"
        /\ f[4] = "writers" /\ f[5] = "flowOn" /\ f[6] = "sleep"
    BY DEF RestartSibling
  <2> HIDE DEF f
  <2>2. Program[p][k] = f[k] /\ k \in 1 .. 6
    BY <1>4 DEF f
  <2>3. k \in {1, 2, 3, 4, 5, 6}
    BY <2>2
  <2> HIDE DEF Program, Size
  <2> QED
    BY <1>4, <2>1, <2>2, <2>3 DEF Halts, Siblings
<1>5. CASE p \in Halts
  <2>1. ASSUME NEW j \in 1 .. 12
        PROVE  /\ Program["exit"][j] = StopFlickerDetection[j] 
               /\ Program["halt"][j] = StopFlickerDetection[j]
    BY DEF StopFlickerDetection, StopThread
  <2>2. Program["exit"][13] = "end"
    BY DEF StopFlickerDetection, StopThread
  <2>3. CASE k = 13
    <3>1. p = "exit"
      BY <1>5, <2>3 DEF Halts
    <3> HIDE DEF Program
    <3> QED
      BY <3>1, <2>2, <2>3 DEF Halts, Siblings
  <2>4. CASE k \in 1 .. 12
    <3> DEFINE f == StopFlickerDetection
    <3>1. /\ f[1] = "halt" /\ f[2] = "ifFlow" /\ f[3] = "flowOff" /\ f[4] = "sleep"
          /\ f[5] = "ifThreads" /\ f[6] = "clear" /\ f[7] = "joinWorker"
          /\ f[8] = "stopDisplay" /\ f[9] = "joinDisplay" /\ f[10] = "release"
          /\ f[11] = "close" /\ f[12] = "catch"
      BY DEF StopFlickerDetection, StopThread
    <3> HIDE DEF f
    <3>2. Program[p][k] = f[k]
      BY <1>5, <2>1, <2>4 DEF Halts, f
    <3>3. k \in {1, 2, 3, 4, 5, 6, 7, 8, 9, 10, 11, 12}
      BY <2>4
    <3> HIDE DEF Program
    <3> QED
      BY <1>5, <3>1, <3>2, <3>3 DEF Halts, Siblings
  <2> QED
    BY <1>5, <2>3, <2>4 DEF Halts
<1>6. CASE p = "stopBoth"
  BY <1>6 DEF StopBoth, Halts, Siblings
<1>7. CASE p = "restartBoth"
  BY <1>7 DEF RestartBoth, Halts, Siblings
<1> QED
  BY <1>1, <1>2, <1>3, <1>4, <1>5, <1>6, <1>7 DEF CommandPrograms, Siblings

\* Where the velocity thread is.
LEMMA VelocityStages ==
  ASSUME NEW v \in 1 .. 18
  PROVE  LET s == Program["velocity"][v]
         IN /\ s = "open" => v = 2
            /\ s = "flowOff" => v = 3
            /\ s = "sleep" => v \in {4, 11, 15}
            /\ s = "configure" => v \in {5, 7}
            /\ s = "alloc" => v = 6
            /\ s = "start" => v = 8
            /\ (s = "catch") <=> (v \in {9, 16})
            /\ s = "writers" => v = 12
            /\ s = "ifFlow" => v = 13
            /\ s = "flowOn" => v = 14
            /\ (s = "loop") <=> (v = 17)
            /\ s = "check" => v \in {1, 10, 18}
            /\ s \notin {"clear", "joinWorker", "stopDisplay", "joinDisplay", "release",
                         "releaseCard", "free", "freeSibling", "allocSibling", "halt",
                         "ifThreads", "close", "end"}
<1> DEFINE f == StartFlickerDetection
<1>1. /\ f[1] = "check" /\ f[2] = "open" /\ f[3] = "flowOff" /\ f[4] = "sleep"
      /\ f[5] = "configure" /\ f[6] = "alloc" /\ f[7] = "configure" /\ f[8] = "start"
      /\ f[9] = "catch" /\ f[10] = "check" /\ f[11] = "sleep" /\ f[12] = "writers"
      /\ f[13] = "ifFlow" /\ f[14] = "flowOn" /\ f[15] = "sleep" /\ f[16] = "catch"
      /\ f[17] = "loop" /\ f[18] = "check"
  BY DEF StartFlickerDetection, InitializeDriver, StartVideoCapture
<1> HIDE DEF f
<1>2. Program["velocity"][v] = f[v]
  BY DEF Program, f
<1>3. v \in {1, 2, 3, 4, 5, 6, 7, 8, 9, 10, 11, 12, 13, 14, 15, 16, 17, 18}
  OBVIOUS
<1> QED
  BY <1>1, <1>2, <1>3

\* The rest of a sequence begins with its place, and is gone through from there.
LEMMA RestOf ==
  ASSUME NEW c \in Seq(Stages), NEW k \in 1 .. Len(c) + 1
  PROVE  /\ Rest(c, k) \in Seq(Stages) /\ Len(Rest(c, k)) = Len(c) + 1 - k
         /\ (Rest(c, k) = <<>>) <=> (k = Len(c) + 1)
         /\ k <= Len(c) => Head(Rest(c, k)) = c[k] /\ Tail(Rest(c, k)) = Rest(c, k + 1)
         /\ DOMAIN Rest(c, k) = 1 .. Len(c) + 1 - k
         /\ \A j \in DOMAIN Rest(c, k) : Rest(c, k)[j] = c[k + j - 1]
<1>1. Rest(c, k) \in Seq(Stages) /\ Len(Rest(c, k)) = Len(c) + 1 - k
  BY DEF Rest
<1>2. /\ DOMAIN Rest(c, k) = 1 .. Len(c) + 1 - k
      /\ \A j \in 1 .. Len(c) + 1 - k : Rest(c, k)[j] = c[k + j - 1]
  BY <1>1 DEF Rest
<1>3. (Rest(c, k) = <<>>) <=> (k = Len(c) + 1)
  BY <1>1
<1>4. ASSUME k <= Len(c)
      PROVE  Head(Rest(c, k)) = c[k] /\ Tail(Rest(c, k)) = Rest(c, k + 1)
  <2>1. Head(Rest(c, k)) = c[k]
    BY <1>1, <1>2, <1>4
  <2>2. Tail(Rest(c, k)) = Rest(c, k + 1)
    BY <1>4 DEF Rest
  <2> QED
    BY <2>1, <2>2
<1> QED
  BY <1>1, <1>2, <1>3, <1>4

LEMMA RestOfRest ==
  ASSUME NEW c \in Seq(Stages), NEW k \in 1 .. Len(c), NEW n \in Nat, k + n <= Len(c) + 1
  PROVE  SubSeq(Rest(c, k), n + 1, Len(Rest(c, k))) = Rest(c, k + n)
  BY DEF Rest

LEMMA AfterRest ==
  ASSUME NEW c \in Seq(Stages), NEW k \in 1 .. Len(c), NEW n \in Nat, k + n <= Len(c) + 1
  PROVE  After(Rest(c, k), n) =
           IF k + n <= Len(c) /\ c[k + n] = "catch" THEN Rest(c, k + n + 1) ELSE Rest(c, k + n)
<1>1. SubSeq(Rest(c, k), n + 1, Len(Rest(c, k))) = Rest(c, k + n)
  BY RestOfRest
<1>2. k + n \in 1 .. Len(c) + 1
  OBVIOUS
<1>3. /\ (Rest(c, k + n) = <<>>) <=> (k + n = Len(c) + 1)
      /\ k + n <= Len(c) => /\ Head(Rest(c, k + n)) = c[k + n]
                           /\ Tail(Rest(c, k + n)) = Rest(c, k + n + 1)
  BY <1>2, RestOf
<1>4. After(Rest(c, k), n) =
        IF Rest(c, k + n) # <<>> /\ Head(Rest(c, k + n)) = "catch" THEN Tail(Rest(c, k + n))
                                                                 ELSE Rest(c, k + n)
  BY <1>1, Zenon DEF After
<1>5. CASE k + n = Len(c) + 1
  BY <1>3, <1>4, <1>5
<1>6. CASE k + n <= Len(c)
  <2>1. k + n # Len(c) + 1
    BY <1>6
  <2> QED
    BY <1>3, <1>4, <1>6, <2>1, Zenon
<1> QED
  BY <1>5, <1>6

\* The first "catch" of the rest.
LEMMA AfterCatchRest ==
  ASSUME NEW c \in Seq(Stages), NEW k \in 1 .. Len(c), NEW m \in k .. Len(c), c[m] = "catch",
         \A j \in k .. m - 1 : c[j] # "catch"
  PROVE  AfterCatch(Rest(c, k)) = Rest(c, m + 1)
<1> DEFINE r == Rest(c, k)
           catches == {j \in DOMAIN r : r[j] = "catch"}
           least(f) == f \in catches /\ \A j \in catches : f <= j
<1>1. DOMAIN r = 1 .. Len(c) + 1 - k /\ \A j \in DOMAIN r : r[j] = c[k + j - 1]
  BY RestOf
<1>2. least(m - k + 1)
  <2>1. m - k + 1 \in catches
    BY <1>1
  <2>2. ASSUME NEW j \in catches
        PROVE  m - k + 1 <= j
    <3>1. j \in 1 .. Len(c) + 1 - k /\ c[k + j - 1] = "catch"
      BY <1>1
    <3>2. ~(k + j - 1 \in k .. m - 1)
      BY <3>1
    <3> QED
      BY <3>1, <3>2
  <2> QED
    BY <2>1, <2>2
<1>3. ASSUME NEW f, least(f)
      PROVE  f = m - k + 1
  <2>1. f \in Nat /\ f <= m - k + 1 /\ m - k + 1 <= f
    BY <1>1, <1>2, <1>3
  <2> QED
    BY <2>1
<1>4. (CHOOSE f \in catches : \A j \in catches : f <= j) = m - k + 1
  BY <1>2, <1>3
<1>5. AfterCatch(r) = SubSeq(r, m - k + 1 + 1, Len(r))
  BY <1>2, <1>4 DEF AfterCatch
<1>6. SubSeq(r, m - k + 1 + 1, Len(r)) = Rest(c, m + 1)
  <2> DEFINE n == m - k + 1
  <2>1. n \in Nat /\ k + n <= Len(c) + 1 /\ k + n = m + 1
    OBVIOUS
  <2> HIDE DEF n
  <2>2. SubSeq(r, n + 1, Len(r)) = Rest(c, k + n)
    BY <2>1, RestOfRest
  <2> QED
    BY <2>1, <2>2 DEF n
<1> QED
  BY <1>5, <1>6

LEMMA NoCatchRest ==
  ASSUME NEW c \in Seq(Stages), NEW k \in 1 .. Len(c), \A j \in k .. Len(c) : c[j] # "catch"
  PROVE  AfterCatch(Rest(c, k)) = <<>>
<1>1. {j \in DOMAIN Rest(c, k) : Rest(c, k)[j] = "catch"} = {}
  <2>1. /\ DOMAIN Rest(c, k) = 1 .. Len(c) + 1 - k
        /\ \A j \in DOMAIN Rest(c, k) : Rest(c, k)[j] = c[k + j - 1]
    BY RestOf
  <2>2. \A j \in 1 .. Len(c) + 1 - k : k + j - 1 \in k .. Len(c)
    OBVIOUS
  <2> QED
    BY <2>1, <2>2
<1> QED
  BY <1>1 DEF AfterCatch

----------------------------------------------------------------------------
(* The controlling threads of a channel.                                   *)

\* Thread t is at place k of program p.
Doing(t, p, k) == k \in 1 .. Size[p] + 1 /\ todo[t] = Place(p, k)

LEMMA DoingStage ==
  ASSUME NEW t, NEW p \in Programs, NEW k, NEW stage, Doing(t, p, k)
  PROVE  /\ At(t, stage) => k \in 1 .. Size[p] /\ Program[p][k] = stage
         /\ todo[t] = <<>> <=> k = Size[p] + 1
<1>1. /\ Program[p] \in Seq(Stages) /\ Len(Program[p]) = Size[p] /\ Size[p] \in Nat
      /\ k \in 1 .. Len(Program[p]) + 1
  BY ProgramSizes DEF Doing
<1>2. /\ (Rest(Program[p], k) = <<>>) <=> (k = Len(Program[p]) + 1)
      /\ k <= Len(Program[p]) => Head(Rest(Program[p], k)) = Program[p][k]
  BY <1>1, RestOf
<1> QED
  BY <1>1, <1>2 DEF Doing, Place, At

LEMMA SizeRanges ==
  /\ \A p \in CommandPrograms : Size[p] \in 3 .. 10
  /\ \A p \in Halts : Size[p] \in 12 .. 13
  /\ Size["velocity"] = 18
  BY DEF Size, CommandPrograms, Halts, Siblings

\* Where a thread goes on.
LEMMA DoingSkip ==
  ASSUME NEW t \in Threads, NEW p \in Programs, NEW k \in 1 .. Size[p], Doing(t, p, k),
         NEW n \in Nat, k + n <= Size[p] + 1, todo \in [Threads -> Seq(Stages)], Skip(t, n)
  PROVE  /\ todo' = [todo EXCEPT ![t] = Place(p, Pass(p, k + n))]
         /\ Pass(p, k + n) \in 1 .. Size[p] + 1
<1>1. Program[p] \in Seq(Stages) /\ Len(Program[p]) = Size[p] /\ Size[p] \in Nat
  BY ProgramSizes
<1>2. todo[t] = Rest(Program[p], k)
  BY DEF Doing, Place
<1>3. After(todo[t], n) = IF k + n <= Size[p] /\ Program[p][k + n] = "catch"
                             THEN Rest(Program[p], k + n + 1) ELSE Rest(Program[p], k + n)
  BY <1>1, <1>2, AfterRest
<1>4. /\ k + n <= Size[p] => (Program[p][k + n] = "catch" <=> Pass(p, k + n) # k + n)
      /\ Pass(p, k + n) \in {k + n, k + n + 1}
      /\ k + n > Size[p] => Pass(p, k + n) = k + n
  <2>1. CASE p = "velocity"
    <3>1. k + n <= 18 => (Program[p][k + n] = "catch" <=> k + n \in {9, 16})
      <4>1. k + n <= 18 => k + n \in 1 .. 18
        OBVIOUS
      <4> QED
        BY <2>1, <4>1, VelocityStages
    <3>2. p \notin Halts
      BY <2>1 DEF Halts
    <3> QED
      BY <2>1, <3>1, <3>2, SizeRanges DEF Pass
  <2>2. CASE p \in CommandPrograms \cup Halts
    <3>1. k + n <= Size[p] => (Program[p][k + n] = "catch" <=> (p \in Halts /\ k + n = 12))
      <4>1. k + n <= Size[p] => k + n \in 1 .. Size[p]
        BY <1>1
      <4> QED
        BY <2>2, <4>1, ControlStages
    <3>2. p # "velocity"
      BY <2>2 DEF CommandPrograms, Halts, Siblings
    <3> QED
      BY <2>2, <3>1, <3>2, SizeRanges, <1>1 DEF Pass
  <2> QED
    BY <2>1, <2>2 DEF Programs
<1>5. After(todo[t], n) = Place(p, Pass(p, k + n))
  BY <1>1, <1>3, <1>4 DEF Place
<1>6. Pass(p, k + n) \in 1 .. Size[p] + 1
  BY <1>1, <1>4
<1> QED
  BY <1>5, <1>6 DEF Skip

LEMMA DoingThrow ==
  ASSUME NEW t \in Threads, NEW p \in Programs, NEW k \in 1 .. Size[p], Doing(t, p, k),
         ~(p \in Halts /\ k > 12), ~(p = "velocity" /\ k > 16),
         todo \in [Threads -> Seq(Stages)], Throw(t)
  PROVE  /\ todo' = [todo EXCEPT ![t] = Place(p, Caught(p, k))]
         /\ Caught(p, k) \in 1 .. Size[p] + 1
<1>1. Program[p] \in Seq(Stages) /\ Len(Program[p]) = Size[p] /\ Size[p] \in Nat
  BY ProgramSizes
<1>2. todo[t] = Rest(Program[p], k)
  BY DEF Doing, Place
<1>3. AfterCatch(todo[t]) = Place(p, Caught(p, k))
  <2>1. CASE p = "velocity"
    <3>1. Size[p] = 18 /\ p \notin Halts /\ k \in 1 .. 16
      BY <2>1, SizeRanges DEF Halts
    <3>2. \A j \in 1 .. 18 : (Program[p][j] = "catch") <=> (j \in {9, 16})
      BY <2>1, VelocityStages
    <3>3. CASE k <= 9
      <4>1. 9 \in k .. Size[p] /\ Caught(p, k) = 10
        BY <2>1, <3>1, <3>3 DEF Caught
      <4>2. \A j \in k .. 9 - 1 : j \in 1 .. 18 /\ j \notin {9, 16}
        BY <3>1, <3>3
      <4>3. Program[p][9] = "catch" /\ \A j \in k .. 9 - 1 : Program[p][j] # "catch"
        <5>1. Program[p][9] = "catch"
          BY <3>2
        <5>2. \A j \in k .. 9 - 1 : Program[p][j] # "catch"
          BY <3>2, <4>2
        <5> QED
          BY <5>1, <5>2
      <4>4. AfterCatch(Rest(Program[p], k)) = Rest(Program[p], 9 + 1)
        BY <1>1, <4>1, <4>3, AfterCatchRest
      <4> QED
        BY <1>2, <4>1, <4>4 DEF Place
    <3>4. CASE k > 9
      <4>1. 16 \in k .. Size[p] /\ Caught(p, k) = 17
        BY <2>1, <3>1, <3>4 DEF Caught
      <4>2. \A j \in k .. 16 - 1 : j \in 1 .. 18 /\ j \notin {9, 16}
        BY <3>1, <3>4
      <4>3. Program[p][16] = "catch" /\ \A j \in k .. 16 - 1 : Program[p][j] # "catch"
        BY <3>2, <4>2
      <4>4. AfterCatch(Rest(Program[p], k)) = Rest(Program[p], 16 + 1)
        BY <1>1, <4>1, <4>3, AfterCatchRest
      <4> QED
        BY <1>2, <4>1, <4>4 DEF Place
    <3> QED
      BY <3>1, <3>3, <3>4
  <2>2. CASE p \in Halts
    <3>1. /\ Size[p] \in 12 .. 13 /\ k \in 1 .. 12
          /\ \A j \in 1 .. Size[p] : (Program[p][j] = "catch") <=> (j = 12)
      <4>1. Size[p] \in 12 .. 13
        BY <2>2, SizeRanges
      <4>2. k \in 1 .. 12
        BY <2>2, <4>1
      <4>3. ASSUME NEW j \in 1 .. Size[p]
            PROVE  (Program[p][j] = "catch") <=> (j = 12)
        BY <2>2, ControlStages
      <4> QED
        BY <4>1, <4>2, <4>3
    <3>2. 12 \in k .. Size[p] /\ Program[p][12] = "catch"
      BY <3>1
    <3>3. \A j \in k .. 12 - 1 : Program[p][j] # "catch"
      BY <3>1
    <3>4. AfterCatch(Rest(Program[p], k)) = Rest(Program[p], 12 + 1)
      BY <1>1, <3>2, <3>3, AfterCatchRest
    <3>5. Caught(p, k) = 13
      BY <2>2 DEF Caught, Halts
    <3> QED
      BY <1>2, <3>4, <3>5 DEF Place
  <2>3. CASE p \in CommandPrograms
    <3>1. /\ p \notin Halts /\ p # "velocity"
          /\ \A j \in 1 .. Size[p] : Program[p][j] # "catch"
      BY <2>3, ControlStages DEF CommandPrograms, Halts, Siblings
    <3>2. \A j \in k .. Size[p] : Program[p][j] # "catch"
      BY <1>1, <3>1
    <3>3. AfterCatch(Rest(Program[p], k)) = <<>>
      BY <1>1, <3>2, NoCatchRest
    <3>4. Rest(Program[p], Size[p] + 1) = <<>>
      BY <1>1, RestOf
    <3>5. Caught(p, k) = Size[p] + 1
      BY <3>1 DEF Caught
    <3> QED
      BY <1>2, <3>3, <3>4, <3>5 DEF Place
  <2> QED
    BY <2>1, <2>2, <2>3 DEF Programs
<1>4. Caught(p, k) \in 1 .. Size[p] + 1
  <2>1. CASE p = "velocity"
    <3>1. Size[p] = 18 /\ p \notin Halts
      BY <2>1, SizeRanges DEF Halts
    <3> QED
      BY <2>1, <3>1 DEF Caught
  <2>2. CASE p \in Halts
    BY <2>2, SizeRanges DEF Caught
  <2>3. CASE p # "velocity" /\ p \notin Halts
    BY <1>1, <2>3 DEF Caught
  <2> QED
    BY <2>1, <2>2, <2>3
<1> QED
  BY <1>3, <1>4 DEF Throw

----------------------------------------------------------------------------
(* Types.                                                                  *)

CardTypes ==
  /\ driver \in BOOLEAN /\ flow \in BOOLEAN /\ mem \in BOOLEAN /\ sibling \in BOOLEAN
  /\ video \in BOOLEAN /\ epoch \in Nat
ProcessTypes ==
  /\ run \in BOOLEAN /\ halted \in BOOLEAN /\ running \in BOOLEAN
  /\ commands \in Nat /\ failures \in Nat /\ end \in {"none", "clean", "terminate"}
Workers ==
  [at : {"none", "created", "test", "check", "about", "wait", "handle", "ended"}, frame : Nat]
PipeTypes ==
  /\ queue \in Seq(Nat)
  /\ cb \in [at : {"idle", "dma", "push"}, frame : Nat]
  /\ wk \in Workers
  /\ dp \in {"none", "created", "write", "pop", "ended"}
  /\ shown \in Nat
Statistics == [first : BOOLEAN, prev : Nat, started : BOOLEAN, warm : BOOLEAN]
Histories == [masked : BOOLEAN, lost : BOOLEAN, overlap : BOOLEAN, late : SUBSET Nat]
DataTypes ==
  CardTypes /\ ProcessTypes /\ PipeTypes /\ ssim \in Statistics /\ history \in Histories

LEMMA DataTypesInit == Init => DataTypes
<1> SUFFICES ASSUME Init
             PROVE  DataTypes
  OBVIOUS
<1>1. CardTypes
  BY DEF Init, CardTypes
<1>2. ProcessTypes
  <2>1. run = TRUE /\ halted = FALSE /\ running = FALSE
    BY DEF Init
  <2>2. run \in BOOLEAN /\ halted \in BOOLEAN /\ running \in BOOLEAN
    BY <2>1, Zenon
  <2> QED
    BY <2>2 DEF Init, ProcessTypes
<1>3. PipeTypes
  BY DEF Init, NoFrame, PipeTypes, Workers
<1>4. ssim \in Statistics /\ history \in Histories
  BY DEF Init, Statistics, Histories
<1> QED
  BY <1>1, <1>2, <1>3, <1>4 DEF DataTypes

\* The callback, the worker and the display keep the types.
LEMMA PipeStepTypes ==
  ASSUME DataTypes,
         \/ CallbackEnter \/ CallbackDma \/ CallbackPush
         \/ WorkerRuns \/ ThreadWorkerTest \/ ThreadWorkerCheck \/ ThreadWorkerSleep \/ Handle
         \/ TenSeconds \/ DisplayTest \/ DisplayPop
  PROVE  DataTypes'
<1>1. CardTypes' /\ history' = history
  BY DEF DataTypes, CardTypes, CallbackEnter, CallbackDma, CallbackPush, WorkerRuns,
         ThreadWorkerTest, ThreadWorkerCheck, ThreadWorkerSleep, Handle, TenSeconds,
         DisplayTest, DisplayPop, cardVars
<1>2. ProcessTypes'
  <2>1. UNCHANGED processVars /\ failures' \in Nat
    BY DEF DataTypes, ProcessTypes, CallbackEnter, CallbackDma, CallbackPush, WorkerRuns,
           ThreadWorkerTest, ThreadWorkerCheck, ThreadWorkerSleep, Handle, TenSeconds,
           DisplayTest, DisplayPop, processVars, Fails
  <2>2. running' \in BOOLEAN
    <3>1. CASE WorkerRuns
      BY <3>1 DEF WorkerRuns
    <3>2. CASE ~WorkerRuns
      BY <3>2 DEF DataTypes, ProcessTypes, CallbackEnter, CallbackDma, CallbackPush,
             ThreadWorkerTest, ThreadWorkerCheck, ThreadWorkerSleep, Handle, TenSeconds,
             DisplayTest, DisplayPop
    <3> QED
      BY <3>1, <3>2
  <2> QED
    BY <2>1, <2>2 DEF DataTypes, ProcessTypes, processVars
<1>3. ssim' \in Statistics
  <2>1. CASE Handle
    BY <2>1 DEF Handle, CalculateSSIM, DataTypes, PipeTypes, Statistics, Workers
  <2>2. CASE TenSeconds
    BY <2>2 DEF TenSeconds, DataTypes, Statistics
  <2>3. CASE ~(Handle \/ TenSeconds)
    BY <2>3 DEF DataTypes, CallbackEnter, CallbackDma, CallbackPush, WorkerRuns,
           ThreadWorkerTest, ThreadWorkerCheck, ThreadWorkerSleep, DisplayTest, DisplayPop, workVars
  <2> QED
    BY <2>1, <2>2, <2>3
<1>4. PipeTypes'
  <2> USE DEF DataTypes, PipeTypes, Workers, pipeVars, workVars, showVars
  <2>1. CASE CallbackEnter \/ CallbackDma
    <3>1. cb' \in [at : {"idle", "dma", "push"}, frame : Nat]
      <4>1. CASE CallbackEnter
        BY <4>1 DEF CallbackEnter, CardTypes
      <4>2. CASE CallbackDma
        <5>1. cb' = NoFrame \/ cb' = [cb EXCEPT !.at = "push"]
          BY <4>2 DEF CallbackDma
        <5> QED
          BY <5>1 DEF NoFrame
      <4> QED
        BY <2>1, <4>1, <4>2
    <3> QED
      BY <2>1, <3>1 DEF CallbackEnter, CallbackDma
  <2>2. CASE CallbackPush
    <3>1. queue' \in Seq(Nat) /\ cb' \in [at : {"idle", "dma", "push"}, frame : Nat]
      BY <2>2 DEF CallbackPush, NoFrame
    <3>2. wk' \in Workers
      BY <2>2 DEF CallbackPush
    <3> QED
      BY <2>2, <3>1, <3>2 DEF CallbackPush
  <2>3. CASE WorkerRuns \/ ThreadWorkerTest \/ ThreadWorkerSleep
    BY <2>3 DEF WorkerRuns, ThreadWorkerTest, ThreadWorkerSleep
  <2>4. CASE ThreadWorkerCheck
    <3>1. CASE queue # <<>>
      <4>1. Head(queue) \in Nat /\ Tail(queue) \in Seq(Nat)
        BY <3>1
      <4>2. wk' = [at |-> "handle", frame |-> Head(queue)] /\ queue' = Tail(queue)
        BY <2>4, <3>1 DEF ThreadWorkerCheck
      <4>3. UNCHANGED <<cb, dp, shown>>
        BY <2>4 DEF ThreadWorkerCheck
      <4> QED
        BY <4>1, <4>2, <4>3
    <3>2. CASE queue = <<>>
      BY <2>4, <3>2 DEF ThreadWorkerCheck
    <3> QED
      BY <3>1, <3>2
  <2>5. CASE Handle \/ TenSeconds
    BY <2>5 DEF Handle, TenSeconds
  <2>6. CASE DisplayTest \/ DisplayPop
    BY <2>6 DEF DisplayTest, DisplayPop
  <2> QED
    BY <2>1, <2>2, <2>3, <2>4, <2>5, <2>6
<1> QED
  BY <1>1, <1>2, <1>3, <1>4 DEF DataTypes

\* So do the stages.
LEMMA StageTypes ==
  ASSUME DataTypes, NEW t \in Threads, StageStep(t)
  PROVE  DataTypes'
<1>0. \/ OpenDriver(t) \/ Configure(t) \/ ConfigureDriverOff(t) \/ ConfigureDriverOn(t)
      \/ SleepOneSecond(t) \/ IfOpen(t) \/ AllocateMemoryBuffers(t) \/ DeAllocateMemoryBuffers(t)
      \/ SiblingBuffers(t) \/ InitializeVideoWriters(t) \/ VideoWritersRelease(t)
      \/ StartThread(t) \/ StopThreadClear(t) \/ StopThreadJoin(t)
      \/ StopDisplayThread(t) \/ StopDisplayThreadJoin(t)
      \/ CloseCard(t) \/ Halt(t) \/ LeaveLoop(t) \/ CheckReturnCode(t) \/ ExitProcess(t)
  BY DEF StageStep, StartCard1Channel1Thread, StartCard1Channel2Thread,
         StartCard2Channel1Thread, StartCard2Channel2Thread
<1>1. failures' \in Nat
  <2>1. failures' = failures \/ Fails
    BY <1>0 DEF OpenDriver, Configure, ConfigureDriverOff, ConfigureDriverOn, SleepOneSecond,
      IfOpen, AllocateMemoryBuffers, DeAllocateMemoryBuffers, SiblingBuffers,
      InitializeVideoWriters, VideoWritersRelease, StartThread, StopThreadClear,
      StopThreadJoin, StopDisplayThread, StopDisplayThreadJoin, CloseCard, Halt, LeaveLoop,
      CheckReturnCode, ExitProcess
  <2> QED
    BY <2>1 DEF Fails, DataTypes, ProcessTypes
<1>2. CardTypes'
  <2> USE DEF DataTypes, CardTypes, cardVars
  <2>1. CASE OpenDriver(t)
    BY <2>1 DEF OpenDriver
  <2>2. CASE ConfigureDriverOff(t)
    <3>1. UNCHANGED <<driver, mem, sibling, video>>
      BY <2>2 DEF ConfigureDriverOff
    <3>2. flow' = FALSE \/ flow' = flow
      BY <2>2 DEF ConfigureDriverOff
    <3>3. flow' \in BOOLEAN
      BY <3>2, Zenon
    <3>4. epoch' \in Nat
      BY <2>2 DEF ConfigureDriverOff
    <3> QED
      BY <3>1, <3>3, <3>4
  <2>3. CASE ConfigureDriverOn(t)
    BY <2>3 DEF ConfigureDriverOn
  <2>4. CASE AllocateMemoryBuffers(t)
    BY <2>4 DEF AllocateMemoryBuffers
  <2>5. CASE DeAllocateMemoryBuffers(t)
    BY <2>5 DEF DeAllocateMemoryBuffers
  <2>6. CASE SiblingBuffers(t)
    BY <2>6 DEF SiblingBuffers
  <2>7. CASE InitializeVideoWriters(t)
    BY <2>7 DEF InitializeVideoWriters
  <2>8. CASE VideoWritersRelease(t)
    BY <2>8 DEF VideoWritersRelease
  <2>9. CASE CloseCard(t)
    BY <2>9 DEF CloseCard
  <2>10. CASE UNCHANGED cardVars
    BY <2>10
  <2> QED
    BY <1>0, <2>1, <2>2, <2>3, <2>4, <2>5, <2>6, <2>7, <2>8, <2>9, <2>10
       DEF Configure, SleepOneSecond, IfOpen, StartThread, StopThreadClear, StopThreadJoin,
           StopDisplayThread, StopDisplayThreadJoin, Halt, LeaveLoop, CheckReturnCode, ExitProcess
<1>3. ProcessTypes'
  <2> USE DEF DataTypes, ProcessTypes, processVars
  <2>1. CASE StartThread(t)
    BY <1>1, <2>1 DEF StartThread
  <2>2. CASE StopThreadClear(t) \/ StopDisplayThread(t)
    <3>1. running' \in BOOLEAN
      BY <2>2 DEF StopThreadClear, StopDisplayThread
    <3> QED
      BY <1>1, <2>2, <3>1 DEF StopThreadClear, StopDisplayThread
  <2>3. CASE Halt(t)
    <3>1. run' \in BOOLEAN
      BY <2>3 DEF Halt
    <3> QED
      BY <1>1, <2>3, <3>1 DEF Halt
  <2>4. CASE ExitProcess(t)
    BY <1>1, <2>4 DEF ExitProcess
  <2>5. CASE UNCHANGED <<processVars, running>>
    BY <1>1, <2>5
  <2> QED
    BY <1>0, <2>1, <2>2, <2>3, <2>4, <2>5
       DEF OpenDriver, Configure, ConfigureDriverOff, ConfigureDriverOn, SleepOneSecond, IfOpen,
           AllocateMemoryBuffers, DeAllocateMemoryBuffers, SiblingBuffers, InitializeVideoWriters,
           VideoWritersRelease, StopThreadJoin, StopDisplayThreadJoin, CloseCard, LeaveLoop,
           CheckReturnCode
<1>4. PipeTypes'
  <2> USE DEF DataTypes, PipeTypes, pipeVars, workVars, showVars
  <2>1. CASE StartThread(t)
    <3>1. wk' \in Workers
      BY <2>1 DEF StartThread, Workers
    <3> QED
      BY <2>1, <3>1 DEF StartThread
  <2>2. CASE StopThreadClear(t)
    <3>1. wk' \in Workers
      BY <2>2 DEF StopThreadClear, Workers
    <3> QED
      BY <2>2, <3>1 DEF StopThreadClear
  <2>3. CASE StopThreadJoin(t)
    <3>1. wk' \in Workers
      BY <2>3 DEF StopThreadJoin, Workers
    <3> QED
      BY <2>3, <3>1 DEF StopThreadJoin
  <2>4. CASE StopDisplayThread(t)
    BY <2>4 DEF StopDisplayThread
  <2>5. CASE StopDisplayThreadJoin(t)
    BY <2>5 DEF StopDisplayThreadJoin
  <2>6. CASE UNCHANGED <<pipeVars, wk, showVars>>
    BY <2>6
  <2> QED
    BY <1>0, <2>1, <2>2, <2>3, <2>4, <2>5, <2>6
       DEF OpenDriver, Configure, ConfigureDriverOff, ConfigureDriverOn, SleepOneSecond, IfOpen,
           AllocateMemoryBuffers, DeAllocateMemoryBuffers, SiblingBuffers, InitializeVideoWriters,
           VideoWritersRelease, CloseCard, Halt, LeaveLoop, CheckReturnCode, ExitProcess
<1>5. ssim' \in Statistics /\ history' \in Histories
  <2> USE DEF DataTypes, Statistics, Histories
  <2>1. CASE ConfigureDriverOff(t)
    <3>1. LeftOver \in SUBSET Nat
      BY <2>1 DEF LeftOver, OnTheWay, PipeTypes, Workers
    <3>2. CASE ResetStatistics
      BY <3>1, <3>2 DEF ResetStatistics
    <3>3. CASE Masks /\ UNCHANGED ssim
      BY <3>3 DEF Masks
    <3> QED
      BY <2>1, <3>2, <3>3 DEF ConfigureDriverOff
  <2>2. CASE DeAllocateMemoryBuffers(t)
    BY <2>2 DEF DeAllocateMemoryBuffers, Masks
  <2>3. CASE StopThreadClear(t)
    BY <2>3 DEF StopThreadClear
  <2>4. CASE UNCHANGED <<ssim, history>>
    BY <2>4
  <2> QED
    BY <1>0, <2>1, <2>2, <2>3, <2>4
       DEF OpenDriver, Configure, ConfigureDriverOn, SleepOneSecond, IfOpen,
           AllocateMemoryBuffers, SiblingBuffers, InitializeVideoWriters,
           VideoWritersRelease, StartThread, StopThreadJoin, StopDisplayThread,
           StopDisplayThreadJoin, CloseCard, Halt, LeaveLoop, CheckReturnCode, ExitProcess,
           workVars
<1> QED
  BY <1>2, <1>3, <1>4, <1>5 DEF DataTypes

LEMMA MainTypes ==
  ASSUME DataTypes, ProcessCommands \/ StopAllSystemsOnce \/ DestroyDriverManager
  PROVE  DataTypes'
<1>1. UNCHANGED <<cardVars, pipeVars, workVars, showVars>>
  BY DEF ProcessCommands, StopAllSystemsOnce, DestroyDriverManager
<1>2. ProcessTypes'
  <2>1. halted' \in BOOLEAN
    <3>1. halted' = halted \/ halted' = TRUE
      BY DEF ProcessCommands, StopAllSystemsOnce, DestroyDriverManager, processVars
    <3>2. halted \in BOOLEAN
      BY DEF DataTypes, ProcessTypes
    <3> QED
      BY <3>1, <3>2, Zenon
  <2>2. UNCHANGED <<run, running, failures, end>>
    BY DEF ProcessCommands, StopAllSystemsOnce, DestroyDriverManager, processVars
  <2>3. commands' \in Nat
    BY DEF ProcessCommands, StopAllSystemsOnce, DestroyDriverManager, processVars,
           DataTypes, ProcessTypes
  <2> QED
    BY <2>1, <2>2, <2>3 DEF DataTypes, ProcessTypes
<1>3. history' \in Histories
  <2>1. StartsUp \in BOOLEAN
    BY Zenon DEF StartsUp
  <2> QED
    BY <2>1 DEF ProcessCommands, StopAllSystemsOnce, DestroyDriverManager, DataTypes, Histories
<1> QED
  BY <1>1, <1>2, <1>3 DEF DataTypes, CardTypes, PipeTypes, cardVars, pipeVars, workVars, showVars

----------------------------------------------------------------------------
(* The invariant of a channel.                                             *)

Controls == CommandPrograms \cup Halts

\* The velocity thread has its own program, and after a failed check a stop of its own: the
\* places of the stop are counted on from 20.
VPlace(v) == IF v <= 19 THEN Place("velocity", v) ELSE Place("halt", v - 19)

\* The controlling thread is at place k of program p, the velocity thread at place v.
Where(p, k, v) ==
  /\ p \in Controls /\ k \in 1 .. Size[p] + 1 /\ v \in 1 .. 32
  /\ todo = [t \in Threads |-> IF t = "velocity" THEN VPlace(v) ELSE Place(p, k)]

\* A command between the flow turned off and turned on again.
Quiet(p, k) ==
  \/ p = "stopCard" /\ k \in 6 .. 9
  \/ p = "restartCard" /\ k \in 2 .. 6
  \/ p \in Siblings /\ k \in 2 .. 5

\* Commands come when the velocity thread is in its loop or has given up, and so does the
\* stop unless it meets the start-up.
OrderInv(p, k, v) ==
  /\ p \in Halts <=> halted
  /\ ~halted => /\ ~history.overlap /\ v \notin 18 .. 19
                /\ v <= 17 => run
                /\ k <= Size[p] => v \in {17, 32}
  /\ halted /\ ~history.overlap => v >= 17
  /\ p \in Halts /\ k >= 2 => ~run
  /\ v \in 18 .. 19 \/ v >= 21 => ~run

\* Before the start-up has turned the flow on, no frame has been seen.
UntouchedInv(v) ==
  v <= 14 => /\ ~flow /\ cb.at = "idle" /\ queue = <<>> /\ wk.at # "handle"
             /\ ~ssim.started /\ ~ssim.warm /\ ssim.first

\* Where the worker and the display thread exist.
ThreadsInv(p, k, v) ==
  /\ dp # "none" => driver \/ history.overlap
  /\ v <= 8 => wk.at = "none" /\ dp = "none"
  /\ v \in 3 .. 8 => driver \/ history.overlap
  /\ p = "stopCard" /\ k \in 3 .. 10 => wk.at = "none"
  /\ p = "stopCard" /\ k \in 5 .. 10 => dp = "none"
  /\ (p \in Halts /\ k \in 10 .. 11) \/ v \in 29 .. 30 => dp = "none" \/ history.overlap

\* Between flow off and flow on no callback begins, and none transfers once a stop has
\* slept - as far as failures have been seen.
FlowInv(p, k, v) ==
  /\ flow => driver
  /\ Quiet(p, k) => driver /\ (~history.masked => ~flow)
  /\ cb.at = "dma" => driver \/ history.masked
  /\ ~history.masked =>
       /\ p = "stopCard" /\ k \in 7 .. 8 => cb.at = "idle"
       /\ (p \in Halts /\ k = 4) \/ v = 23 => ~flow \/ cb.at # "dma"
       /\ (p \in Halts /\ k \in 5 .. 11) \/ v \in 24 .. 30 => cb.at # "dma"

\* Frames come in the order of their runs, and none is of a run to come.
FrameAgeInv ==
  /\ \A f \in OnTheWay : f <= epoch
  /\ ~ssim.first => ssim.prev <= epoch
  /\ driver /\ ~flow => \A f \in OnTheWay : f < epoch
SortedInv ==
  /\ ~ssim.first => \A f \in OnTheWay : ssim.prev <= f
  /\ wk.at = "handle" => /\ \A i \in DOMAIN queue : wk.frame <= queue[i]
                         /\ cb.at # "idle" => wk.frame <= cb.frame
  /\ \A i, j \in DOMAIN queue : i < j => queue[i] <= queue[j]
  /\ cb.at # "idle" => \A i \in DOMAIN queue : queue[i] <= cb.frame

\* The frames that may still be compared.
Live == OnTheWay \cup (IF ssim.first THEN {} ELSE {ssim.prev})

\* While frames are compared, those of two runs can only be there together if the older
\* one was left over when the statistics were reset.
RunInv(p, k) ==
  ~history.masked =>
    /\ ~ssim.warm => ssim.first
    /\ ssim.warm => \A f \in Live : \A g \in Live : f < g => f \in history.late
    /\ ssim.warm /\ flow => \A f \in Live : f = epoch \/ f \in history.late
    /\ ssim.warm /\ driver /\ ~flow => Live \subseteq history.late
    /\ p = "stopCard" /\ k \in 6 .. 8 => ssim.first

ChannelInv(p, k, v) ==
  /\ OrderInv(p, k, v) /\ UntouchedInv(v) /\ ThreadsInv(p, k, v)
  /\ FlowInv(p, k, v) /\ FrameAgeInv /\ SortedInv /\ RunInv(p, k)

CaptureInv ==
  DataTypes /\ \E p \in Controls : \E k, v \in Nat : Where(p, k, v) /\ ChannelInv(p, k, v)

----------------------------------------------------------------------------
(* How the threads move.                                                   *)

\* Programs from their beginnings.
LEMMA Whole ==
  /\ \A p \in Programs : Place(p, 1) = Program[p]
  /\ \A p \in Programs : Place(p, Size[p] + 1) = <<>>
  /\ Place("exit", 13) = <<"end">>
<1>1. ASSUME NEW p \in Programs
      PROVE  Place(p, 1) = Program[p] /\ Place(p, Size[p] + 1) = <<>>
  <2>1. Program[p] \in Seq(Stages) /\ Len(Program[p]) = Size[p] /\ Size[p] \in Nat
    BY ProgramSizes
  <2>2. Rest(Program[p], 1) = Program[p]
    BY <2>1 DEF Rest
  <2>3. Rest(Program[p], Size[p] + 1) = <<>>
    BY <2>1, RestOf
  <2> QED
    BY <2>2, <2>3 DEF Place
<1>2. Place("exit", 13) = <<"end">>
  <2>1. "exit" \in Programs /\ Program["exit"][13] = "end" /\ Size["exit"] = 13
    <3>1. Program["exit"][13] = "end"
      BY DEF Program, StopFlickerDetection, StopThread
    <3> QED
      BY <3>1 DEF Programs, Halts, Size
  <2>2. Program["exit"] \in Seq(Stages) /\ Len(Program["exit"]) = 13
    BY <2>1, ProgramSizes
  <2>3. Rest(Program["exit"], 13) \in Seq(Stages) /\ Len(Rest(Program["exit"], 13)) = 1
        /\ Head(Rest(Program["exit"], 13)) = "end"
    <3>1. 13 \in 1 .. Len(Program["exit"]) + 1 /\ 13 <= Len(Program["exit"])
          /\ Len(Program["exit"]) + 1 - 13 = 1
      BY <2>2
    <3> QED
      BY <2>1, <2>2, <3>1, RestOf
  <2> QED
    BY <2>3 DEF Place
<1> QED
  BY <1>1, <1>2

\* A place of the velocity thread is one of its own program or of the stop.
VProgram(v) == IF v <= 19 THEN "velocity" ELSE "halt"
VStep(v) == IF v <= 19 THEN v ELSE v - 19
VPass(v) == IF v \in {9, 16, 31} THEN v + 1 ELSE v
VCaught(v) == IF v <= 9 THEN 10 ELSE IF v <= 17 THEN 17 ELSE 32

LEMMA WhereDoing ==
  ASSUME NEW p, NEW k, NEW v, Where(p, k, v)
  PROVE  /\ p \in Programs /\ Doing("control", p, k)
         /\ VProgram(v) \in Programs /\ Doing("velocity", VProgram(v), VStep(v))
         /\ todo \in [Threads -> Seq(Stages)]
<1>1. p \in Programs /\ VProgram(v) \in Programs
  BY DEF Where, Controls, Programs, Halts, VProgram
<1>2. /\ Size[p] \in Nat /\ Size["velocity"] = 18 /\ Size["halt"] = 12 /\ v \in 1 .. 32
  BY <1>1, ProgramSizes DEF Size, Where
<1>3. VStep(v) \in 1 .. Size[VProgram(v)] + 1 /\ VPlace(v) = Place(VProgram(v), VStep(v))
  BY <1>2 DEF VStep, VProgram, VPlace
<1>4. todo["control"] = Place(p, k) /\ todo["velocity"] = VPlace(v)
  BY DEF Where, Threads
<1>5. Doing("control", p, k) /\ Doing("velocity", VProgram(v), VStep(v))
  BY <1>3, <1>4 DEF Doing, Where
<1>6. ASSUME NEW q \in Programs, NEW i \in 1 .. Size[q] + 1
      PROVE  Place(q, i) \in Seq(Stages)
  <2>1. Program[q] \in Seq(Stages) /\ Len(Program[q]) = Size[q]
    BY ProgramSizes
  <2> QED
    BY <2>1, RestOf DEF Place
<1>7. Place(p, k) \in Seq(Stages) /\ VPlace(v) \in Seq(Stages)
  BY <1>1, <1>3, <1>6 DEF Where
<1> QED
  BY <1>1, <1>5, <1>7 DEF Where, Threads

\* Where the places before a "catch" are.
LEMMA Passes ==
  ASSUME NEW p, NEW k \in Nat
  PROVE  /\ p \in CommandPrograms => Pass(p, k) = k /\ Caught(p, k) = Size[p] + 1
         /\ p \in Halts => Pass(p, k) = (IF k = 12 THEN 13 ELSE k) /\ Caught(p, k) = 13
         /\ Pass("velocity", k) = IF k \in {9, 16} THEN k + 1 ELSE k
         /\ Caught("velocity", k) = IF k <= 9 THEN 10 ELSE 17
<1>1. CommandPrograms \cap Halts = {} /\ "velocity" \notin CommandPrograms \cup Halts
  BY DEF CommandPrograms, Halts, Siblings
<1>2. p \in CommandPrograms => Pass(p, k) = k /\ Caught(p, k) = Size[p] + 1
  BY <1>1 DEF Pass, Caught
<1>3. p \in Halts => Pass(p, k) = (IF k = 12 THEN 13 ELSE k) /\ Caught(p, k) = 13
  BY <1>1 DEF Pass, Caught
<1>4. Pass("velocity", k) = IF k \in {9, 16} THEN k + 1 ELSE k
  BY <1>1 DEF Pass
<1>5. Caught("velocity", k) = IF k <= 9 THEN 10 ELSE 17
  BY <1>1 DEF Caught
<1> QED
  BY <1>2, <1>3, <1>4, <1>5

LEMMA ControlMoves ==
  ASSUME NEW p, NEW k, NEW v, Where(p, k, v), k \in 1 .. Size[p]
  PROVE  /\ \A n \in Nat : k + n <= Size[p] + 1 /\ Skip("control", n) => Where(p, Pass(p, k + n), v)'
         /\ Throw("control") /\ (p \in Halts => k <= 12) => Where(p, Caught(p, k), v)'
<1>1. /\ p \in Programs /\ Doing("control", p, k) /\ todo \in [Threads -> Seq(Stages)]
      /\ "control" \in Threads /\ p # "velocity"
  <2>1. p \in Programs /\ Doing("control", p, k) /\ todo \in [Threads -> Seq(Stages)]
    BY WhereDoing
  <2>2. p # "velocity" /\ "control" \in Threads
    BY DEF Where, Controls, CommandPrograms, Halts, Siblings, Threads
  <2> QED
    BY <2>1, <2>2
<1>2. ASSUME NEW n \in Nat, k + n <= Size[p] + 1, Skip("control", n)
      PROVE  Where(p, Pass(p, k + n), v)'
  <2>1. /\ todo' = [todo EXCEPT !["control"] = Place(p, Pass(p, k + n))]
        /\ Pass(p, k + n) \in 1 .. Size[p] + 1
    BY <1>1, <1>2, DoingSkip
  <2> QED
    BY <2>1 DEF Where, Threads
<1>3. ASSUME Throw("control"), p \in Halts => k <= 12
      PROVE  Where(p, Caught(p, k), v)'
  <2>1. ~(p \in Halts /\ k > 12) /\ ~(p = "velocity" /\ k > 16)
    BY <1>1, <1>3, SizeRanges DEF Where
  <2>2. /\ todo' = [todo EXCEPT !["control"] = Place(p, Caught(p, k))]
        /\ Caught(p, k) \in 1 .. Size[p] + 1
    BY <1>1, <1>3, <2>1, DoingThrow
  <2> QED
    BY <2>2 DEF Where, Threads
<1> QED
  BY <1>2, <1>3

\* The velocity thread at another of its places.
LEMMA VelocityPut ==
  ASSUME NEW p, NEW k, NEW v, Where(p, k, v), NEW w \in 1 .. 32, NEW c, c = VPlace(w),
         todo' = [todo EXCEPT !["velocity"] = c]
  PROVE  Where(p, k, w)'
<1>1. todo' = [t \in Threads |-> IF t = "velocity" THEN VPlace(w) ELSE Place(p, k)]
  BY DEF Where, Threads
<1> QED
  BY <1>1 DEF Where

LEMMA VelocityMoves ==
  ASSUME NEW p, NEW k, NEW v, Where(p, k, v), v \in 1 .. 18 \/ v \in 20 .. 31
  PROVE  /\ \A n \in Nat : v + n <= (IF v <= 18 THEN 19 ELSE 32) /\ Skip("velocity", n)
              => Where(p, k, VPass(v + n))'
         /\ Throw("velocity") /\ (v <= 16 \/ v >= 20) => Where(p, k, VCaught(v))'
<1> DEFINE q == VProgram(v)
           j == VStep(v)
<1>1. /\ q \in Programs /\ Doing("velocity", q, j) /\ todo \in [Threads -> Seq(Stages)]
      /\ "velocity" \in Threads
  BY WhereDoing DEF Threads
<1>2. Size["velocity"] = 18 /\ Size["halt"] = 12 /\ "velocity" \notin Halts /\ "halt" \in Halts
  BY DEF Size, Halts
<1>3. /\ v <= 18 => q = "velocity" /\ j = v
      /\ v >= 20 => q = "halt" /\ j = v - 19
  BY DEF VProgram, VStep
<1>4. j \in 1 .. Size[q] /\ j \in Nat
  BY <1>2, <1>3
<1> HIDE DEF q, j
<1>5. ASSUME NEW n \in Nat, v + n <= (IF v <= 18 THEN 19 ELSE 32), Skip("velocity", n)
      PROVE  Where(p, k, VPass(v + n))'
  <2>1. j + n <= Size[q] + 1
    BY <1>2, <1>3, <1>5
  <2>2. /\ todo' = [todo EXCEPT !["velocity"] = Place(q, Pass(q, j + n))]
        /\ Pass(q, j + n) \in 1 .. Size[q] + 1
    BY <1>1, <1>4, <1>5, <2>1, DoingSkip
  <2>3. VPass(v + n) \in 1 .. 32
    BY <1>5 DEF VPass
  <2>4. Place(q, Pass(q, j + n)) = VPlace(VPass(v + n))
    <3>1. CASE v <= 18
      <4>1. q = "velocity" /\ j = v /\ v + n \in Nat
        BY <1>3, <3>1
      <4>2. Pass(q, j + n) = IF v + n \in {9, 16} THEN v + n + 1 ELSE v + n
        BY <4>1, Passes
      <4>3. Pass(q, j + n) = VPass(v + n) /\ VPass(v + n) <= 19
        BY <1>5, <3>1, <4>1, <4>2 DEF VPass
      <4> QED
        BY <4>1, <4>3 DEF VPlace
    <3>2. CASE v >= 20
      <4>1. q = "halt" /\ j + n = v + n - 19 /\ j + n \in Nat
        BY <1>3, <3>2
      <4>2. Pass(q, j + n) = IF j + n = 12 THEN 13 ELSE j + n
        BY <1>2, <4>1, Passes
      <4>3. Pass(q, j + n) = VPass(v + n) - 19 /\ VPass(v + n) >= 20
        BY <3>2, <4>1, <4>2 DEF VPass
      <4> QED
        BY <2>3, <4>1, <4>3 DEF VPlace
    <3> QED
      BY <3>1, <3>2
  <2> QED
    BY <2>2, <2>3, <2>4, VelocityPut
<1>6. ASSUME Throw("velocity"), v <= 16 \/ v >= 20
      PROVE  Where(p, k, VCaught(v))'
  <2>1. ~(q \in Halts /\ j > 12) /\ ~(q = "velocity" /\ j > 16)
    BY <1>2, <1>3, <1>6
  <2>2. todo' = [todo EXCEPT !["velocity"] = Place(q, Caught(q, j))]
    BY <1>1, <1>4, <1>6, <2>1, DoingThrow
  <2>3. VCaught(v) \in 1 .. 32
    BY DEF VCaught
  <2>4. Place(q, Caught(q, j)) = VPlace(VCaught(v))
    <3>1. CASE v <= 16
      <4>1. q = "velocity" /\ Caught(q, j) = VCaught(v) /\ VCaught(v) <= 19
        BY <1>3, <1>4, <3>1, Passes DEF VCaught
      <4> QED
        BY <4>1 DEF VPlace
    <3>2. CASE v >= 20
      <4>1. q = "halt" /\ Caught(q, j) = 13 /\ VCaught(v) = 32
        BY <1>2, <1>3, <1>4, <3>2, Passes DEF VCaught
      <4> QED
        BY <4>1 DEF VPlace
    <3> QED
      BY <1>6, <3>1, <3>2
  <2> QED
    BY <2>2, <2>3, <2>4, VelocityPut
<1> QED
  BY <1>5, <1>6

\* A stage of the controlling thread, or of the velocity thread, is at its place.
LEMMA ControlAt ==
  ASSUME NEW p, NEW k, NEW v, Where(p, k, v), NEW stage, At("control", stage)
  PROVE  k \in 1 .. Size[p] /\ Program[p][k] = stage
<1>1. p \in Programs /\ Doing("control", p, k)
  BY WhereDoing
<1> QED
  BY <1>1, DoingStage

LEMMA VelocityAt ==
  ASSUME NEW p, NEW k, NEW v, Where(p, k, v), NEW stage, At("velocity", stage)
  PROVE  /\ v \in 1 .. 18 \/ v \in 20 .. 31
         /\ v \in 1 .. 18 => Program["velocity"][v] = stage
         /\ v \in 20 .. 31 => Program["halt"][v - 19] = stage
<1>1. VProgram(v) \in Programs /\ Doing("velocity", VProgram(v), VStep(v)) /\ v \in 1 .. 32
  BY WhereDoing DEF Where
<1>2. VStep(v) \in 1 .. Size[VProgram(v)] /\ Program[VProgram(v)][VStep(v)] = stage
  BY <1>1, DoingStage
<1>3. Size["velocity"] = 18 /\ Size["halt"] = 12
  BY DEF Size
<1>4. CASE v <= 19
  BY <1>1, <1>2, <1>3, <1>4 DEF VProgram, VStep
<1>5. CASE v > 19
  BY <1>1, <1>2, <1>3, <1>5 DEF VProgram, VStep
<1> QED
  BY <1>1, <1>4, <1>5

\* Where the velocity thread is, by the name of its stage.
LEMMA VelocityIs ==
  ASSUME NEW p, NEW k, NEW v, Where(p, k, v), NEW s, At("velocity", s)
  PROVE  /\ v \in 1 .. 18 \/ v \in 20 .. 31
         /\ s = "open" => v = 2
         /\ s = "flowOff" => v \in {3, 22}
         /\ s = "sleep" => v \in {4, 11, 15, 23}
         /\ s = "configure" => v \in {5, 7}
         /\ s = "alloc" => v = 6
         /\ s = "start" => v = 8
         /\ s = "writers" => v = 12
         /\ s = "ifFlow" => v \in {13, 21}
         /\ s = "flowOn" => v = 14
         /\ s = "loop" => v = 17
         /\ s = "check" => v \in {1, 10, 18}
         /\ s = "halt" => v = 20
         /\ s = "ifThreads" => v = 24
         /\ s = "clear" => v = 25
         /\ s = "joinWorker" => v = 26
         /\ s = "stopDisplay" => v = 27
         /\ s = "joinDisplay" => v = 28
         /\ s = "release" => v = 29
         /\ s = "close" => v = 30
         /\ s \notin {"releaseCard", "free", "freeSibling", "allocSibling", "end"}
<1>1. CASE v \in 1 .. 18
  <2>1. Program["velocity"][v] = s
    BY <1>1, VelocityAt
  <2> QED
    BY <1>1, <2>1, VelocityStages
<1>2. CASE v \in 20 .. 31
  <2>1. /\ v - 19 \in 1 .. Size["halt"] /\ "halt" \in CommandPrograms \cup Halts
        /\ Program["halt"][v - 19] = s
    BY <1>2, VelocityAt DEF Size, Halts
  <2>2. /\ "halt" \notin {"stopCard", "restartCard", "stopBoth", "restartBoth", "exit"} \cup Siblings
        /\ v - 19 \in Int
    BY <1>2 DEF Siblings
  <2> DEFINE j == v - 19
  <2>3. j \in 1 .. Size["halt"] /\ Program["halt"][j] = s
    BY <2>1
  <2> HIDE DEF j
  <2>4. /\ s = "clear" => j = 6
        /\ s = "joinWorker" => j = 7
        /\ s = "stopDisplay" => j = 8
        /\ s = "joinDisplay" => j = 9
        /\ s = "flowOff" => j = 3
        /\ s = "sleep" => j = 4
        /\ s = "release" => j = 10
        /\ s = "halt" => j = 1
        /\ s = "ifFlow" => j = 2
        /\ s = "ifThreads" => j = 5
        /\ s = "close" => j = 11
        /\ s \notin {"releaseCard", "free", "flowOn", "alloc", "writers", "start", "freeSibling",
                     "allocSibling", "end", "open", "configure", "loop", "check"}
    BY <2>1, <2>2, <2>3, ControlStages
  <2> QED
    BY <1>2, <2>4 DEF j
<1> QED
  BY <1>1, <1>2, VelocityAt

----------------------------------------------------------------------------
(* Stages that change nothing the invariant is about but the place.        *)

stillVars == <<driver, flow, queue, cb, wk, dp, ssim, epoch, history, run, halted>>
StillStep(t) ==
  \/ Configure(t) \/ SleepOneSecond(t) \/ IfOpen(t) \/ AllocateMemoryBuffers(t)
  \/ SiblingBuffers(t) \/ InitializeVideoWriters(t) \/ VideoWritersRelease(t)
  \/ StopDisplayThread(t) \/ LeaveLoop(t) \/ CheckReturnCode(t) \/ ExitProcess(t)

StillControl(p, k, k2) ==
  /\ k \in 1 .. Size[p]
  /\ \/ p \in CommandPrograms /\ k2 = Size[p] + 1
     \/ p = "stopCard" /\ k \in {3, 7, 10} /\ k2 = k + 1
     \/ p = "stopCard" /\ k = 6 /\ k2 = 7 /\ (cb.at = "idle" \/ flow)
     \/ p = "restartCard" /\ k \in {2, 3, 4, 7} /\ k2 = k + 1
     \/ p \in Siblings /\ k \in {2, 3, 4, 6} /\ k2 = k + 1
     \/ p = "stopBoth" /\ k \in {1, 2} /\ k2 = k + 1
     \/ p = "restartBoth" /\ k = 1 /\ k2 = 2
     \/ p \in Halts /\ k = 4 /\ k2 = 5 /\ (cb.at = "idle" \/ flow)
     \/ p \in Halts /\ k = 2 /\ (k2 = 3 \/ (k2 = 5 /\ ~driver))
     \/ p \in Halts /\ k = 5 /\ (k2 = 6 \/ (k2 = 10 /\ ~driver))
     \/ p \in Halts /\ k \in {8, 10, 13} /\ k2 = k + 1
StillVelocity(v, v2) ==
  \/ v \in {4, 5, 6, 7} /\ v2 \in {v + 1, 10}
  \/ v \in {11, 12, 13} /\ v2 = v + 1
  \/ v \in {12, 13, 15} /\ v2 = 17
  \/ v = 17 /\ v2 = 18 /\ ~run
  \/ v \in {1, 10, 18} /\ v2 \in {v + 1, 20}
  \/ v = 21 /\ (v2 = 22 \/ (v2 = 24 /\ ~driver))
  \/ v = 23 /\ v2 = 24 /\ (cb.at = "idle" \/ flow)
  \/ v = 24 /\ (v2 = 25 \/ (v2 = 29 /\ ~driver))
  \/ v \in {27, 29} /\ v2 = v + 1

LEMMA StillUnchanged ==
  ASSUME NEW t, StillStep(t)
  PROVE  UNCHANGED stillVars
  BY DEF StillStep, Configure, SleepOneSecond, IfOpen, AllocateMemoryBuffers, SiblingBuffers,
         InitializeVideoWriters, VideoWritersRelease, StopDisplayThread, LeaveLoop,
         CheckReturnCode, ExitProcess, stillVars, cardVars, processVars, pipeVars, workVars, showVars

LEMMA StillControlMoves ==
  ASSUME NEW p, NEW k, NEW v, Where(p, k, v), StillStep("control")
  PROVE  \E k2 \in Nat : Where(p, k2, v)' /\ StillControl(p, k, k2)
<1> DEFINE s == Program[p][k]
<1>1. /\ p \in CommandPrograms \cup Halts
      /\ p \in CommandPrograms => Size[p] \in 3 .. 10 /\ p \notin Halts
      /\ p \in Halts => Size[p] \in 12 .. 13 /\ p \notin CommandPrograms
      /\ p = "stopCard" => Size[p] = 10
      /\ p = "restartCard" => Size[p] = 7
      /\ p = "stopBoth" => Size[p] = 4
      /\ p = "restartBoth" => Size[p] = 3
      /\ p \in Siblings => Size[p] = 6
      /\ p = "exit" => Size[p] = 13
  BY SizeRanges DEF Where, Controls, CommandPrograms, Halts, Siblings, Size
<1>2. \/ Throw("control") /\ \E stage \in {"configure", "alloc", "allocSibling", "freeSibling", "writers"} :
                               At("control", stage)
      \/ Go("control") /\ \E stage \in {"configure", "alloc", "allocSibling", "freeSibling", "writers",
                               "release", "releaseCard", "stopDisplay", "loop", "end"} : At("control", stage)
      \/ Go("control") /\ At("control", "sleep") /\ (cb.at = "idle" \/ flow)
      \/ Go("control") /\ (At("control", "ifFlow") \/ At("control", "ifThreads"))
      \/ Skip("control", 3) /\ At("control", "ifFlow") /\ ~driver
      \/ Skip("control", 5) /\ At("control", "ifThreads") /\ ~driver
      \/ At("control", "check")
  BY DEF StillStep, Configure, SleepOneSecond, IfOpen, AllocateMemoryBuffers, SiblingBuffers,
         InitializeVideoWriters, VideoWritersRelease, StopDisplayThread, LeaveLoop,
         CheckReturnCode, ExitProcess
<1>3. k \in 1 .. Size[p]
  BY <1>2, ControlAt
<1>4. /\ Go("control") => Where(p, Pass(p, k + 1), v)'
      /\ Skip("control", 3) /\ k + 3 <= Size[p] + 1 => Where(p, Pass(p, k + 3), v)'
      /\ Skip("control", 5) /\ k + 5 <= Size[p] + 1 => Where(p, Pass(p, k + 5), v)'
      /\ Throw("control") /\ (p \in Halts => k <= 12) => Where(p, Caught(p, k), v)'
  BY <1>1, <1>3, ControlMoves DEF Go
<1>5. /\ p \in CommandPrograms => /\ \A j \in Nat : Pass(p, j) = j 
                                  /\ Caught(p, k) = Size[p] + 1
      /\ p \in Halts => \A j \in Nat : Pass(p, j) = IF j = 12 THEN 13 ELSE j
  BY <1>3, Passes
<1>6. CASE Throw("control") /\ \E stage \in {"configure", "alloc", "allocSibling", "freeSibling", "writers"} :
                               At("control", stage)
  <2>1. s \in {"configure", "alloc", "allocSibling", "freeSibling", "writers"}
    BY <1>6, ControlAt
  <2>2. p \in CommandPrograms
    BY <1>1, <1>3, <2>1, ControlStages DEF CommandPrograms, Siblings
  <2> QED
    BY <1>1, <1>3, <1>4, <1>5, <1>6, <2>2 DEF StillControl
<1>7. CASE Go("control") /\ \E stage \in {"configure", "alloc", "allocSibling", "freeSibling", "writers",
                               "release", "releaseCard", "stopDisplay", "loop", "end"} : At("control", stage)
  <2>1. s \in {"configure", "alloc", "allocSibling", "freeSibling", "writers",
                               "release", "releaseCard", "stopDisplay", "loop", "end"}
    BY <1>7, ControlAt
  <2>2. \/ p = "stopCard" /\ k \in {3, 7}
        \/ p = "restartCard" /\ k \in {3, 4}
        \/ p \in Siblings /\ k \in {3, 4}
        \/ p = "stopBoth" /\ k = 1
        \/ p \in Halts /\ k \in {8, 10, 13}
    BY <1>1, <1>3, <2>1, ControlStages DEF Siblings, Halts
  <2>3. Where(p, k + 1, v)' /\ StillControl(p, k, k + 1)
    BY <1>1, <1>3, <1>4, <1>5, <1>7, <2>2 DEF StillControl, CommandPrograms
  <2> QED
    BY <1>3, <2>3
<1>8. CASE Go("control") /\ At("control", "sleep") /\ (cb.at = "idle" \/ flow)
  <2>1. s = "sleep"
    BY <1>8, ControlAt
  <2>2. \/ p = "stopCard" /\ k \in {6, 10}
        \/ p = "restartCard" /\ k \in {2, 7}
        \/ p \in Siblings /\ k \in {2, 6}
        \/ p = "stopBoth" /\ k = 4
        \/ p = "restartBoth" /\ k = 3
        \/ p \in Halts /\ k = 4
    BY <1>1, <1>3, <2>1, ControlStages
  <2>3. Where(p, k + 1, v)' /\ StillControl(p, k, k + 1)
    BY <1>1, <1>3, <1>4, <1>5, <1>8, <2>2 DEF StillControl, CommandPrograms
  <2> QED
    BY <1>3, <2>3
<1>9. CASE Go("control") /\ (At("control", "ifFlow") \/ At("control", "ifThreads"))
  <2>1. s \in {"ifFlow", "ifThreads"}
    BY <1>9, ControlAt
  <2>2. \/ p = "stopBoth" /\ k = 2
        \/ p = "restartBoth" /\ k = 1
        \/ p \in Halts /\ k \in {2, 5}
    BY <1>1, <1>3, <2>1, ControlStages
  <2>3. Where(p, k + 1, v)' /\ StillControl(p, k, k + 1)
    BY <1>1, <1>3, <1>4, <1>5, <1>9, <2>2 DEF StillControl, CommandPrograms
  <2> QED
    BY <1>3, <2>3
<1>10. CASE Skip("control", 3) /\ At("control", "ifFlow") /\ ~driver
  <2>1. s = "ifFlow"
    BY <1>10, ControlAt
  <2>2. \/ p = "stopBoth" /\ k = 2
        \/ p = "restartBoth" /\ k = 1
        \/ p \in Halts /\ k = 2
    BY <1>1, <1>3, <2>1, ControlStages
  <2>3. Where(p, k + 3, v)' /\ StillControl(p, k, k + 3)
    BY <1>1, <1>3, <1>4, <1>5, <1>10, <2>2 DEF StillControl, CommandPrograms
  <2> QED
    BY <1>3, <2>3
<1>11. CASE Skip("control", 5) /\ At("control", "ifThreads") /\ ~driver
  <2>1. s = "ifThreads"
    BY <1>11, ControlAt
  <2>2. p \in Halts /\ k = 5
    BY <1>1, <1>3, <2>1, ControlStages
  <2>3. Where(p, k + 5, v)' /\ StillControl(p, k, k + 5)
    BY <1>1, <1>3, <1>4, <1>5, <1>11, <2>2 DEF StillControl
  <2> QED
    BY <1>3, <2>3
<1>12. ~At("control", "check")
  BY <1>1, ControlAt, ControlStages
<1> QED
  BY <1>2, <1>6, <1>7, <1>8, <1>9, <1>10, <1>11, <1>12

LEMMA StillVelocityMoves ==
  ASSUME NEW p, NEW k, NEW v, Where(p, k, v), StillStep("velocity")
  PROVE  \E v2 \in Nat : Where(p, k, v2)' /\ StillVelocity(v, v2)
<1> DEFINE calls == {"configure", "alloc", "allocSibling", "freeSibling", "writers"}
<1>1. \/ Throw("velocity") /\ \E stage \in calls : At("velocity", stage)
      \/ Go("velocity") /\ \E stage \in calls \cup {"release", "releaseCard", "stopDisplay", "end"} :
                              At("velocity", stage)
      \/ Go("velocity") /\ At("velocity", "sleep") /\ (cb.at = "idle" \/ flow)
      \/ Go("velocity") /\ At("velocity", "loop") /\ ~run
      \/ Go("velocity") /\ (At("velocity", "ifFlow") \/ At("velocity", "ifThreads"))
      \/ Skip("velocity", 3) /\ At("velocity", "ifFlow") /\ ~driver
      \/ Skip("velocity", 5) /\ At("velocity", "ifThreads") /\ ~driver
      \/ /\ At("velocity", "check")
         /\ Go("velocity") \/ todo' = [todo EXCEPT !["velocity"] = StopFlickerDetection]
  BY DEF StillStep, Configure, SleepOneSecond, IfOpen, AllocateMemoryBuffers, SiblingBuffers,
         InitializeVideoWriters, VideoWritersRelease, StopDisplayThread, LeaveLoop,
         CheckReturnCode, ExitProcess
<1>2. v \in 1 .. 18 \/ v \in 20 .. 31
  BY <1>1, VelocityAt
<1>3. /\ Go("velocity") => Where(p, k, VPass(v + 1))'
      /\ Skip("velocity", 3) /\ v + 3 <= (IF v <= 18 THEN 19 ELSE 32) => Where(p, k, VPass(v + 3))'
      /\ Skip("velocity", 5) /\ v + 5 <= (IF v <= 18 THEN 19 ELSE 32) => Where(p, k, VPass(v + 5))'
      /\ Throw("velocity") /\ (v <= 16 \/ v >= 20) => Where(p, k, VCaught(v))'
  <2>1. v + 1 <= (IF v <= 18 THEN 19 ELSE 32)
    BY <1>2
  <2> QED
    BY <1>2, <2>1, VelocityMoves DEF Go
<1> USE DEF VPass, VCaught, StillVelocity
<1>4. CASE Throw("velocity") /\ \E stage \in calls : At("velocity", stage)
  <2>1. v \in {5, 6, 7, 12}
    BY <1>4, VelocityIs
  <2>2. Where(p, k, VCaught(v))' /\ StillVelocity(v, VCaught(v)) /\ VCaught(v) \in Nat
    BY <1>3, <1>4, <2>1
  <2> QED
    BY <2>2
<1>5. CASE Go("velocity") /\ \E stage \in calls \cup {"release", "releaseCard", "stopDisplay", "end"} :
                                At("velocity", stage)
  <2>1. v \in {5, 6, 7, 12, 27, 29}
    BY <1>5, VelocityIs
  <2>2. Where(p, k, v + 1)' /\ StillVelocity(v, v + 1) /\ v + 1 \in Nat
    BY <1>3, <1>5, <2>1
  <2> QED
    BY <2>2
<1>6. CASE Go("velocity") /\ At("velocity", "sleep") /\ (cb.at = "idle" \/ flow)
  <2>1. v \in {4, 11, 15, 23}
    BY <1>6, VelocityIs
  <2>2. Where(p, k, VPass(v + 1))' /\ StillVelocity(v, VPass(v + 1)) /\ VPass(v + 1) \in Nat
    BY <1>3, <1>6, <2>1
  <2> QED
    BY <2>2
<1>7. CASE Go("velocity") /\ At("velocity", "loop") /\ ~run
  <2>1. v = 17
    BY <1>7, VelocityIs
  <2>2. Where(p, k, 18)' /\ StillVelocity(v, 18)
    BY <1>3, <1>7, <2>1
  <2> QED
    BY <2>2
<1>8. CASE Go("velocity") /\ (At("velocity", "ifFlow") \/ At("velocity", "ifThreads"))
  <2>1. v \in {13, 21, 24}
    BY <1>8, VelocityIs
  <2>2. Where(p, k, v + 1)' /\ StillVelocity(v, v + 1) /\ v + 1 \in Nat
    BY <1>3, <1>8, <2>1
  <2> QED
    BY <2>2
<1>9. CASE Skip("velocity", 3) /\ At("velocity", "ifFlow") /\ ~driver
  <2>1. v \in {13, 21}
    BY <1>9, VelocityIs
  <2>2. Where(p, k, VPass(v + 3))' /\ StillVelocity(v, VPass(v + 3)) /\ VPass(v + 3) \in Nat
    BY <1>3, <1>9, <2>1
  <2> QED
    BY <2>2
<1>10. CASE Skip("velocity", 5) /\ At("velocity", "ifThreads") /\ ~driver
  <2>1. v = 24
    BY <1>10, VelocityIs
  <2>2. Where(p, k, 29)' /\ StillVelocity(v, 29)
    BY <1>3, <1>10, <2>1
  <2> QED
    BY <2>2
<1>11. CASE /\ At("velocity", "check")
            /\ Go("velocity") \/ todo' = [todo EXCEPT !["velocity"] = StopFlickerDetection]
  <2>1. v \in {1, 10, 18}
    BY <1>11, VelocityIs
  <2>2. CASE Go("velocity")
    <3>1. Where(p, k, v + 1)' /\ StillVelocity(v, v + 1) /\ v + 1 \in Nat
      BY <1>3, <2>1, <2>2
    <3> QED
      BY <3>1
  <2>3. CASE todo' = [todo EXCEPT !["velocity"] = StopFlickerDetection]
    <3>1. StopFlickerDetection = VPlace(20)
      <4>1. Program["halt"] = StopFlickerDetection /\ "halt" \in Programs
        BY DEF Program, Programs, Halts
      <4> QED
        BY <4>1, Whole DEF VPlace
    <3>2. Where(p, k, 20)'
      <4>1. 20 \in 1 .. 32
        OBVIOUS
      <4> QED
        BY <2>3, <3>1, <4>1, VelocityPut
    <3> QED
      BY <2>1, <3>2
  <2> QED
    BY <1>11, <2>2, <2>3
<1> QED
  BY <1>1, <1>4, <1>5, <1>6, <1>7, <1>8, <1>9, <1>10, <1>11

\* What programs and places are.
LEMMA Places ==
  ASSUME NEW p, NEW k, NEW v, Where(p, k, v)
  PROVE  /\ p \in CommandPrograms \cup Halts /\ k \in 1 .. Size[p] + 1 /\ v \in 1 .. 32
         /\ k \in Nat /\ v \in Nat /\ Size[p] \in Nat
         /\ p \in CommandPrograms => Size[p] \in 3 .. 10 /\ p \notin Halts
         /\ p \in Halts => /\ Size[p] \in 12 .. 13 /\ p \notin CommandPrograms
                           /\ p \notin Siblings
                           /\ p \notin {"stopCard", "restartCard", "stopBoth", "restartBoth"}
         /\ p \in Siblings => /\ Size[p] = 6 /\ p \in CommandPrograms
                              /\ p \notin {"stopCard", "restartCard", "stopBoth", "restartBoth"}
         /\ p = "stopCard" => Size[p] = 10 /\ p \in CommandPrograms
         /\ p = "restartCard" => Size[p] = 7 /\ p \in CommandPrograms
         /\ p = "stopBoth" => Size[p] = 4 /\ p \in CommandPrograms
         /\ p = "restartBoth" => Size[p] = 3 /\ p \in CommandPrograms
         /\ p = "exit" => Size[p] = 13
  BY SizeRanges DEF Where, Controls, CommandPrograms, Halts, Siblings, Size

LEMMA StillKeeps ==
  ASSUME NEW p, NEW k, NEW v, NEW k2 \in Nat, NEW v2 \in Nat, Where(p, k, v),
         ChannelInv(p, k, v), DataTypes,
         (StillControl(p, k, k2) /\ v2 = v) \/ (k2 = k /\ StillVelocity(v, v2))
  PROVE  ChannelInv(p, k2, v2)
<1> USE Places
<1>1. OrderInv(p, k2, v2)
  BY DEF ChannelInv, OrderInv, StillControl, StillVelocity
<1>2. UntouchedInv(v2)
  BY DEF ChannelInv, UntouchedInv, StillVelocity
<1>3. ThreadsInv(p, k2, v2)
  BY DEF ChannelInv, OrderInv, ThreadsInv, StillControl, StillVelocity
<1>4. FlowInv(p, k2, v2)
  <2>1. CASE StillControl(p, k, k2) /\ v2 = v
    BY <2>1 DEF ChannelInv, FlowInv, StillControl, Quiet
  <2>2. CASE k2 = k /\ StillVelocity(v, v2)
    <3>0. v \in 1 .. 32
      BY Places
    <3>1. v2 # 23
      BY <2>2, <3>0 DEF StillVelocity
    <3>2. ASSUME v2 \in 24 .. 30, v \notin 24 .. 30
          PROVE  v \in {21, 23} /\ (v = 21 => ~driver) /\ (v = 23 => cb.at = "idle" \/ flow)
      <4>1. CASE v \in 1 .. 20
        BY <2>2, <3>2, <4>1 DEF StillVelocity
      <4>2. CASE v \in {21, 22, 23, 31, 32}
        BY <2>2, <3>2, <4>2 DEF StillVelocity
      <4>3. v \in 1 .. 20 \/ v \in {21, 22, 23, 31, 32}
        BY <3>0, <3>2
      <4> QED
        BY <4>1, <4>2, <4>3
    <3> QED
      BY <2>2, <3>1, <3>2 DEF ChannelInv, FlowInv
  <2> QED
    BY <2>1, <2>2
<1>5. RunInv(p, k2)
  BY DEF ChannelInv, FlowInv, RunInv, StillControl, StillVelocity, Quiet
<1> QED
  BY <1>1, <1>2, <1>3, <1>4, <1>5 DEF ChannelInv

LEMMA StillInv ==
  ASSUME NEW p, NEW k, NEW v, Where(p, k, v), ChannelInv(p, k, v), DataTypes,
         NEW t \in Threads, StillStep(t)
  PROVE  \E k2, v2 \in Nat : Where(p, k2, v2)' /\ ChannelInv(p, k2, v2)'
<1>1. \E k2, v2 \in Nat : Where(p, k2, v2)' /\ ChannelInv(p, k2, v2)
  <2>1. CASE t = "control"
    BY <2>1, StillControlMoves, StillKeeps, Places
  <2>2. CASE t = "velocity"
    <3>1. PICK v2 \in Nat : Where(p, k, v2)' /\ StillVelocity(v, v2)
      BY <2>2, StillVelocityMoves
    <3>2. k \in Nat /\ v \in Nat
      BY Places
    <3>3. ChannelInv(p, k, v2)
      BY <3>1, <3>2, StillKeeps
    <3> QED
      BY <3>1, <3>2, <3>3
  <2> QED
    BY <2>1, <2>2 DEF Threads
<1>2. PICK k2 \in Nat, v2 \in Nat : Where(p, k2, v2)' /\ ChannelInv(p, k2, v2)
  BY <1>1
<1>3. ChannelInv(p, k2, v2)'
  BY <1>2, StillUnchanged DEF stillVars, ChannelInv, OrderInv, UntouchedInv, ThreadsInv, FlowInv,
     FrameAgeInv, SortedInv, RunInv, Live, OnTheWay
<1> QED
  BY <1>2, <1>3

----------------------------------------------------------------------------
(* The other stages.                                                       *)

\* Where a thread goes from a stage.
LEMMA ControlGoes ==
  ASSUME NEW p, NEW k, NEW v, Where(p, k, v), NEW stage, At("control", stage)
  PROVE  /\ k \in 1 .. Size[p] /\ Program[p][k] = stage
         /\ Go("control") =>
              Where(p, IF p \in Halts /\ k = 11 THEN 13 ELSE k + 1, v)'
         /\ Throw("control") /\ p \in CommandPrograms => Where(p, Size[p] + 1, v)'
         /\ Throw("control") /\ p \in Halts /\ k <= 12 => Where(p, 13, v)'
<1>1. k \in 1 .. Size[p] /\ Program[p][k] = stage
  BY ControlAt
<1>2. /\ Go("control") => Where(p, Pass(p, k + 1), v)'
      /\ Throw("control") /\ (p \in Halts => k <= 12) => Where(p, Caught(p, k), v)'
  BY <1>1, Places, ControlMoves DEF Go
<1>3. /\ p \in CommandPrograms => Pass(p, k + 1) = k + 1 /\ Caught(p, k) = Size[p] + 1
      /\ p \in Halts => Pass(p, k + 1) = (IF k = 11 THEN 13 ELSE k + 1) /\ Caught(p, k) = 13
  BY <1>1, Passes
<1> QED
  BY <1>1, <1>2, <1>3, Places

LEMMA VelocityGoes ==
  ASSUME NEW p, NEW k, NEW v, Where(p, k, v), NEW stage, At("velocity", stage)
  PROVE  /\ v \in 1 .. 18 \/ v \in 20 .. 31
         /\ Go("velocity") => Where(p, k, IF v \in {8, 15, 30} THEN v + 2 ELSE v + 1)'
         /\ Throw("velocity") /\ (v <= 16 \/ v >= 20)
              => Where(p, k, IF v <= 9 THEN 10 ELSE IF v <= 17 THEN 17 ELSE 32)'
<1>1. v \in 1 .. 18 \/ v \in 20 .. 31
  BY VelocityAt
<1>2. v + 1 <= (IF v <= 18 THEN 19 ELSE 32)
  BY <1>1
<1>3. /\ Go("velocity") => Where(p, k, VPass(v + 1))'
      /\ Throw("velocity") /\ (v <= 16 \/ v >= 20) => Where(p, k, VCaught(v))'
  BY <1>1, <1>2, VelocityMoves DEF Go
<1>4. /\ VPass(v + 1) = IF v \in {8, 15, 30} THEN v + 2 ELSE v + 1
      /\ VCaught(v) = IF v <= 9 THEN 10 ELSE IF v <= 17 THEN 17 ELSE 32
  BY <1>1 DEF VPass, VCaught
<1> QED
  BY <1>1, <1>3, <1>4

\* Frames move only by callback and worker.
LEMMA FramesSame ==
  ASSUME UNCHANGED <<queue, cb>>, (wk'.at = "handle") <=> (wk.at = "handle"),
         wk.at = "handle" => wk'.frame = wk.frame
  PROVE  OnTheWay' = OnTheWay
  BY DEF OnTheWay

LEMMA OpenDriverInv ==
  ASSUME NEW p, NEW k, NEW v, Where(p, k, v), ChannelInv(p, k, v), DataTypes,
         NEW t \in Threads, OpenDriver(t)
  PROVE  \E k2, v2 \in Nat : Where(p, k2, v2)' /\ ChannelInv(p, k2, v2)'
<1> USE Places
<1>1. t = "velocity" /\ v = 2
  <2>1. t # "control"
    BY ControlGoes, ControlStages DEF OpenDriver
  <2>2. t = "velocity"
    BY <2>1 DEF Threads
  <2> QED
    BY <2>2, VelocityIs DEF OpenDriver
<1>2. /\ UNCHANGED <<flow, epoch, run, halted, queue, cb, wk, ssim, dp, history>>
  BY DEF OpenDriver, processVars, pipeVars, workVars, showVars
<1>3. OnTheWay' = OnTheWay /\ OnTheWay = {}
  BY <1>1, <1>2, FramesSame DEF ChannelInv, UntouchedInv, OnTheWay
<1>4. PICK v2 \in {3, 10} : Where(p, k, v2)' /\ (v2 = 3 => driver')
  BY <1>1, VelocityGoes DEF OpenDriver
<1>5. OrderInv(p, k, v2)' /\ UntouchedInv(v2)'
  BY <1>1, <1>2, <1>4 DEF ChannelInv, OrderInv, UntouchedInv
<1>6. ThreadsInv(p, k, v2)'
  BY <1>1, <1>2, <1>4 DEF ChannelInv, OrderInv, ThreadsInv
<1>7. FlowInv(p, k, v2)'
  BY <1>1, <1>2, <1>4 DEF ChannelInv, OrderInv, UntouchedInv, FlowInv, Quiet
<1>8. FrameAgeInv' /\ SortedInv'
  BY <1>1, <1>2, <1>3, <1>4 DEF ChannelInv, FrameAgeInv, SortedInv
<1>9. RunInv(p, k)'
  BY <1>1, <1>2, <1>3 DEF ChannelInv, UntouchedInv, RunInv, Live
<1> QED
  BY <1>4, <1>5, <1>6, <1>7, <1>8, <1>9 DEF ChannelInv

LEMMA FlowOnInv ==
  ASSUME NEW p, NEW k, NEW v, Where(p, k, v), ChannelInv(p, k, v), DataTypes,
         NEW t \in Threads, ConfigureDriverOn(t)
  PROVE  \E k2, v2 \in Nat : Where(p, k2, v2)' /\ ChannelInv(p, k2, v2)'
<1> USE Places
<1>1. /\ UNCHANGED <<driver, epoch, run, halted, queue, cb, wk, ssim, dp, history>>
      /\ (driver /\ flow') \/ flow' = flow
  BY DEF ConfigureDriverOn, processVars, pipeVars, workVars, showVars
<1>2. OnTheWay' = OnTheWay /\ Live' = Live
  BY <1>1, FramesSame DEF Live
<1>3. /\ t = "velocity" => v = 14
      /\ t = "control" => \/ p = "stopCard" /\ k = 9
                          \/ p = "restartCard" /\ k = 6
                          \/ p \in Siblings /\ k = 5
                          \/ p = "restartBoth" /\ k = 2
  BY ControlGoes, ControlStages, VelocityIs DEF ConfigureDriverOn
<1>4. PICK k2 \in Nat, v2 \in Nat :
        /\ Where(p, k2, v2)'
        /\ t = "velocity" => k2 = k /\ v = 14 /\ v2 \in {15, 17}
        /\ t = "control" => v2 = v /\ (k2 = k + 1 \/ k2 = Size[p] + 1)
  <2>1. CASE t = "velocity"
    <3>1. Where(p, k, 15)' \/ Where(p, k, 17)'
      BY <1>3, <2>1, VelocityGoes DEF ConfigureDriverOn
    <3> QED
      BY <1>3, <2>1, <3>1
  <2>2. CASE t = "control"
    <3>1. p \in CommandPrograms /\ k + 1 \in Nat /\ Size[p] + 1 \in Nat
      BY <1>3, <2>2 
    <3>2. Where(p, k + 1, v)' \/ Where(p, Size[p] + 1, v)'
      BY <1>3, <2>2, <3>1, ControlGoes DEF ConfigureDriverOn
    <3> QED
      BY <2>2, <3>1, <3>2
  <2> QED
    BY <2>1, <2>2 DEF Threads
<1>5. ~Quiet(p, k2) /\ ~(p = "stopCard" /\ k2 \in 3 .. 9)
  <2>1. CASE t = "control"
    BY <1>3, <1>4, <2>1 DEF Quiet
  <2>2. CASE t = "velocity"
    <3>1. k <= Size[p] => p \in Halts
      BY <1>3, <2>2 DEF ChannelInv, OrderInv
    <3> QED
      BY <1>4, <2>2, <3>1 DEF Quiet
  <2> QED
    BY <2>1, <2>2 DEF Threads
<1>6. OrderInv(p, k2, v2)'
  BY <1>1, <1>3, <1>4 DEF ChannelInv, OrderInv, Threads
<1>7. UntouchedInv(v2)'
  <2>1. CASE t = "control"
    <3>1. v2 \in {17, 32}
      BY <1>3, <1>4, <2>1 DEF ChannelInv, OrderInv
    <3> QED
      BY <3>1 DEF UntouchedInv
  <2>2. CASE t = "velocity"
    BY <1>4, <2>2 DEF UntouchedInv
  <2> QED
    BY <2>1, <2>2 DEF Threads
<1>8. ThreadsInv(p, k2, v2)'
  BY <1>1, <1>3, <1>4 DEF ChannelInv, OrderInv, ThreadsInv, Threads
<1>9. FlowInv(p, k2, v2)'
  <2>1. (flow' => driver') /\ (cb'.at = "dma" => driver' \/ history'.masked)
    BY <1>1 DEF ChannelInv, FlowInv
  <2>2. ~(p = "stopCard" /\ k2 \in 7 .. 8)
    BY <1>5
  <2>3. /\ t = "velocity" => cb'.at = "idle" /\ v2 < 23
        /\ t = "control" => p \notin Halts /\ v2 \in {17, 32}
    BY <1>1, <1>3, <1>4 DEF ChannelInv, OrderInv, UntouchedInv
  <2> QED
    BY <1>5, <2>1, <2>2, <2>3 DEF FlowInv, Threads
<1>10. FrameAgeInv' /\ SortedInv'
  BY <1>1, <1>2 DEF ChannelInv, FrameAgeInv, SortedInv
<1>11. RunInv(p, k2)'
  <2>1. ~(p = "stopCard" /\ k2 \in 6 .. 8)
    BY <1>5
  <2>2. CASE t = "control"
    BY <1>1, <1>2, <1>5, <2>1, <2>2 DEF ChannelInv, RunInv
  <2>3. CASE t = "velocity"
    BY <1>1, <1>2, <1>3, <1>5, <2>1, <2>3 DEF ChannelInv, RunInv, UntouchedInv
  <2> QED
    BY <2>2, <2>3 DEF Threads
<1> QED
  BY <1>4, <1>6, <1>7, <1>8, <1>9, <1>10, <1>11 DEF ChannelInv

\* The velocity thread is before its loop.
LEMMA StartsUpPlaces ==
  ASSUME NEW p, NEW k, NEW v, Where(p, k, v)
  PROVE  StartsUp <=> v <= 16
<1> DEFINE q == VProgram(v)
           j == VStep(v)
<1>1. /\ q \in Programs /\ Doing("velocity", q, j) /\ v \in 1 .. 32
  BY WhereDoing DEF Where
<1>2. /\ Program[q] \in Seq(Stages) /\ Len(Program[q]) = Size[q] /\ j \in 1 .. Len(Program[q]) + 1
      /\ todo["velocity"] = Rest(Program[q], j)
  BY <1>1, ProgramSizes DEF Doing, Place
<1>3. /\ DOMAIN todo["velocity"] = 1 .. Size[q] + 1 - j
      /\ \A i \in DOMAIN todo["velocity"] : todo["velocity"][i] = Program[q][j + i - 1]
  <2> DEFINE c == Program[q]
  <2>1. c \in Seq(Stages) /\ Len(c) = Size[q] /\ j \in 1 .. Len(c) + 1 /\ todo["velocity"] = Rest(c, j)
    BY <1>2
  <2> HIDE DEF c
  <2>2. /\ DOMAIN Rest(c, j) = 1 .. Len(c) + 1 - j
        /\ \A i \in DOMAIN Rest(c, j) : Rest(c, j)[i] = c[j + i - 1]
    BY <2>1, RestOf
  <2>3. /\ DOMAIN todo["velocity"] = 1 .. Size[q] + 1 - j
        /\ \A i \in DOMAIN todo["velocity"] : todo["velocity"][i] = c[j + i - 1]
    BY <2>1, <2>2, Zenon
  <2> QED
    BY <2>3 DEF c
<1>4. Size["velocity"] = 18 /\ Size["halt"] = 12
  BY DEF Size
<1> HIDE DEF q, j
<1>5. CASE v <= 19
  <2>1. q = "velocity" /\ j = v
    BY <1>5 DEF q, j, VProgram, VStep
  <2>2. ASSUME NEW i \in 1 .. 19 - v
        PROVE  todo["velocity"][i] = "loop" <=> v + i - 1 = 17
    <3>0. v \in 1 .. 19 /\ i \in Nat /\ i >= 1 /\ i <= 19 - v
      BY <1>1, <1>5
    <3>1. v + i - 1 \in 1 .. 18 /\ i \in DOMAIN todo["velocity"]
      <4>1. v + i - 1 \in 1 .. 18
        BY <3>0
      <4>2. DOMAIN todo["velocity"] = 1 .. 19 - v
        <5>1. DOMAIN todo["velocity"] = 1 .. 18 + 1 - v
          BY <1>3, <1>4, <2>1, Zenon
        <5> QED
          BY <3>0, <5>1
      <4> QED
        BY <4>1, <4>2
    <3>2. todo["velocity"][i] = Program["velocity"][v + i - 1]
      BY <1>3, <2>1, <3>1
    <3>3. Program["velocity"][v + i - 1] = "loop" <=> v + i - 1 = 17
      BY <3>1, VelocityStages
    <3> QED
      BY <3>2, <3>3
  <2>3. CASE v <= 16
    <3>1. 18 - v \in DOMAIN todo["velocity"] /\ 18 - v > 1 /\ 18 - v \in 1 .. 19 - v
      BY <1>1, <1>3, <1>4, <2>1, <2>3
    <3>2. todo["velocity"][18 - v] = "loop"
      BY <1>1, <2>2, <3>1
    <3> QED
      BY <2>3, <3>1, <3>2 DEF StartsUp
  <2>4. CASE v > 16
    <3>1. \A i \in DOMAIN todo["velocity"] : i \in 1 .. 19 - v /\ (i > 1 => v + i - 1 # 17)
      BY <1>1, <1>3, <1>4, <2>1, <2>4
    <3> QED
      BY <1>1, <2>2, <2>4, <3>1 DEF StartsUp
  <2> QED
    BY <1>1, <2>3, <2>4
<1>6. CASE v > 19
  <2>1. q = "halt" /\ j = v - 19
    BY <1>1, <1>6 DEF q, j, VProgram, VStep
  <2>2. ASSUME NEW i \in DOMAIN todo["velocity"]
        PROVE  todo["velocity"][i] # "loop"
    <3>1. j + i - 1 \in 1 .. Size["halt"] /\ "halt" \in CommandPrograms \cup Halts
      <4>1. i \in 1 .. 13 - j /\ j \in 1 .. 13
        BY <1>1, <1>3, <1>4, <1>6, <2>1
      <4> QED
        BY <1>4, <4>1 DEF Halts
    <3>2. Program["halt"][j + i - 1] # "loop"
      BY <3>1, ControlStages
    <3> QED
      BY <1>3, <2>1, <3>2
  <2> QED
    BY <1>1, <1>6, <2>2 DEF StartsUp
<1> QED
  BY <1>1, <1>5, <1>6

LEMMA FlowOffPlaces ==
  ASSUME NEW p, NEW k, NEW v, Where(p, k, v), NEW t \in Threads, At(t, "flowOff")
  PROVE  /\ t = "velocity" => v \in {3, 22}
         /\ t = "control" => \/ p = "stopCard" /\ k = 5
                             \/ p \in {"restartCard"} \cup Siblings /\ k = 1
                             \/ p = "stopBoth" /\ k = 3
                             \/ p \in Halts /\ k = 3
         /\ t = "velocity" /\ Go(t) => Where(p, k, v + 1)'
         /\ t = "velocity" /\ v = 22 /\ Skip(t, 2) => Where(p, k, 24)'
         /\ t = "velocity" /\ Throw(t) => Where(p, k, IF v = 3 THEN 10 ELSE 32)'
         /\ t = "control" /\ Go(t) => Where(p, k + 1, v)'
         /\ t = "control" /\ Skip(t, 2) => Where(p, k + 2, v)'
         /\ t = "control" /\ Throw(t) =>
              Where(p, IF p \in Halts THEN 13 ELSE Size[p] + 1, v)'
<1> USE Places
<1>1. CASE t = "velocity"
  <2>1. v \in {3, 22}
    BY <1>1, VelocityIs
  <2>2. Go(t) => Where(p, k, v + 1)'
    BY <1>1, <2>1, VelocityGoes
  <2>3. Throw(t) => Where(p, k, IF v = 3 THEN 10 ELSE 32)'
    BY <1>1, <2>1, VelocityGoes
  <2>4. v = 22 /\ Skip(t, 2) => Where(p, k, 24)'
    BY <1>1, VelocityMoves DEF VPass
  <2> QED
    BY <1>1, <2>1, <2>2, <2>3, <2>4
<1>2. CASE t = "control"
  <2>1. \/ p = "stopCard" /\ k = 5
        \/ p \in {"restartCard"} \cup Siblings /\ k = 1
        \/ p = "stopBoth" /\ k = 3
        \/ p \in Halts /\ k = 3
    BY <1>2, ControlGoes, ControlStages
  <2>2. Go(t) => Where(p, k + 1, v)'
    BY <1>2, <2>1, ControlGoes
  <2>3. Throw(t) => Where(p, IF p \in Halts THEN 13 ELSE Size[p] + 1, v)'
    BY <1>2, <2>1, ControlGoes
  <2>4. Skip(t, 2) => Where(p, k + 2, v)'
    <3>1. k \in 1 .. Size[p] /\ k + 2 <= Size[p] + 1
      BY <2>1
    <3>2. Skip(t, 2) => Where(p, Pass(p, k + 2), v)'
      BY <1>2, <3>1, ControlMoves
    <3>3. Pass(p, k + 2) = k + 2
      <4>1. (p \in CommandPrograms \/ p \in Halts) /\ k + 2 # 12 /\ k + 2 \in Nat
        BY <2>1
      <4> QED
        BY <4>1, Passes
    <3> QED
      BY <3>2, <3>3
  <2> QED
    BY <1>2, <2>1, <2>2, <2>3, <2>4
<1> QED
  BY <1>1, <1>2 DEF Threads

\* Turning the flow off ends a run, and with the reset all frames of it that are still on
\* their way are left over.
LEMMA FlowOffInv ==
  ASSUME NEW p, NEW k, NEW v, Where(p, k, v), ChannelInv(p, k, v), DataTypes,
         NEW t \in Threads, ConfigureDriverOff(t)
  PROVE  \E k2, v2 \in Nat : Where(p, k2, v2)' /\ ChannelInv(p, k2, v2)'
<1> USE Places
<1> DEFINE done == driver /\ flow' = FALSE /\ epoch' = IF flow THEN epoch + 1 ELSE epoch
           reset == done /\ ResetStatistics /\ Go(t)
           unseen == done /\ Throw(t) /\ Masks /\ UNCHANGED ssim
           failed == Throw(t) /\ UNCHANGED <<flow, epoch, ssim, history>>
           masks == /\ driver /\ UNCHANGED <<flow, epoch, ssim>> /\ Masks
                    /\ Go(t) \/ ((t = "velocity" => ~StartsUp) /\ Skip(t, 2))
<1>1. /\ reset \/ unseen \/ failed \/ masks
      /\ UNCHANGED <<driver, run, halted, queue, cb, wk, dp>>
  BY DEF ConfigureDriverOff, processVars, pipeVars, showVars
<1>2. OnTheWay' = OnTheWay
  BY <1>1, FramesSame
<1>3. At(t, "flowOff")
  BY DEF ConfigureDriverOff
<1> HIDE DEF done, reset, unseen, failed, masks
<1>4. PICK k2 \in Nat, v2 \in Nat :
        /\ Where(p, k2, v2)'
        /\ \/ t = "velocity" /\ v = 3 /\ v2 \in {4, 10} /\ k2 = k
           \/ t = "velocity" /\ v = 22 /\ v2 = 23 /\ k2 = k /\ (reset \/ masks)
           \/ t = "velocity" /\ v = 22 /\ v2 = 24 /\ k2 = k /\ masks
           \/ t = "velocity" /\ v = 22 /\ v2 = 32 /\ k2 = k
           \/ /\ t = "control" /\ v2 = v
              /\ \/ p \in CommandPrograms /\ k2 = Size[p] + 1
                 \/ p \in Halts /\ k = 3 /\ k2 = 13
                 \/ p = "stopCard" /\ k = 5 /\ (k2 = 6 \/ (k2 = 7 /\ masks))
                    /\ (reset \/ masks) /\ driver
                 \/ p \in {"restartCard"} \cup Siblings /\ k = 1 /\ k2 \in 2 .. 3
                    /\ (reset \/ masks) /\ driver
                 \/ p = "stopBoth" /\ k = 3 /\ k2 \in 4 .. 5
                 \/ p \in Halts /\ k = 3 /\ k2 = 4 /\ (reset \/ masks)
                 \/ p \in Halts /\ k = 3 /\ k2 = 5 /\ masks
  <2>1. CASE t = "velocity"
    <3>1. v \in {3, 22}
      BY <1>3, <2>1, FlowOffPlaces
    <3>2. CASE reset \/ (masks /\ Go(t))
      <4>1. Where(p, k, v + 1)'
        BY <1>3, <2>1, <3>2, FlowOffPlaces DEF reset, masks
      <4> QED
        BY <2>1, <3>1, <3>2, <4>1
    <3>3. CASE masks /\ Skip(t, 2) /\ ~StartsUp
      <4>1. v = 22
        BY <3>1, <3>3, StartsUpPlaces
      <4>2. Where(p, k, 24)'
        BY <1>3, <2>1, <3>3, <4>1, FlowOffPlaces
      <4> QED
        BY <2>1, <3>3, <4>1, <4>2
    <3>4. CASE unseen \/ failed
      <4>1. Where(p, k, IF v = 3 THEN 10 ELSE 32)'
        BY <1>3, <2>1, <3>4, FlowOffPlaces DEF unseen, failed
      <4> QED
        BY <2>1, <3>1, <4>1
    <3> QED
      BY <1>1, <2>1, <3>2, <3>3, <3>4 DEF masks
  <2>2. CASE t = "control"
    <3>1. \/ p = "stopCard" /\ k = 5
          \/ p \in {"restartCard"} \cup Siblings /\ k = 1
          \/ p = "stopBoth" /\ k = 3
          \/ p \in Halts /\ k = 3
      BY <1>3, <2>2, FlowOffPlaces
    <3>2. CASE reset \/ (masks /\ Go(t))
      <4>1. Where(p, k + 1, v)' /\ driver
        BY <1>3, <2>2, <3>2, FlowOffPlaces DEF reset, masks, done
      <4> QED
        BY <2>2, <3>1, <3>2, <4>1
    <3>3. CASE masks /\ Skip(t, 2)
      <4>1. Where(p, k + 2, v)' /\ driver
        BY <1>3, <2>2, <3>3, FlowOffPlaces DEF masks
      <4> QED
        BY <2>2, <3>1, <3>3, <4>1
    <3>4. CASE unseen \/ failed
      <4>1. Where(p, IF p \in Halts THEN 13 ELSE Size[p] + 1, v)'
        BY <1>3, <2>2, <3>4, FlowOffPlaces DEF unseen, failed
      <4> QED
        BY <2>2, <3>1, <3>4, <4>1
    <3> QED
      BY <1>1, <3>2, <3>3, <3>4 DEF masks
  <2> QED
    BY <2>1, <2>2 DEF Threads
<1>5. history'.overlap = history.overlap /\ (masks \/ unseen => history'.masked)
      /\ (reset \/ failed => history'.masked = history.masked)
  BY <1>1 DEF reset, unseen, failed, masks, ResetStatistics, Masks, DataTypes, Histories
<1>6. /\ ssim'.warm = ssim.warm /\ ssim'.started = ssim.started
      /\ ssim'.first => ssim.first \/ reset
      /\ ssim.first => ssim'.first
      /\ ~ssim'.first => ssim'.prev = ssim.prev /\ ~reset
      /\ reset => ssim'.first
  BY <1>1 DEF reset, unseen, failed, masks, ResetStatistics, DataTypes, Statistics
<1>7. OrderInv(p, k2, v2)'
  BY <1>1, <1>4, <1>5 DEF ChannelInv, OrderInv
<1>8. (flow' => flow) /\ (reset => ~flow') /\ (driver /\ (flow' # flow) => ~flow')
  BY <1>1 DEF reset, unseen, failed, masks, done
<1>9. UntouchedInv(v2)'
  BY <1>1, <1>4, <1>6, <1>8 DEF ChannelInv, UntouchedInv
<1>10. ThreadsInv(p, k2, v2)'
  BY <1>1, <1>4, <1>5 DEF ChannelInv, OrderInv, ThreadsInv
<1>11. FlowInv(p, k2, v2)'
  <2>1. (flow' => driver') /\ (cb'.at = "dma" => driver' \/ history'.masked)
    BY <1>1, <1>5, <1>8 DEF ChannelInv, FlowInv
  <2>2. Quiet(p, k2) => driver' /\ (~history'.masked => ~flow')
    <3>1. CASE Quiet(p, k)
      BY <1>1, <1>4, <1>5, <1>8, <3>1 DEF ChannelInv, FlowInv, Quiet
    <3>2. CASE Quiet(p, k2) /\ ~Quiet(p, k)
      <4>1. t = "control" /\ driver /\ (reset \/ masks)
        BY <1>1, <1>4, <3>2 DEF Quiet
      <4> QED
        BY <1>1, <1>5, <1>8, <4>1
    <3> QED
      BY <3>1, <3>2
  <2>3. ~history'.masked => ~history.masked /\ (reset \/ failed)
    BY <1>1, <1>5 DEF reset, unseen, failed, masks, ResetStatistics, Masks, DataTypes, Histories
  <2>4. ~history'.masked => (p = "stopCard" /\ k2 \in 7 .. 8 => cb'.at = "idle")
    BY <1>1, <1>4, <1>5, <2>3 DEF ChannelInv, FlowInv
  <2>5. ~history'.masked =>
          ((p \in Halts /\ k2 = 4) \/ v2 = 23 => ~flow' \/ cb'.at # "dma")
    BY <1>1, <1>4, <1>5, <1>8, <2>3 DEF ChannelInv, FlowInv
  <2>6. ~history'.masked =>
          ((p \in Halts /\ k2 \in 5 .. 11) \/ v2 \in 24 .. 30 => cb'.at # "dma")
    BY <1>1, <1>4, <1>5, <2>3 DEF ChannelInv, FlowInv
  <2> QED
    BY <2>1, <2>2, <2>4, <2>5, <2>6 DEF FlowInv
<1>12. FrameAgeInv' /\ SortedInv'
  <2>1. epoch \in Nat /\ epoch' \in Nat /\ epoch <= epoch' /\ (driver /\ flow /\ ~flow' => epoch' = epoch + 1)
    BY <1>1 DEF reset, unseen, failed, masks, done, DataTypes, CardTypes
  <2>2. OnTheWay \subseteq Nat /\ (~ssim.first => ssim.prev \in Nat)
    BY DEF OnTheWay, DataTypes, PipeTypes, Workers, Statistics
  <2>3. FrameAgeInv'
    BY <1>1, <1>2, <1>6, <1>8, <2>1, <2>2 DEF ChannelInv, FrameAgeInv
  <2>4. SortedInv'
    BY <1>1, <1>2, <1>6 DEF ChannelInv, SortedInv
  <2> QED
    BY <2>3, <2>4
<1>13. RunInv(p, k2)'
  <2>1. CASE reset
    <3>1. Live' = OnTheWay /\ history'.late = LeftOver /\ ssim'.first
      BY <1>2, <2>1 DEF reset, Live, ResetStatistics, DataTypes, Histories, Statistics
    <3> QED
      BY <1>6, <3>1 DEF RunInv, LeftOver
  <2>2. CASE failed
    <3>1. UNCHANGED <<ssim, history, flow, epoch, driver>> /\ Live' = Live
      BY <1>1, <1>2, <2>2 DEF failed, Live
    <3>2. p = "stopCard" /\ k2 \in 6 .. 8 => k2 = k \/ reset \/ masks
      BY <1>4
    <3> QED
      BY <1>5, <1>6, <2>1, <3>1, <3>2 DEF ChannelInv, RunInv
  <2>3. CASE masks \/ unseen
    BY <1>5, <2>3 DEF RunInv
  <2> QED
    BY <1>1, <2>1, <2>2, <2>3
<1> QED
  BY <1>4, <1>7, <1>9, <1>10, <1>11, <1>12, <1>13 DEF ChannelInv

LEMMA FreeInv ==
  ASSUME NEW p, NEW k, NEW v, Where(p, k, v), ChannelInv(p, k, v), DataTypes,
         NEW t \in Threads, DeAllocateMemoryBuffers(t)
  PROVE  \E k2, v2 \in Nat : Where(p, k2, v2)' /\ ChannelInv(p, k2, v2)'
<1> USE Places
<1>1. t = "control" /\ p = "stopCard" /\ k = 8
  <2>1. At(t, "free")
    BY DEF DeAllocateMemoryBuffers
  <2>2. t # "velocity"
    BY <2>1, VelocityIs
  <2>3. t = "control"
    BY <2>2 DEF Threads
  <2> QED
    BY <2>1, <2>3, ControlGoes, ControlStages
<1>2. /\ UNCHANGED <<driver, flow, epoch, run, halted, queue, cb, wk, dp>>
      /\ ssim'.first = ssim.first /\ ssim'.prev = ssim.prev
      /\ \/ ssim'.started = FALSE /\ ssim'.warm = FALSE
         \/ ssim' = ssim
  BY DEF DeAllocateMemoryBuffers, processVars, pipeVars, showVars, DataTypes, Statistics
<1>3. history' = history \/ (history'.masked /\ history'.overlap = history.overlap)
  BY DEF DeAllocateMemoryBuffers, Masks, DataTypes, Histories
<1>4. OnTheWay' = OnTheWay /\ Live' = Live
  BY <1>2, FramesSame DEF Live
<1>5. Go("control") \/ Throw("control")
  BY <1>1 DEF DeAllocateMemoryBuffers
<1>6. PICK k2 \in {9, 11} : Where(p, k2, v)'
  BY <1>1, <1>5, ControlGoes DEF DeAllocateMemoryBuffers
<1>7. OrderInv(p, k2, v)' /\ UntouchedInv(v)'
  BY <1>1, <1>2, <1>3, <1>6 DEF ChannelInv, OrderInv, UntouchedInv
<1>8. ThreadsInv(p, k2, v)'
  BY <1>1, <1>2, <1>3, <1>6 DEF ChannelInv, ThreadsInv
<1>9. FlowInv(p, k2, v)'
  BY <1>1, <1>2, <1>3, <1>6 DEF ChannelInv, FlowInv, Quiet
<1>10. FrameAgeInv' /\ SortedInv'
  BY <1>2, <1>4 DEF ChannelInv, FrameAgeInv, SortedInv
<1>11. RunInv(p, k2)'
  BY <1>1, <1>2, <1>3, <1>4, <1>6 DEF ChannelInv, RunInv, Quiet
<1> QED
  BY <1>6, <1>7, <1>8, <1>9, <1>10, <1>11 DEF ChannelInv

LEMMA StartInv ==
  ASSUME NEW p, NEW k, NEW v, Where(p, k, v), ChannelInv(p, k, v), DataTypes,
         NEW t \in Threads, StartThread(t)
  PROVE  \E k2, v2 \in Nat : Where(p, k2, v2)' /\ ChannelInv(p, k2, v2)'
<1> USE Places
<1>1. /\ UNCHANGED <<driver, flow, epoch, run, halted, queue, cb, ssim, history>>
      /\ wk' = wk \/ (wk.at = "none" /\ wk'.at = "created")
      /\ dp' = dp \/ dp' = "created"
  BY DEF StartThread, cardVars, pipeVars, DataTypes, PipeTypes, Workers
<1>2. OnTheWay' = OnTheWay /\ Live' = Live
  BY <1>1, FramesSame DEF Live
<1>3. At(t, "start") /\ Go(t)
  BY DEF StartThread
<1>4. PICK k2 \in Nat, v2 \in Nat :
        /\ Where(p, k2, v2)'
        /\ \/ v = 8 /\ v2 = 10 /\ k2 = k
           \/ p = "restartCard" /\ k = 5 /\ k2 = 6 /\ v2 = v
  <2>1. CASE t = "velocity"
    <3>1. v = 8
      BY <1>3, <2>1, VelocityIs
    <3> QED
      BY <1>3, <2>1, <3>1, VelocityGoes
  <2>2. CASE t = "control"
    <3>1. p = "restartCard" /\ k = 5
      BY <1>3, <2>2, ControlGoes, ControlStages
    <3> QED
      BY <1>3, <2>2, <3>1, ControlGoes
  <2> QED
    BY <2>1, <2>2 DEF Threads
<1>5. driver \/ history.overlap
  BY <1>4 DEF ChannelInv, ThreadsInv, FlowInv, Quiet
<1>6. v = 8 => p \in Halts \/ k = Size[p] + 1
  BY DEF ChannelInv, OrderInv
<1>7. OrderInv(p, k2, v2)' /\ UntouchedInv(v2)'
  BY <1>1, <1>4 DEF ChannelInv, OrderInv, UntouchedInv
<1>8. ThreadsInv(p, k2, v2)'
  BY <1>1, <1>4, <1>5, <1>6 DEF ChannelInv, OrderInv, ThreadsInv
<1>9. FlowInv(p, k2, v2)'
  BY <1>1, <1>4 DEF ChannelInv, FlowInv, Quiet
<1>10. FrameAgeInv' /\ SortedInv'
  BY <1>1, <1>2 DEF ChannelInv, FrameAgeInv, SortedInv
<1>11. RunInv(p, k2)'
  BY <1>1, <1>2, <1>4 DEF ChannelInv, RunInv, Quiet
<1> QED
  BY <1>4, <1>7, <1>8, <1>9, <1>10, <1>11 DEF ChannelInv

\* The steps of a stop: the flags, the two joins, the card, the end of run.
StopStep(t) ==
  StopThreadClear(t) \/ StopThreadJoin(t) \/ StopDisplayThreadJoin(t) \/ CloseCard(t) \/ Halt(t)

LEMMA StopInv ==
  ASSUME NEW p, NEW k, NEW v, Where(p, k, v), ChannelInv(p, k, v), DataTypes,
         NEW t \in Threads, StopStep(t)
  PROVE  \E k2, v2 \in Nat : Where(p, k2, v2)' /\ ChannelInv(p, k2, v2)'
<1> USE Places
<1> DEFINE joins == StopThreadJoin(t) \/ StopDisplayThreadJoin(t)
<1>1. /\ t = "control" =>
           /\ k \in 1 .. Size[p]
           /\ StopThreadClear(t) => (p = "stopCard" /\ k = 1) \/ (p \in Halts /\ k = 6)
           /\ StopThreadJoin(t) => (p = "stopCard" /\ k = 2) \/ (p \in Halts /\ k = 7)
           /\ StopDisplayThreadJoin(t) => (p = "stopCard" /\ k = 4) \/ (p \in Halts /\ k = 9)
           /\ CloseCard(t) => p \in Halts /\ k = 11
           /\ Halt(t) => p \in Halts /\ k = 1
      /\ t = "velocity" =>
           /\ StopThreadClear(t) => v = 25
           /\ StopThreadJoin(t) => v = 26
           /\ StopDisplayThreadJoin(t) => v = 28
           /\ CloseCard(t) => v = 30
           /\ Halt(t) => v = 20
  <2>1. /\ StopThreadClear(t) => At(t, "clear")
        /\ StopThreadJoin(t) => At(t, "joinWorker")
        /\ StopDisplayThreadJoin(t) => At(t, "joinDisplay")
        /\ CloseCard(t) => At(t, "close")
        /\ Halt(t) => At(t, "halt")
    BY DEF StopThreadClear, StopThreadJoin, StopDisplayThreadJoin, CloseCard, Halt
  <2>2. CASE t = "control"
    BY <2>1, <2>2, ControlGoes, ControlStages DEF StopStep
  <2>3. CASE t = "velocity"
    BY <2>1, <2>3, VelocityIs
  <2> QED
    BY <2>2, <2>3 DEF Threads
<1>2. /\ UNCHANGED <<epoch, halted, queue, cb, ssim>>
      /\ history' = history \/ (history'.masked = history.masked /\ history'.late = history.late /\ history'.overlap = history.overlap)
      /\ UNCHANGED <<driver, flow>> \/ (CloseCard(t) /\ ~driver' /\ ~flow')
      /\ run' = run \/ (Halt(t) /\ ~run')
      /\ dp' = dp \/ (StopDisplayThreadJoin(t) /\ dp' = "none")
      /\ StopDisplayThreadJoin(t) /\ ~Throw(t) => dp' = "none"
      /\ StopThreadJoin(t) /\ ~Throw(t) => wk'.at = "none"
      /\ Halt(t) => ~run'
  BY DEF StopStep, StopThreadClear, StopThreadJoin, StopDisplayThreadJoin, CloseCard, Halt, JoinFails,
         cardVars, processVars, pipeVars, workVars, showVars, DataTypes, PipeTypes, Workers, Histories
<1>3. wk'.at = wk.at \/ (wk.at \notin {"none", "handle"} /\ wk'.at \notin {"handle"})
  BY DEF StopStep, StopThreadClear, StopThreadJoin, StopDisplayThreadJoin, CloseCard, Halt,
         workVars, DataTypes, PipeTypes, Workers
<1>4. wk.at = "handle" => wk'.frame = wk.frame
  BY DEF StopStep, StopThreadClear, StopThreadJoin, StopDisplayThreadJoin, CloseCard, Halt,
         workVars, DataTypes, PipeTypes, Workers
<1>5. OnTheWay' = OnTheWay /\ Live' = Live
  BY <1>2, <1>3, <1>4, FramesSame DEF Live
<1>6. Go(t) \/ (Throw(t) /\ joins)
  BY DEF StopStep, StopThreadClear, StopThreadJoin, StopDisplayThreadJoin, CloseCard, Halt, JoinFails
<1>7. PICK k2 \in Nat, v2 \in Nat :
        /\ Where(p, k2, v2)'
        /\ \/ /\ t = "control" /\ v2 = v
              /\ \/ k2 = (IF p \in Halts /\ k = 11 THEN 13 ELSE k + 1) /\ (joins => ~Throw(t))
                 \/ joins /\ k2 = (IF p \in Halts THEN 13 ELSE 11)
           \/ /\ t = "velocity" /\ k2 = k
              /\ \/ v2 = (IF v = 30 THEN 32 ELSE v + 1) /\ (joins => ~Throw(t))
                 \/ joins /\ v2 = 32
  <2>1. CASE t = "control"
    <3>1. PICK stage : At("control", stage)
      BY <2>1 DEF StopStep, StopThreadClear, StopThreadJoin, StopDisplayThreadJoin, CloseCard, Halt
    <3>2. CASE Throw(t) /\ joins
      <4>1. p = "stopCard" \/ (p \in Halts /\ k <= 12)
        BY <1>1, <2>1, <3>2
      <4>2. Where(p, IF p \in Halts THEN 13 ELSE 11, v)'
        BY <2>1, <3>1, <3>2, <4>1, ControlGoes
      <4> QED
        BY <2>1, <3>2, <4>2
    <3>3. CASE Go(t) /\ ~(Throw(t) /\ joins)
      <4>1. Where(p, IF p \in Halts /\ k = 11 THEN 13 ELSE k + 1, v)'
        BY <2>1, <3>1, <3>3, ControlGoes
      <4> QED
        BY <2>1, <3>3, <4>1
    <3> QED
      BY <1>6, <3>2, <3>3
  <2>2. CASE t = "velocity"
    <3>1. PICK stage : At("velocity", stage)
      BY <2>2 DEF StopStep, StopThreadClear, StopThreadJoin, StopDisplayThreadJoin, CloseCard, Halt
    <3>2. v \in {20, 25, 26, 28, 30}
      BY <1>1, <2>2 DEF StopStep
    <3>3. CASE Throw(t) /\ joins
      <4>1. Where(p, k, 32)'
        BY <2>2, <3>1, <3>2, <3>3, VelocityGoes
      <4> QED
        BY <2>2, <3>3, <4>1
    <3>4. CASE Go(t) /\ ~(Throw(t) /\ joins)
      <4>1. Where(p, k, IF v = 30 THEN 32 ELSE v + 1)'
        BY <2>2, <3>1, <3>2, <3>4, VelocityGoes
      <4> QED
        BY <2>2, <3>2, <3>4, <4>1
    <3> QED
      BY <1>6, <3>3, <3>4
  <2> QED
    BY <2>1, <2>2 DEF Threads
<1> HIDE DEF joins
<1>8. OrderInv(p, k2, v2)'
  BY <1>1, <1>2, <1>7 DEF ChannelInv, OrderInv, StopStep, joins
<1>9. UntouchedInv(v2)'
  BY <1>1, <1>2, <1>3, <1>7 DEF ChannelInv, OrderInv, UntouchedInv, StopStep
<1>10. ThreadsInv(p, k2, v2)'
  BY <1>1, <1>2, <1>3, <1>7 DEF ChannelInv, OrderInv, ThreadsInv, StopStep, joins
<1>11. FlowInv(p, k2, v2)'
  BY <1>1, <1>2, <1>7 DEF ChannelInv, OrderInv, FlowInv, Quiet, StopStep, joins
<1>12. FrameAgeInv' /\ SortedInv'
  <2>1. FrameAgeInv'
    BY <1>1, <1>2, <1>5 DEF ChannelInv, FrameAgeInv
  <2>2. SortedInv'
    BY <1>2, <1>3, <1>4, <1>5 DEF ChannelInv, SortedInv
  <2> QED
    BY <2>1, <2>2
<1>13. RunInv(p, k2)'
  BY <1>1, <1>2, <1>5, <1>7 DEF ChannelInv, RunInv, Quiet, StopStep, joins
<1> QED
  BY <1>7, <1>8, <1>9, <1>10, <1>11, <1>12, <1>13 DEF ChannelInv

----------------------------------------------------------------------------
(* Callback, worker and display.                                           *)

\* Frames that go, or are only looked at by others, are no harm.
LEMMA FramesGo ==
  ASSUME NEW p, NEW k, FrameAgeInv, RunInv(p, k), OnTheWay' \subseteq OnTheWay, Live' \subseteq Live,
         UNCHANGED <<driver, flow, epoch, history>>, ssim'.warm = ssim.warm,
         ssim.first => ssim'.first, ~ssim'.first => ssim'.prev = ssim.prev
  PROVE  FrameAgeInv' /\ RunInv(p, k)'
<1>1. FrameAgeInv'
  BY DEF FrameAgeInv
<1>2. RunInv(p, k)'
  <2> SUFFICES ASSUME ~history.masked
               PROVE  RunInv(p, k)'
    BY DEF RunInv
  <2> QED
    BY DEF RunInv
<1> QED
  BY <1>1, <1>2

LEMMA CallbackEnterInv ==
  ASSUME NEW p, NEW k, NEW v, Where(p, k, v), ChannelInv(p, k, v), DataTypes, CallbackEnter
  PROVE  ChannelInv(p, k, v)'
<1> USE Places
<1>1. /\ driver /\ flow /\ run /\ cb.at = "idle" /\ cb'.at = "dma" /\ cb'.frame = epoch
      /\ UNCHANGED <<driver, flow, epoch, run, halted, queue, wk, dp, ssim, history>>
  BY DEF CallbackEnter, cardVars, processVars, workVars, showVars
<1>2. OnTheWay' = OnTheWay \cup {epoch}
  BY <1>1 DEF OnTheWay
<1>3. Live' = Live \cup {epoch}
  BY <1>1, <1>2 DEF Live
<1>4. OrderInv(p, k, v)' /\ UntouchedInv(v)' /\ ThreadsInv(p, k, v)'
  BY <1>1 DEF ChannelInv, OrderInv, UntouchedInv, ThreadsInv
<1>5. FlowInv(p, k, v)'
  BY <1>1 DEF ChannelInv, OrderInv, FlowInv, Quiet
<1>6. epoch \in Nat /\ Live \subseteq Nat /\ \A f \in Live : f <= epoch
  BY DEF Live, OnTheWay, DataTypes, CardTypes, PipeTypes, Workers, Statistics, ChannelInv, FrameAgeInv
<1>7. FrameAgeInv'
  BY <1>1, <1>2, <1>6 DEF ChannelInv, FrameAgeInv
<1>8. SortedInv'
  <2>1. /\ \A i \in DOMAIN queue : queue[i] \in OnTheWay
        /\ wk.at = "handle" => wk.frame \in OnTheWay
    BY DEF OnTheWay
  <2> QED
    BY <1>1, <1>2, <1>6, <2>1 DEF ChannelInv, FrameAgeInv, SortedInv
<1>9. RunInv(p, k)'
  <2> SUFFICES ASSUME ~history.masked
               PROVE  RunInv(p, k)'
    BY <1>1 DEF RunInv
  <2>1. ~Quiet(p, k)
    BY <1>1 DEF ChannelInv, FlowInv
  <2>2. /\ ~ssim.warm => ssim.first
        /\ ssim.warm => \A f \in Live : \A g \in Live : f < g => f \in history.late
        /\ ssim.warm => \A f \in Live : f = epoch \/ f \in history.late
        /\ p = "stopCard" /\ k \in 6 .. 8 => ssim.first
    BY <1>1 DEF ChannelInv, RunInv
  <2>3. ssim.warm => \A f \in Live' : \A g \in Live' : f < g => f \in history.late
    <3> SUFFICES ASSUME ssim.warm, NEW f \in Live', NEW g \in Live', f < g
                 PROVE  f \in history.late
      OBVIOUS
    <3>1. (f \in Live \/ f = epoch) /\ (g \in Live \/ g = epoch)
      BY <1>3
    <3>2. CASE f \in Live /\ g \in Live
      BY <2>2, <3>2
    <3>3. CASE f \in Live /\ g = epoch
      <4>1. f # epoch
        BY <1>6, <3>3
      <4> QED
        BY <2>2, <3>3, <4>1
    <3>4. CASE f = epoch
      BY <1>6, <3>1, <3>4
    <3> QED
      BY <3>1, <3>2, <3>3, <3>4
  <2> QED
    BY <1>1, <1>3, <2>1, <2>2, <2>3 DEF RunInv
<1> QED
  BY <1>4, <1>5, <1>7, <1>8, <1>9 DEF ChannelInv

LEMMA CallbackDmaInv ==
  ASSUME NEW p, NEW k, NEW v, Where(p, k, v), ChannelInv(p, k, v), DataTypes, CallbackDma
  PROVE  ChannelInv(p, k, v)'
<1> USE Places
<1>1. /\ UNCHANGED <<driver, flow, epoch, run, halted, queue, wk, dp, ssim, history>>
      /\ cb.at = "dma" /\ (cb'.at = "idle" \/ (cb'.at = "push" /\ cb'.frame = cb.frame))
  BY DEF CallbackDma, NoFrame, cardVars, processVars, workVars, showVars, DataTypes, PipeTypes
<1>2. OnTheWay' \subseteq OnTheWay
  BY <1>1 DEF OnTheWay
<1>3. Live' \subseteq Live
  BY <1>1, <1>2 DEF Live
<1>4. OrderInv(p, k, v)' /\ UntouchedInv(v)' /\ ThreadsInv(p, k, v)'
  BY <1>1 DEF ChannelInv, OrderInv, UntouchedInv, ThreadsInv
<1>5. FlowInv(p, k, v)'
  BY <1>1 DEF ChannelInv, FlowInv, Quiet
<1>6. FrameAgeInv' /\ RunInv(p, k)'
  BY <1>1, <1>2, <1>3, FramesGo DEF ChannelInv
<1>7. SortedInv'
  BY <1>1, <1>2 DEF ChannelInv, SortedInv
<1> QED
  BY <1>4, <1>5, <1>6, <1>7 DEF ChannelInv

LEMMA CallbackPushInv ==
  ASSUME NEW p, NEW k, NEW v, Where(p, k, v), ChannelInv(p, k, v), DataTypes, CallbackPush
  PROVE  ChannelInv(p, k, v)'
<1> USE Places
<1>1. /\ UNCHANGED <<driver, flow, epoch, run, halted, dp, ssim, history>>
      /\ cb.at = "push" /\ cb'.at = "idle" /\ queue' = Append(queue, cb.frame)
      /\ wk' = wk \/ (wk.at = "wait" /\ wk'.at = "check")
  BY DEF CallbackPush, NoFrame, cardVars, processVars, showVars, DataTypes, PipeTypes, Workers
<1>2. /\ queue \in Seq(Nat) /\ DOMAIN queue' = 1 .. Len(queue) + 1 /\ Len(queue) \in Nat
      /\ DOMAIN queue = 1 .. Len(queue)
      /\ \A i \in DOMAIN queue : i \in DOMAIN queue' /\ queue'[i] = queue[i]
      /\ \A i \in DOMAIN queue' : i = Len(queue) + 1 \/ i \in DOMAIN queue
      /\ queue'[Len(queue) + 1] = cb.frame
      /\ cb.frame \in Nat
  BY <1>1 DEF DataTypes, PipeTypes
<1>3. OnTheWay' = OnTheWay
  <2>1. {queue'[i] : i \in DOMAIN queue'} = {queue[i] : i \in DOMAIN queue} \cup {cb.frame}
    <3>1. ASSUME NEW i \in DOMAIN queue'
          PROVE  queue'[i] \in {queue[j] : j \in DOMAIN queue} \cup {cb.frame}
      BY <1>2, <3>1, Zenon
    <3>2. ASSUME NEW i \in DOMAIN queue
          PROVE  queue[i] \in {queue'[j] : j \in DOMAIN queue'}
      BY <1>2, <3>2, Zenon
    <3>3. cb.frame \in {queue'[j] : j \in DOMAIN queue'}
      <4>1. Len(queue) + 1 \in DOMAIN queue'
        BY <1>2
      <4> QED
        BY <1>2, <4>1
    <3> QED
      BY <3>1, <3>2, <3>3
  <2> QED
    BY <1>1, <2>1 DEF OnTheWay
<1>4. Live' = Live
  BY <1>1, <1>3 DEF Live
<1>5. OrderInv(p, k, v)' /\ UntouchedInv(v)' /\ ThreadsInv(p, k, v)'
  BY <1>1 DEF ChannelInv, OrderInv, UntouchedInv, ThreadsInv
<1>6. FlowInv(p, k, v)'
  BY <1>1 DEF ChannelInv, FlowInv, Quiet
<1>7. FrameAgeInv' /\ RunInv(p, k)'
  BY <1>1, <1>3, <1>4, FramesGo DEF ChannelInv
<1>8. SortedInv'
  <2>1. wk'.at = "handle" => wk' = wk
    BY <1>1
  <2>2. \A i, j \in DOMAIN queue' : i < j => queue'[i] <= queue'[j]
    <3> SUFFICES ASSUME NEW i \in DOMAIN queue', NEW j \in DOMAIN queue', i < j
                 PROVE  queue'[i] <= queue'[j]
      OBVIOUS
    <3>1. i \in DOMAIN queue
      BY <1>2
    <3>2. CASE j \in DOMAIN queue
      BY <1>2, <3>1, <3>2 DEF ChannelInv, SortedInv
    <3>3. CASE j = Len(queue) + 1
      BY <1>1, <1>2, <3>1, <3>3 DEF ChannelInv, SortedInv
    <3> QED
      BY <1>2, <3>2, <3>3
  <2>3. wk'.at = "handle" => \A i \in DOMAIN queue' : wk'.frame <= queue'[i]
    BY <1>1, <1>2, <2>1 DEF ChannelInv, SortedInv
  <2> QED
    BY <1>1, <1>3, <2>2, <2>3 DEF ChannelInv, SortedInv
<1> QED
  BY <1>5, <1>6, <1>7, <1>8 DEF ChannelInv

\* The worker without its frames, and the display thread.
LEMMA RunsInv ==
  ASSUME NEW p, NEW k, NEW v, Where(p, k, v), ChannelInv(p, k, v), DataTypes,
         WorkerRuns \/ ThreadWorkerTest \/ ThreadWorkerSleep \/ DisplayTest \/ DisplayPop
  PROVE  ChannelInv(p, k, v)'
<1> USE Places
<1>1. /\ UNCHANGED <<driver, flow, epoch, run, halted, queue, cb, ssim, history>>
      /\ wk' = wk \/ (wk.at \notin {"none", "handle"} /\ wk'.at # "handle")
      /\ dp' = dp \/ (dp # "none")
  BY DEF WorkerRuns, ThreadWorkerTest, ThreadWorkerSleep, DisplayTest, DisplayPop, cardVars,
         processVars, pipeVars, workVars, showVars, DataTypes, PipeTypes, Workers
<1>2. OnTheWay' = OnTheWay /\ Live' = Live
  BY <1>1, FramesSame DEF Live
<1>3. OrderInv(p, k, v)' /\ UntouchedInv(v)' /\ ThreadsInv(p, k, v)' /\ FlowInv(p, k, v)'
  BY <1>1 DEF ChannelInv, OrderInv, UntouchedInv, ThreadsInv, FlowInv, Quiet
<1>4. FrameAgeInv' /\ RunInv(p, k)'
  BY <1>1, <1>2, FramesGo DEF ChannelInv
<1>5. SortedInv'
  BY <1>1, <1>2 DEF ChannelInv, SortedInv
<1> QED
  BY <1>3, <1>4, <1>5 DEF ChannelInv

LEMMA CheckInv ==
  ASSUME NEW p, NEW k, NEW v, Where(p, k, v), ChannelInv(p, k, v), DataTypes, ThreadWorkerCheck
  PROVE  ChannelInv(p, k, v)'
<1> USE Places
<1>1. /\ UNCHANGED <<driver, flow, epoch, run, halted, cb, dp, ssim, history>> /\ wk.at = "check"
      /\ \/ queue # <<>> /\ wk' = [at |-> "handle", frame |-> Head(queue)] /\ queue' = Tail(queue)
         \/ queue = <<>> /\ wk'.at # "handle" /\ queue' = queue
  BY DEF ThreadWorkerCheck, cardVars, processVars, showVars, DataTypes, PipeTypes, Workers
<1>2. CASE queue = <<>>
  <2>1. queue' = queue /\ wk'.at # "handle"
    BY <1>1, <1>2
  <2>2. OnTheWay' = OnTheWay /\ Live' = Live
    BY <1>1, <2>1, FramesSame DEF Live
  <2>3. OrderInv(p, k, v)' /\ UntouchedInv(v)' /\ ThreadsInv(p, k, v)' /\ FlowInv(p, k, v)'
    BY <1>1, <2>1 DEF ChannelInv, OrderInv, UntouchedInv, ThreadsInv, FlowInv, Quiet
  <2>4. FrameAgeInv' /\ RunInv(p, k)'
    BY <1>1, <2>2, FramesGo DEF ChannelInv
  <2>5. SortedInv'
    BY <1>1, <2>1, <2>2 DEF ChannelInv, SortedInv
  <2> QED
    BY <2>3, <2>4, <2>5 DEF ChannelInv
<1>3. CASE queue # <<>>
  <2>1. wk'.at = "handle" /\ wk'.frame = queue[1] /\ queue' = Tail(queue)
    BY <1>1, <1>3 DEF DataTypes, PipeTypes
  <2>2. /\ queue \in Seq(Nat) /\ Len(queue) \in Nat /\ Len(queue) > 0
        /\ DOMAIN queue = 1 .. Len(queue) /\ DOMAIN queue' = 1 .. Len(queue) - 1
        /\ \A i \in DOMAIN queue' : i + 1 \in DOMAIN queue /\ queue'[i] = queue[i + 1]
        /\ \A i \in DOMAIN queue : i = 1 \/ (i - 1 \in DOMAIN queue' /\ queue[i] = queue'[i - 1])
    BY <1>3, <2>1 DEF DataTypes, PipeTypes
  <2>3. OnTheWay' = OnTheWay
    <3>1. {queue[i] : i \in DOMAIN queue} = {queue'[i] : i \in DOMAIN queue'} \cup {wk'.frame}
      <4>1. ASSUME NEW i \in DOMAIN queue
            PROVE  queue[i] \in {queue'[j] : j \in DOMAIN queue'} \cup {wk'.frame}
        BY <2>1, <2>2, <4>1, Zenon
      <4>2. ASSUME NEW i \in DOMAIN queue'
            PROVE  queue'[i] \in {queue[j] : j \in DOMAIN queue}
        BY <2>2, <4>2, Zenon
      <4>3. wk'.frame \in {queue[j] : j \in DOMAIN queue}
        <5>1. 1 \in DOMAIN queue
          BY <2>2
        <5> QED
          BY <2>1, <5>1
      <4> QED
        BY <4>1, <4>2, <4>3
    <3> QED
      BY <1>1, <2>1, <3>1 DEF OnTheWay
  <2>4. Live' = Live
    BY <1>1, <2>3 DEF Live
  <2>5. OrderInv(p, k, v)' /\ UntouchedInv(v)' /\ ThreadsInv(p, k, v)' /\ FlowInv(p, k, v)'
    BY <1>1, <1>3 DEF ChannelInv, OrderInv, UntouchedInv, ThreadsInv, FlowInv, Quiet
  <2>6. FrameAgeInv' /\ RunInv(p, k)'
    BY <1>1, <2>3, <2>4, FramesGo DEF ChannelInv
  <2>7. SortedInv'
    <3>1. 1 \in DOMAIN queue /\ \A i \in DOMAIN queue' : 1 < i + 1 /\ i \in Nat
      BY <2>2
    <3>2. \A i \in DOMAIN queue' : wk'.frame <= queue'[i]
      BY <2>1, <2>2, <3>1 DEF ChannelInv, SortedInv
    <3>3. \A i, j \in DOMAIN queue' : i < j => queue'[i] <= queue'[j]
      <4> SUFFICES ASSUME NEW i \in DOMAIN queue', NEW j \in DOMAIN queue', i < j
                   PROVE  queue'[i] <= queue'[j]
        OBVIOUS
      <4>1. i + 1 \in DOMAIN queue /\ j + 1 \in DOMAIN queue /\ i + 1 < j + 1
        BY <2>2, <3>1
      <4> QED
        BY <2>2, <4>1 DEF ChannelInv, SortedInv
    <3>4. cb'.at # "idle" => wk'.frame <= cb'.frame /\ \A i \in DOMAIN queue' : queue'[i] <= cb'.frame
      BY <1>1, <2>1, <2>2, <3>1 DEF ChannelInv, SortedInv
    <3>5. ~ssim'.first => \A f \in OnTheWay' : ssim'.prev <= f
      BY <1>1, <2>3 DEF ChannelInv, SortedInv
    <3> QED
      BY <3>2, <3>3, <3>4, <3>5 DEF SortedInv
  <2> QED
    BY <2>5, <2>6, <2>7 DEF ChannelInv
<1> QED
  BY <1>2, <1>3

\* The frame compared becomes the next one's reference, or is forgotten.
LEMMA HandleInv ==
  ASSUME NEW p, NEW k, NEW v, Where(p, k, v), ChannelInv(p, k, v), DataTypes, Handle
  PROVE  ChannelInv(p, k, v)'
<1> USE Places
<1>1. /\ UNCHANGED <<driver, flow, epoch, run, halted, queue, cb, dp, history>>
      /\ wk.at = "handle" /\ wk'.at = "test"
  BY DEF Handle, cardVars, processVars, pipeVars
<1>2. /\ ssim'.warm = ssim.warm
      /\ ~ssim.warm => ssim'.first = ssim.first /\ ssim'.prev = ssim.prev
      /\ \/ ssim'.first = ssim.first /\ ssim'.prev = ssim.prev
         \/ ssim.warm /\ ~ssim'.first /\ ssim'.prev = wk.frame
  BY DEF Handle, CalculateSSIM, DataTypes, Statistics
<1>3. OnTheWay = OnTheWay' \cup {wk.frame}
  BY <1>1 DEF OnTheWay
<1>4. Live' \subseteq Live
  BY <1>2, <1>3 DEF Live
<1>5. v \in 15 .. 32
  BY <1>1 DEF ChannelInv, UntouchedInv
<1>6. OrderInv(p, k, v)' /\ UntouchedInv(v)' /\ ThreadsInv(p, k, v)' /\ FlowInv(p, k, v)'
  BY <1>1, <1>5 DEF ChannelInv, OrderInv, UntouchedInv, ThreadsInv, FlowInv, Quiet
<1>7. FrameAgeInv'
  BY <1>1, <1>2, <1>3 DEF ChannelInv, FrameAgeInv
<1>8. SortedInv'
  <2>1. \A f \in OnTheWay' : wk.frame <= f
    <3>1. OnTheWay' = {queue[i] : i \in DOMAIN queue}
                        \cup (IF cb.at = "idle" THEN {} ELSE {cb.frame})
      BY <1>1 DEF OnTheWay
    <3> QED
      BY <1>1, <3>1 DEF ChannelInv, SortedInv
  <2> QED
    BY <1>1, <1>2, <1>3, <2>1 DEF ChannelInv, SortedInv
<1>9. RunInv(p, k)'
  <2> SUFFICES ASSUME ~history.masked
               PROVE  RunInv(p, k)'
    BY <1>1 DEF RunInv
  <2>1. ~(p = "stopCard" /\ k \in 6 .. 8)
    BY <1>1 DEF ChannelInv, ThreadsInv
  <2> QED
    BY <1>1, <1>2, <1>4, <2>1 DEF ChannelInv, RunInv
<1> QED
  BY <1>6, <1>7, <1>8, <1>9 DEF ChannelInv

\* When ten seconds are over, all frames on their way are of the current run.
LEMMA TenSecondsInv ==
  ASSUME NEW p, NEW k, NEW v, Where(p, k, v), ChannelInv(p, k, v), DataTypes, TenSeconds
  PROVE  ChannelInv(p, k, v)'
<1> USE Places
<1>1. /\ UNCHANGED <<driver, flow, epoch, run, halted, queue, cb, wk, dp, history>>
      /\ ssim.started /\ ~ssim.warm /\ OnTheWay \subseteq {epoch}
      /\ ssim'.first = ssim.first /\ ssim'.prev = ssim.prev
  BY DEF TenSeconds, cardVars, processVars, pipeVars, showVars, DataTypes, Statistics
<1>2. OnTheWay' = OnTheWay /\ Live' = Live
  BY <1>1, FramesSame DEF Live
<1>3. v \in 15 .. 32
  BY <1>1 DEF ChannelInv, UntouchedInv
<1>4. OrderInv(p, k, v)' /\ UntouchedInv(v)' /\ ThreadsInv(p, k, v)' /\ FlowInv(p, k, v)'
  BY <1>1, <1>3 DEF ChannelInv, OrderInv, UntouchedInv, ThreadsInv, FlowInv, Quiet
<1>5. FrameAgeInv' /\ SortedInv'
  BY <1>1, <1>2 DEF ChannelInv, FrameAgeInv, SortedInv
<1>6. RunInv(p, k)'
  <2> SUFFICES ASSUME ~history.masked
               PROVE  RunInv(p, k)'
    BY <1>1 DEF RunInv
  <2>1. ssim.first /\ Live = OnTheWay
    BY <1>1 DEF ChannelInv, RunInv, Live
  <2>2. epoch \in Nat
    BY DEF DataTypes, CardTypes
  <2>3. driver /\ ~flow => Live = {}
    <3> SUFFICES ASSUME driver, ~flow, NEW f \in Live
                 PROVE  FALSE
      OBVIOUS
    <3>1. f = epoch
      BY <1>1, <2>1
    <3>2. f < epoch
      BY <2>1 DEF ChannelInv, FrameAgeInv
    <3> QED
      BY <2>2, <3>1, <3>2
  <2>4. \A f \in Live : f = epoch
    BY <1>1, <2>1
  <2>5. /\ \A f \in Live : \A g \in Live : ~(f < g)
        /\ driver /\ ~flow => Live \subseteq history.late
    BY <2>2, <2>3, <2>4
  <2> QED
    BY <1>1, <1>2, <2>1, <2>4, <2>5 DEF RunInv
<1> QED
  BY <1>4, <1>5, <1>6 DEF ChannelInv

----------------------------------------------------------------------------
(* main, and all steps together.                                           *)

\* A thread that has nothing to do, or waits for commands.
LEMMA IdleThreads ==
  ASSUME NEW p, NEW k, NEW v, Where(p, k, v)
  PROVE  /\ todo["control"] = <<>> <=> k = Size[p] + 1
         /\ todo["velocity"] = <<>> => v \in {19, 32}
         /\ At("velocity", "loop") => v = 17
<1>1. /\ p \in Programs /\ VProgram(v) \in Programs /\ v \in 1 .. 32
      /\ Doing("control", p, k) /\ Doing("velocity", VProgram(v), VStep(v))
  BY WhereDoing, Places
<1>2. Size["velocity"] = 18 /\ Size["halt"] = 12
  BY DEF Size
<1>3. todo["control"] = <<>> <=> k = Size[p] + 1
  BY <1>1, DoingStage
<1>4. todo["velocity"] = <<>> => v \in {19, 32}
  <2>1. todo["velocity"] = <<>> <=> VStep(v) = Size[VProgram(v)] + 1
    BY <1>1, DoingStage
  <2>2. CASE v <= 19
    BY <1>1, <1>2, <2>1, <2>2 DEF VProgram, VStep
  <2>3. CASE v > 19
    BY <1>1, <1>2, <2>1, <2>3 DEF VProgram, VStep
  <2>4. v <= 19 \/ v > 19
    BY <1>1
  <2> QED
    BY <2>2, <2>3, <2>4
<1>5. At("velocity", "loop") => v = 17
  BY VelocityIs
<1> QED
  BY <1>3, <1>4, <1>5

LEMMA Begins ==
  ASSUME NEW p, NEW k, NEW v, Where(p, k, v), NEW q \in Controls, NEW j \in 1 .. Size[q] + 1,
         todo' = [todo EXCEPT !["control"] = Place(q, j)]
  PROVE  Where(q, j, v)'
<1>1. todo' = [t \in Threads |-> IF t = "velocity" THEN VPlace(v) ELSE Place(q, j)]
  BY DEF Where, Threads
<1> QED
  BY <1>1 DEF Where

LEMMA MainInv ==
  ASSUME NEW p, NEW k, NEW v, Where(p, k, v), ChannelInv(p, k, v), DataTypes,
         ProcessCommands \/ StopAllSystemsOnce \/ DestroyDriverManager
  PROVE  \E p2 \in Controls, k2, v2 \in Nat : Where(p2, k2, v2)' /\ ChannelInv(p2, k2, v2)'
<1> USE Places
<1>1. /\ UNCHANGED <<driver, flow, epoch, run, queue, cb, wk, dp, ssim>>
      /\ history'.masked = history.masked /\ history'.late = history.late
      /\ k = Size[p] + 1 /\ todo \in [Threads -> Seq(Stages)]
  <2>1. todo["control"] = <<>>
    BY DEF ProcessCommands, StopAllSystemsOnce, DestroyDriverManager, Threads
  <2> QED
    BY <2>1, IdleThreads, WhereDoing DEF ProcessCommands, StopAllSystemsOnce, DestroyDriverManager, cardVars, processVars,
     pipeVars, workVars, showVars, DataTypes, Histories
<1>2. OnTheWay' = OnTheWay /\ Live' = Live
  BY <1>1, FramesSame DEF Live
<1>3. PICK p2 \in Controls, k2 \in Nat :
        /\ Where(p2, k2, v)'
        /\ \/ p2 \in CommandPrograms /\ k2 = 1 /\ ~halted /\ UNCHANGED <<halted, history>> /\ v \in {17, 32}
           \/ p2 = "halt" /\ k2 = 1 /\ ~halted /\ halted' /\ (~history'.overlap => v >= 17)
           \/ p2 = "exit" /\ k2 = 1 /\ halted /\ UNCHANGED <<halted, history>> /\ v \in {19, 32}
           \/ p2 = "exit" /\ k2 = 13 /\ halted /\ UNCHANGED <<halted, history>> /\ v \in {19, 32} /\ ~run
  <2>1. CASE ProcessCommands
    <3>1. PICK c \in {StopCard, RestartCard, StopSibling, RestartSibling, StopBoth, RestartBoth} :
            todo' = [todo EXCEPT !["control"] = c]
      BY <2>1 DEF ProcessCommands
    <3>2. \E q \in CommandPrograms : Program[q] = c
      BY <3>1 DEF CommandPrograms, Siblings, Program
    <3>3. PICK q \in CommandPrograms : Program[q] = c
      BY <3>2
    <3>4. q \in Controls /\ q \in Programs /\ Place(q, 1) = c /\ Size[q] \in Nat
      BY <3>3, Whole, SizeRanges DEF Controls, Programs
    <3>5. Where(q, 1, v)'
      <4>1. todo' = [todo EXCEPT !["control"] = Place(q, 1)]
        BY <3>1, <3>4, Zenon
      <4>2. 1 \in 1 .. Size[q] + 1
        BY <3>4
      <4> QED
        BY <3>4, <4>1, <4>2, Begins
    <3>6. ~halted /\ UNCHANGED <<halted, history>> /\ v \in {17, 32}
      BY <2>1, IdleThreads DEF ProcessCommands, ChannelInv, OrderInv
    <3> QED
      BY <3>4, <3>5, <3>6
  <2>2. CASE StopAllSystemsOnce
    <3>1. "halt" \in Controls /\ Place("halt", 1) = StopFlickerDetection /\ Size["halt"] = 12
      <4>1. "halt" \in Controls /\ "halt" \in Programs
        BY DEF Controls, Programs, Halts
      <4>2. Program["halt"] = StopFlickerDetection /\ Size["halt"] = 12
        BY DEF Program, Size
      <4> QED
        BY <4>1, <4>2, Whole
    <3>2. Where("halt", 1, v)'
      <4>1. todo' = [todo EXCEPT !["control"] = Place("halt", 1)]
        BY <2>2, <3>1, Zenon DEF StopAllSystemsOnce
      <4>2. 1 \in 1 .. Size["halt"] + 1
        BY <3>1
      <4> QED
        BY <3>1, <4>1, <4>2, Begins
    <3>3. ~halted /\ halted' /\ (~history'.overlap => v >= 17)
      <4>1. history'.overlap = StartsUp
        BY <2>2 DEF StopAllSystemsOnce, DataTypes, Histories
      <4> QED
        BY <2>2, <4>1, StartsUpPlaces DEF StopAllSystemsOnce
    <3> QED
      BY <3>1, <3>2, <3>3
  <2>3. CASE DestroyDriverManager
    <3>1. /\ "exit" \in Controls /\ Size["exit"] = 13 /\ Place("exit", 13) = <<"end">>
          /\ Place("exit", 1) = StopFlickerDetection \o <<"end">>
      <4>1. "exit" \in Controls /\ "exit" \in Programs
        BY DEF Controls, Programs, Halts
      <4>2. Program["exit"] = StopFlickerDetection \o <<"end">> /\ Size["exit"] = 13
        BY DEF Program, Size
      <4> QED
        BY <4>1, <4>2, Whole
    <3>2. halted /\ UNCHANGED <<halted, history>> /\ v \in {19, 32}
      <4>1. todo["velocity"] = <<>>
        BY <2>3 DEF DestroyDriverManager, Threads
      <4> QED
        BY <2>3, <4>1, IdleThreads DEF DestroyDriverManager, processVars
    <3>3. CASE run \/ driver
      <4>1. todo' = [todo EXCEPT !["control"] = Place("exit", 1)]
        BY <2>3, <3>1, <3>3 DEF DestroyDriverManager
      <4>2. Where("exit", 1, v)'
        <5>1. 1 \in 1 .. Size["exit"] + 1
          BY <3>1
        <5> QED
          BY <3>1, <4>1, <5>1, Begins
      <4> QED
        BY <3>1, <3>2, <4>2
    <3>4. CASE ~(run \/ driver)
      <4>1. <<>> \o <<"end">> = <<"end">>
        OBVIOUS
      <4>2. todo' = [todo EXCEPT !["control"] = Place("exit", 13)]
        BY <2>3, <3>1, <3>4, <4>1 DEF DestroyDriverManager
      <4>3. Where("exit", 13, v)'
        <5>1. 13 \in 1 .. Size["exit"] + 1
          BY <3>1
        <5> QED
          BY <3>1, <4>2, <5>1, Begins
      <4> QED
        BY <3>1, <3>2, <3>4, <4>3
    <3> QED
      BY <3>3, <3>4
  <2> QED
    BY <2>1, <2>2, <2>3
<1>4. p2 \in Halts => p2 \notin CommandPrograms
  BY DEF Halts, CommandPrograms, Siblings
<1>5. "halt" \in Halts /\ "exit" \in Halts /\ "stopCard" \notin Halts
  BY DEF Halts
<1>6. OrderInv(p2, k2, v)'
  BY <1>1, <1>3, <1>4, <1>5 DEF ChannelInv, OrderInv
<1>7. UntouchedInv(v)'
  BY <1>1 DEF ChannelInv, UntouchedInv
<1>8. ThreadsInv(p2, k2, v)'
  <2>1. history.overlap => history'.overlap
    BY <1>3 DEF ChannelInv, OrderInv
  <2>2. ~(p2 = "stopCard" /\ k2 \in 3 .. 10) /\ ~(p2 \in Halts /\ k2 \in 10 .. 11)
    BY <1>3, <1>5
  <2> QED
    BY <1>1, <2>1, <2>2 DEF ChannelInv, ThreadsInv
<1>9. ~Quiet(p2, k2) /\ ~(p2 = "stopCard" /\ k2 \in 6 .. 8) /\ ~(p2 \in Halts /\ k2 \in 4 .. 11)
  BY <1>3, <1>5 DEF Quiet, Halts, Siblings
<1>10. FlowInv(p2, k2, v)'
  BY <1>1, <1>9 DEF ChannelInv, FlowInv
<1>11. FrameAgeInv' /\ SortedInv'
  BY <1>1, <1>2 DEF ChannelInv, FrameAgeInv, SortedInv
<1>12. RunInv(p2, k2)'
  BY <1>1, <1>2, <1>9 DEF ChannelInv, RunInv
<1> QED
  BY <1>3, <1>6, <1>7, <1>8, <1>10, <1>11, <1>12, Places DEF ChannelInv

LEMMA CaptureInit == Init => CaptureInv
<1> SUFFICES ASSUME Init
             PROVE  CaptureInv
  OBVIOUS
<1>1. DataTypes
  BY DataTypesInit
<1>2. "stopCard" \in Controls /\ "stopCard" \in Programs /\ "velocity" \in Programs
      /\ "stopCard" \notin Halts /\ Size["stopCard"] = 10
  BY DEF Controls, Programs, CommandPrograms, Halts, Siblings, Size
<1>3. Place("stopCard", 11) = <<>> /\ Place("velocity", 1) = StartFlickerDetection
  <2>1. Place("stopCard", Size["stopCard"] + 1) = <<>> /\ Size["stopCard"] + 1 = 11
    BY <1>2, Whole
  <2>2. Program["velocity"] = StartFlickerDetection
    BY DEF Program
  <2> QED
    BY <1>2, <2>1, <2>2, Whole
<1>4. Where("stopCard", 11, 1)
  <2>1. todo = [t \in Threads |-> IF t = "velocity" THEN Place("velocity", 1) ELSE Place("stopCard", 11)]
    BY <1>3, Zenon DEF Init
  <2>2. VPlace(1) = Place("velocity", 1)
    BY DEF VPlace
  <2> QED
    BY <1>2, <2>1, <2>2 DEF Where
<1>5. OnTheWay = {} /\ Live = {}
  BY DEF Init, NoFrame, OnTheWay, Live
<1>6. ChannelInv("stopCard", 11, 1)
  <2>1. OrderInv("stopCard", 11, 1)
    BY <1>2 DEF Init, OrderInv
  <2>2. UntouchedInv(1)
    BY DEF Init, UntouchedInv, NoFrame
  <2>3. ThreadsInv("stopCard", 11, 1)
    BY <1>2 DEF Init, ThreadsInv
  <2>4. FlowInv("stopCard", 11, 1)
    BY <1>2 DEF Init, FlowInv, Quiet, Siblings, NoFrame
  <2>5. FrameAgeInv /\ SortedInv
    BY <1>5 DEF Init, FrameAgeInv, SortedInv, NoFrame
  <2>6. RunInv("stopCard", 11)
    BY <1>5 DEF Init, RunInv
  <2> QED
    BY <2>1, <2>2, <2>3, <2>4, <2>5, <2>6 DEF ChannelInv
<1> QED
  BY <1>1, <1>2, <1>4, <1>6 DEF CaptureInv

\* One step of any thread.
Flow ==
  \/ CallbackEnter \/ CallbackDma \/ CallbackPush
  \/ WorkerRuns \/ ThreadWorkerTest \/ ThreadWorkerCheck \/ ThreadWorkerSleep \/ Handle
  \/ TenSeconds \/ DisplayTest \/ DisplayPop

LEMMA Steps ==
  ASSUME Next
  PROVE  Flow \/ (\E t \in Threads : StageStep(t))
              \/ ProcessCommands \/ StopAllSystemsOnce \/ DestroyDriverManager
  BY DEF Next, Flow, UserCallBack_Card1, UserCallBack_Card2, CallbackStep,
         ThreadWorker_Card1_CH1, ThreadWorker_Card1_CH2, ThreadWorker_Card2_CH1,
         ThreadWorker_Card2_CH2, HandleCard1Channel1, HandleCard1Channel2, HandleCard2Channel1,
         HandleCard2Channel2, Display_worker_card1_ch1, Display_worker_card1_ch2,
         Display_worker_card2_ch1, Display_worker_card2_ch2

LEMMA StageKinds ==
  ASSUME NEW t, StageStep(t)
  PROVE  StillStep(t) \/ OpenDriver(t) \/ ConfigureDriverOn(t) \/ ConfigureDriverOff(t)
         \/ DeAllocateMemoryBuffers(t) \/ StartThread(t) \/ StopStep(t)
  BY DEF StageStep, StillStep, StopStep, StartCard1Channel1Thread, StartCard1Channel2Thread,
         StartCard2Channel1Thread, StartCard2Channel2Thread

LEMMA CaptureStep == CaptureInv /\ [Next]_vars => CaptureInv'
<1> SUFFICES ASSUME CaptureInv, [Next]_vars
             PROVE  CaptureInv'
  OBVIOUS
<1>1. PICK p \in Controls, k \in Nat, v \in Nat : Where(p, k, v) /\ ChannelInv(p, k, v)
  BY DEF CaptureInv
<1>2. DataTypes
  BY DEF CaptureInv
<1>3. CASE Flow
  <2>1. todo' = todo
    BY <1>3 DEF Flow, CallbackEnter, CallbackDma, CallbackPush, WorkerRuns, ThreadWorkerTest,
       ThreadWorkerCheck, ThreadWorkerSleep, Handle, TenSeconds, DisplayTest, DisplayPop
  <2>2. Where(p, k, v)'
    BY <1>1, <2>1 DEF Where
  <2>3. ChannelInv(p, k, v)'
    BY <1>1, <1>2, <1>3, CallbackEnterInv, CallbackDmaInv, CallbackPushInv, RunsInv, CheckInv,
       HandleInv, TenSecondsInv DEF Flow
  <2>4. DataTypes'
    BY <1>2, <1>3, PipeStepTypes DEF Flow
  <2> QED
    BY <2>2, <2>3, <2>4 DEF CaptureInv
<1>4. CASE \E t \in Threads : StageStep(t)
  <2>1. PICK t \in Threads : StageStep(t)
    BY <1>4
  <2>2. \E k2, v2 \in Nat : Where(p, k2, v2)' /\ ChannelInv(p, k2, v2)'
    BY <1>1, <1>2, <2>1, StageKinds, StillInv, OpenDriverInv, FlowOnInv, FlowOffInv, FreeInv,
       StartInv, StopInv
  <2>3. DataTypes'
    BY <1>2, <2>1, StageTypes
  <2> QED
    BY <2>2, <2>3 DEF CaptureInv
<1>5. CASE ProcessCommands \/ StopAllSystemsOnce \/ DestroyDriverManager
  <2>1. \E p2 \in Controls, k2, v2 \in Nat : Where(p2, k2, v2)' /\ ChannelInv(p2, k2, v2)'
    BY <1>1, <1>2, <1>5, MainInv
  <2>2. DataTypes'
    BY <1>2, <1>5, MainTypes
  <2> QED
    BY <2>1, <2>2 DEF CaptureInv
<1>6. CASE UNCHANGED vars
  <2>1. Where(p, k, v)'
    BY <1>1, <1>6 DEF Where, vars
  <2>2. ChannelInv(p, k, v)'
    BY <1>1, <1>6 DEF vars, ChannelInv, OrderInv, UntouchedInv, ThreadsInv, FlowInv, FrameAgeInv,
       SortedInv, RunInv, Live, OnTheWay
  <2>3. DataTypes'
    BY <1>2, <1>6 DEF vars, DataTypes, CardTypes, ProcessTypes, PipeTypes
  <2> QED
    BY <2>1, <2>2, <2>3 DEF CaptureInv
<1> QED
  BY <1>3, <1>4, <1>5, <1>6, Steps

\* What runs where, what the flow and the threads do meanwhile, and which frames are of
\* which run.
THEOREM CaptureInductive == Spec => []CaptureInv
  BY CaptureInit, CaptureStep, PTL DEF Spec

\* The buffer goes when it is freed, or with the card: the flow has been off for a second.
LEMMA FreesBuffer ==
  ASSUME CaptureInv, Next, mem, ~mem' \/ At("control", "free")
  PROVE  cb.at # "dma" \/ history.masked
<1>1. PICK p \in Controls, k \in Nat, v \in Nat : Where(p, k, v) /\ ChannelInv(p, k, v)
  BY DEF CaptureInv
<1>2. CASE At("control", "free")
  <2>1. p = "stopCard" /\ k = 8
    BY <1>1, <1>2, ControlAt, ControlStages, Places
  <2> QED
    BY <1>1, <2>1 DEF ChannelInv, FlowInv
<1>3. CASE ~At("control", "free") /\ ~mem'
  <2>1. ~Flow /\ ~ProcessCommands /\ ~StopAllSystemsOnce /\ ~DestroyDriverManager
    BY <1>3 DEF Flow, CallbackEnter, CallbackDma, CallbackPush, WorkerRuns, ThreadWorkerTest,
       ThreadWorkerCheck, ThreadWorkerSleep, Handle, TenSeconds, DisplayTest, DisplayPop,
       ProcessCommands, StopAllSystemsOnce, DestroyDriverManager, cardVars
  <2>2. PICK t \in Threads : StageStep(t)
    BY <2>1, Steps
  <2>3. ~StillStep(t)
    BY <1>3 DEF StillStep, Configure, SleepOneSecond, IfOpen, AllocateMemoryBuffers, SiblingBuffers,
       InitializeVideoWriters, VideoWritersRelease, StopDisplayThread, LeaveLoop, CheckReturnCode,
       ExitProcess, cardVars
  <2>4. /\ ~OpenDriver(t) /\ ~ConfigureDriverOn(t) /\ ~ConfigureDriverOff(t) /\ ~StartThread(t)
        /\ ~StopThreadClear(t) /\ ~StopThreadJoin(t) /\ ~StopDisplayThreadJoin(t) /\ ~Halt(t)
    BY <1>3 DEF OpenDriver, ConfigureDriverOn, ConfigureDriverOff, StartThread, StopThreadClear,
       StopThreadJoin, StopDisplayThreadJoin, Halt, cardVars
  <2>5. At(t, "free") \/ At(t, "close")
    BY <2>2, <2>3, <2>4, StageKinds DEF StopStep, DeAllocateMemoryBuffers, CloseCard
  <2>6. CASE t = "control"
    <3>1. p \in Halts /\ k = 11
      BY <1>1, <1>3, <2>5, <2>6, ControlAt, ControlStages, Places
    <3> QED
      BY <1>1, <3>1 DEF ChannelInv, FlowInv
  <2>7. CASE t = "velocity"
    <3>1. v = 30
      BY <1>1, <2>5, <2>7, VelocityIs
    <3> QED
      BY <1>1, <3>1 DEF ChannelInv, FlowInv
  <2> QED
    BY <2>6, <2>7 DEF Threads
<1> QED
  BY <1>2, <1>3

\* A stop of the channel, or of everything, closes the writer when the display thread has
\* been joined.
LEMMA ReleasesWriter ==
  ASSUME CaptureInv, NEW t \in Threads, At(t, "release")
  PROVE  dp # "write" \/ history.overlap
<1>1. PICK p \in Controls, k \in Nat, v \in Nat : Where(p, k, v) /\ ChannelInv(p, k, v)
  BY DEF CaptureInv
<1>2. CASE t = "control"
  <2>1. (p = "stopCard" /\ k = 7) \/ (p \in Halts /\ k = 10)
    BY <1>1, <1>2, ControlAt, ControlStages, Places
  <2> QED
    BY <1>1, <2>1 DEF ChannelInv, ThreadsInv
<1>3. CASE t = "velocity"
  <2>1. v = 29
    BY <1>1, <1>3, VelocityIs
  <2> QED
    BY <1>1, <2>1 DEF ChannelInv, ThreadsInv
<1> QED
  BY <1>2, <1>3 DEF Threads

\* Nothing else closes it but what stops, or opens anew, the writers of the whole card.
LEMMA ClosesWriter ==
  ASSUME Next, video, ~video'
  PROVE  (\E t \in Threads : At(t, "release")) \/ WholeCard
<1>1. ~Flow /\ ~ProcessCommands /\ ~StopAllSystemsOnce /\ ~DestroyDriverManager
  BY DEF Flow, CallbackEnter, CallbackDma, CallbackPush, WorkerRuns, ThreadWorkerTest,
     ThreadWorkerCheck, ThreadWorkerSleep, Handle, TenSeconds, DisplayTest, DisplayPop,
     ProcessCommands, StopAllSystemsOnce, DestroyDriverManager, cardVars
<1>2. PICK t \in Threads : StageStep(t)
  BY <1>1, Steps
<1>3. /\ ~OpenDriver(t) /\ ~ConfigureDriverOn(t) /\ ~ConfigureDriverOff(t) /\ ~StartThread(t)
      /\ ~DeAllocateMemoryBuffers(t) /\ ~StopStep(t)
  BY DEF OpenDriver, ConfigureDriverOn, ConfigureDriverOff, StartThread, DeAllocateMemoryBuffers,
     StopStep, StopThreadClear, StopThreadJoin, StopDisplayThreadJoin, CloseCard, Halt, cardVars
<1>4. StillStep(t)
  BY <1>2, <1>3, StageKinds
<1>5. InitializeVideoWriters(t) \/ VideoWritersRelease(t)
  BY <1>4 DEF StillStep, Configure, SleepOneSecond, IfOpen, AllocateMemoryBuffers, SiblingBuffers,
     StopDisplayThread, LeaveLoop, CheckReturnCode, ExitProcess, cardVars
<1> QED
  BY <1>5 DEF InitializeVideoWriters, VideoWritersRelease, WholeCard

\* What is given back is not in use: neither the buffer, by the callback, nor the video
\* writer, by the display thread - but for the masked failure, the stop that meets the
\* start-up and the commands for the writers of the whole card, which the property names.
THEOREM BuffersFreedUnused == Spec => FreedUnused
<1>1. ASSUME CaptureInv, Next
      PROVE  /\ mem /\ (~mem' \/ (At("control", "free") /\ todo' # todo))
                   => cb.at # "dma" \/ history.masked
             /\ video /\ ~video' => dp # "write" \/ history.overlap \/ WholeCard
  BY <1>1, FreesBuffer, ReleasesWriter, ClosesWriter
<1>2. ASSUME CaptureInv, [Next]_vars
      PROVE  [/\ mem /\ (~mem' \/ (At("control", "free") /\ todo' # todo))
                   => cb.at # "dma" \/ history.masked
              /\ video /\ ~video' => dp # "write" \/ history.overlap \/ WholeCard]_vars
  BY <1>1, <1>2 DEF vars
<1> QED
  BY <1>2, CaptureInductive, PTL DEF Spec, FreedUnused

\* The frame that is compared and the reference image are both live, and the reference is
\* not the younger one; of two runs they can only be when it was left over from the first.
THEOREM RunsKeptApart == Spec => ComparedWithinRun
<1>1. ASSUME CaptureInv, wk.at = "handle", ssim.warm, ~ssim.first
      PROVE  ssim.prev = wk.frame \/ ssim.prev \in history.late \/ history.masked
  <2>1. PICK p \in Controls, k \in Nat, v \in Nat : Where(p, k, v) /\ ChannelInv(p, k, v)
    BY <1>1 DEF CaptureInv
  <2>2. wk.frame \in OnTheWay /\ wk.frame \in Live /\ ssim.prev \in Live
    BY <1>1 DEF OnTheWay, Live
  <2>3. wk.frame \in Nat /\ ssim.prev \in Nat /\ ssim.prev <= wk.frame
    BY <1>1, <2>1, <2>2 DEF CaptureInv, DataTypes, PipeTypes, Workers, Statistics, ChannelInv, SortedInv
  <2> QED
    BY <1>1, <2>1, <2>2, <2>3 DEF ChannelInv, RunInv
<1>2. ASSUME CaptureInv, [Next]_vars
      PROVE  [wk.at = "handle" /\ wk'.at # "handle" /\ ssim.warm /\ ~ssim.first
                => \/ ssim.prev = wk.frame
                   \/ ssim.prev \in history.late
                   \/ history.masked]_vars
  BY <1>1, <1>2
<1> QED
  BY <1>2, CaptureInductive, PTL DEF Spec, ComparedWithinRun

===============================================================================
