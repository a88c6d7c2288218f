---------------------------- MODULE HealthReports ----------------------------
(***************************************************************************)
(* The health monitors of the CMC and the VMC application.  The unit sends *)
(* reports by itself; the RX worker of each port hands them to             *)
(* hm_handle_packet, and the main loop prints them once a second with      *)
(* hm_print_dashboard.                                                     *)
(*   CMC: the workers push into a bounded ring, the dashboard empties it   *)
(*        and prints the last report of each kind.                         *)
(*   VMC: one slot per kind, each behind its own mutex, overwritten in     *)
(*        place; the dashboard prints every slot ever filled.              *)
(* A kind is a pair of VL-ID and report type, a report the number of the   *)
(* packet it came in; its two halves stand for the many stores with which  *)
(* it is copied and byte-swapped.  Length and message-id tests decide      *)
(* whether a packet is a report at all.  The VMC counts a packet of a CBIT *)
(* VL-ID before most of these tests, every other one after its report was  *)
(* taken over.                                                             *)
(***************************************************************************)
EXTENDS Naturals, Sequences, FiniteSets

CONSTANTS
    Workers,    \* RX workers
    Kinds,
    CbitKinds,  \* those of the VMC's two CBIT VL-IDs
    Capacity,   \* HM_RING_CAPACITY, one slot of which stays empty
    MaxPackets  \* bound on the packets handled

ASSUME CapacityAssumption == Capacity \in Nat \ {0, 1} /\ MaxPackets \in Nat

VARIABLES
    app,        \* which of the two programs
    worker,     \* what each worker is doing, and with which report
    slot, slotLock,                      \* VMC
    ring, head, tail, ringLock, drained, \* CMC; drained is drain_buf
    main,       \* the main loop: sleeping or in hm_print_dashboard
    unprinted,  \* VMC: slots the dashboard has not come to yet
    shown,      \* the screen
    rxTotal, rxRejected, rxDrop, rxDrained,  \* counters
    rxByKind,   \* the counters of the kinds, added up
    badCbit     \* history: CBIT packets that turned out to be no report

slots == <<slot, slotLock, unprinted>>
queue == <<ring, head, tail, ringLock, drained>>
counters == <<rxTotal, rxByKind, rxRejected, rxDrop, rxDrained, badCbit>>
vars == <<app, worker, slots, queue, main, shown, counters>>

NoReport == 0
Reports == 1..MaxPackets
Items == [kind : Kinds, report : Reports \cup {NoReport}]
Free == "free"
Labels == {"idle", "accept", "cbit", "parse", "push", "publish", "full"}

ASSUME SetsAssumption ==
    /\ IsFiniteSet(Workers) /\ Free \notin Workers
    /\ Kinds # {} /\ CbitKinds \subseteq Kinds

Empty == [first |-> NoReport, second |-> NoReport]

Init ==
    /\ app \in {"CMC", "VMC"}
    /\ worker = [w \in Workers |-> [at |-> "idle", item |-> [kind |-> CHOOSE k \in Kinds : TRUE,
                                                             report |-> NoReport]]]
    /\ slot = [k \in Kinds |-> Empty] /\ slotLock = [k \in Kinds |-> Free]
    /\ ring = [i \in 0..Capacity - 1 |-> [kind |-> CHOOSE k \in Kinds : TRUE, report |-> NoReport]]
    /\ head = 0 /\ tail = 0 /\ ringLock = Free /\ drained = <<>>
    /\ main = "sleep" /\ unprinted = {}
    /\ shown = [k \in Kinds |-> Empty]
    /\ rxTotal = 0 /\ rxByKind = 0 /\ rxRejected = 0 /\ rxDrop = 0 /\ rxDrained = 0 /\ badCbit = 0

At(w, label) == worker[w].at = label
Goes(w, label) == worker' = [worker EXCEPT ![w].at = label]

----------------------------------------------------------------------------
(* hm_handle_packet on an RX worker. *)

Receive(w, k) ==
    /\ At(w, "idle") /\ rxTotal < MaxPackets
    /\ rxTotal' = rxTotal + 1
    /\ worker' = [worker EXCEPT ![w] = [at |-> "accept", item |-> [kind |-> k, report |-> rxTotal']]]
    /\ UNCHANGED <<app, slots, queue, main, shown, rxByKind, rxRejected, rxDrop, rxDrained, badCbit>>

\* too short, of unknown length, VL-ID or message id: counted and dropped
Reject(w) ==
    /\ At(w, "idle") /\ rxTotal < MaxPackets
    /\ rxTotal' = rxTotal + 1 /\ rxRejected' = rxRejected + 1
    /\ UNCHANGED <<app, worker, slots, queue, main, shown, rxByKind, rxDrop, rxDrained, badCbit>>

\* VMC: a packet of a CBIT VL-ID that has room for the header is counted
CountCbit(w) ==
    /\ app = "VMC" /\ At(w, "accept") /\ worker[w].item.kind \in CbitKinds
    /\ rxByKind' = rxByKind + 1
    /\ Goes(w, "cbit")
    /\ UNCHANGED <<app, slots, queue, main, shown, rxTotal, rxRejected, rxDrop, rxDrained, badCbit>>

\* it is of unknown message id, too short for its report, or empty: counted again
RejectCbit(w) ==
    /\ At(w, "cbit")
    /\ rxRejected' = rxRejected + 1 /\ badCbit' = badCbit + 1
    /\ Goes(w, "idle")
    /\ UNCHANGED <<app, slots, queue, main, shown, rxTotal, rxByKind, rxDrop, rxDrained>>

\* VMC: the slot is locked and the parser starts to overwrite it
ParseBegin(w) ==
    LET k == worker[w].item.kind IN
    /\ app = "VMC" /\ At(w, IF k \in CbitKinds THEN "cbit" ELSE "accept")
    /\ slotLock[k] = Free /\ slotLock' = [slotLock EXCEPT ![k] = w]
    /\ slot' = [slot EXCEPT ![k].first = worker[w].item.report]
    /\ Goes(w, "parse")
    /\ UNCHANGED <<app, queue, main, unprinted, shown, counters>>

ParseEnd(w) ==
    LET k == worker[w].item.kind IN
    /\ At(w, "parse")
    /\ slot' = [slot EXCEPT ![k].second = worker[w].item.report]
    /\ slotLock' = [slotLock EXCEPT ![k] = Free]
    /\ rxByKind' = IF k \in CbitKinds THEN rxByKind ELSE rxByKind + 1
    /\ Goes(w, "idle")
    /\ UNCHANGED <<app, queue, main, unprinted, shown, rxTotal, rxRejected, rxDrop, rxDrained,
                   badCbit>>

\* CMC: the report is copied into an item of its own and counted by its type
CopyItem(w) ==
    /\ app = "CMC" /\ At(w, "accept")
    /\ rxByKind' = rxByKind + 1
    /\ Goes(w, "push")
    /\ UNCHANGED <<app, slots, queue, main, shown, rxTotal, rxRejected, rxDrop, rxDrained, badCbit>>

NextIndex(i) == (i + 1) % Capacity

\* mutant: nobody looks whether there is room
PushBeginOverwrites(w) ==
    /\ At(w, "push") /\ ringLock = Free
    /\ ringLock' = w /\ Goes(w, "publish")
    /\ ring' = [ring EXCEPT ![head] = worker[w].item]
    /\ UNCHANGED <<app, slots, head, tail, drained, main, shown, counters>>

\* hm_ring_push: the item is stored at the head, if there is room for it
PushBegin(w) ==
    /\ At(w, "push") /\ ringLock = Free
    /\ IF NextIndex(head) # tail
       THEN /\ ringLock' = w /\ Goes(w, "publish")
            /\ ring' = [ring EXCEPT ![head] = worker[w].item]
       ELSE Goes(w, "full") /\ UNCHANGED <<ring, ringLock>>
    /\ UNCHANGED <<app, slots, head, tail, drained, main, shown, counters>>

PushEnd(w) ==
    /\ At(w, "publish")
    /\ head' = NextIndex(head) /\ ringLock' = Free
    /\ Goes(w, "idle")
    /\ UNCHANGED <<app, slots, ring, tail, drained, main, shown, counters>>

\* the ring was full: the report that came last is the one that is lost
Drop(w) ==
    /\ At(w, "full")
    /\ rxDrop' = rxDrop + 1
    /\ Goes(w, "idle")
    /\ UNCHANGED <<app, slots, queue, main, shown, rxTotal, rxByKind, rxRejected, rxDrained,
                   badCbit>>

HandlePacket(w) ==
    \/ CountCbit(w) \/ RejectCbit(w)
    \/ ParseBegin(w) \/ ParseEnd(w)
    \/ CopyItem(w) \/ PushBegin(w) \/ PushEnd(w) \/ Drop(w)

----------------------------------------------------------------------------
(* hm_print_dashboard on the main thread. *)

\* the ring from tail to head
Waiting == [i \in 1..((head + Capacity - tail) % Capacity) |-> ring[(tail + i - 1) % Capacity]]

Occurs(items, k) == \E i \in DOMAIN items : items[i].kind = k

\* the last item of a kind
LastOf(items, k) ==
    items[CHOOSE i \in DOMAIN items :
             items[i].kind = k /\ \A j \in DOMAIN items : items[j].kind = k => j <= i]

\* CMC: hm_ring_drain
DrainRing ==
    /\ app = "CMC" /\ main = "sleep" /\ ringLock = Free
    /\ drained' = Waiting /\ tail' = head
    /\ rxDrained' = rxDrained + Len(drained')
    /\ main' = "print"
    /\ UNCHANGED <<app, worker, slots, ring, head, ringLock, shown, rxTotal, rxByKind,
                   rxRejected, rxDrop, badCbit>>

\* of several reports of one kind the last is printed
PrintDrained ==
    /\ app = "CMC" /\ main = "print"
    /\ shown' = [k \in Kinds |->
                   IF Occurs(drained, k)
                   THEN [first |-> LastOf(drained, k).report, second |-> LastOf(drained, k).report]
                   ELSE shown[k]]
    /\ drained' = <<>>
    /\ main' = "sleep"
    /\ UNCHANGED <<app, worker, slots, ring, head, tail, ringLock, counters>>

\* VMC: the dashboard goes through the slots
StartDashboard ==
    /\ app = "VMC" /\ main = "sleep"
    /\ unprinted' = Kinds /\ main' = "print"
    /\ UNCHANGED <<app, worker, slot, slotLock, queue, shown, counters>>

\* mutant: the slot is copied without its lock
PrintSlotUnlocked(k) ==
    /\ main = "print" /\ k \in unprinted
    /\ shown' = IF slot[k] # Empty THEN [shown EXCEPT ![k] = slot[k]] ELSE shown
    /\ unprinted' = unprinted \ {k}
    /\ UNCHANGED <<app, worker, slot, slotLock, queue, main, counters>>

\* drain_and_print_*_slot: a copy under the lock, printed if the slot was ever filled
PrintSlot(k) ==
    /\ main = "print" /\ k \in unprinted
    /\ slotLock[k] = Free
    /\ shown' = IF slot[k] # Empty THEN [shown EXCEPT ![k] = slot[k]] ELSE shown
    /\ unprinted' = unprinted \ {k}
    /\ UNCHANGED <<app, worker, slot, slotLock, queue, main, counters>>

EndDashboard ==
    /\ app = "VMC" /\ main = "print" /\ unprinted = {}
    /\ main' = "sleep"
    /\ UNCHANGED <<app, worker, slots, queue, shown, counters>>

Dashboard ==
    \/ DrainRing \/ PrintDrained \/ StartDashboard
    \/ \E k \in Kinds : PrintSlot(k)
    \/ EndDashboard

Next ==
    \/ \E w \in Workers : HandlePacket(w) \/ Reject(w) \/ \E k \in Kinds : Receive(w, k)
    \/ Dashboard

\* A worker finishes the packet it has begun; the main loop goes round, and a mutex
\* that is free again and again is not kept from it for ever.
Fairness ==
    /\ \A w \in Workers : WF_vars(HandlePacket(w))
    /\ SF_vars(DrainRing) /\ WF_vars(PrintDrained)
    /\ WF_vars(StartDashboard) /\ WF_vars(EndDashboard)
    /\ \A k \in Kinds : SF_vars(PrintSlot(k))

Spec == Init /\ [][Next]_vars /\ Fairness

----------------------------------------------------------------------------
(* Properties. *)

\* Types, and no index, no list and no slot beyond its bounds.
TypeOK ==
    /\ app \in {"CMC", "VMC"}
    /\ worker \in [Workers -> [at : Labels, item : Items]]
    /\ slot \in [Kinds -> [first : 0..MaxPackets, second : 0..MaxPackets]]
    /\ slotLock \in [Kinds -> Workers \cup {Free}]
    /\ ring \in [0..Capacity - 1 -> Items]
    /\ head \in 0..Capacity - 1 /\ tail \in 0..Capacity - 1
    /\ ringLock \in Workers \cup {Free}
    /\ drained \in Seq(Items) /\ Len(drained) < Capacity
    /\ main \in {"sleep", "print"} /\ unprinted \subseteq Kinds
    /\ shown \in [Kinds -> [first : 0..MaxPackets, second : 0..MaxPackets]]
    /\ rxTotal \in 0..MaxPackets
    /\ \A c \in {rxByKind, rxRejected, rxDrop, rxDrained, badCbit} : c \in Nat

InState(labels) == Cardinality({w \in Workers : worker[w].at \in labels})

\* the packet in a worker's hands is in no counter but rxTotal yet
Uncounted(w) ==
    \/ At(w, "accept")
    \/ At(w, "parse") /\ worker[w].item.kind \notin CbitKinds

\* The counters of the dashboard's last line add up: a packet is rejected, counted under
\* its kind or in a worker's hands; only the VMC's CBIT packets that are no reports stand
\* in two counters, so that the sum is too large by just these; and a report the CMC
\* counted was drained, waits in the ring, was counted as dropped or is being pushed.
\* No report disappears in the ring.
AllAccounted ==
    /\ rxTotal + badCbit = rxRejected + rxByKind + Cardinality({w \in Workers : Uncounted(w)})
    /\ app = "CMC" => badCbit = 0
    /\ app = "CMC" => rxByKind = rxDrained + Len(Waiting) + rxDrop
                                     + InState({"push", "publish", "full"})

\* Both programs implement the board: each time the dashboard runs it shows of each
\* kind what was accepted last, neither an older report that the ring still holds nor
\* half of one report and half of another, although the parsers overwrite the slots in
\* place; and no kind is left out for ever.  The board is brought up to date when the
\* ring is emptied; the printing follows.
Torn == MaxPackets + 1

shownReport == [k \in Kinds |->
    IF Occurs(drained, k) THEN LastOf(drained, k).report
    ELSE IF shown[k].first = shown[k].second THEN shown[k].first ELSE Torn]

latestReport == [k \in Kinds |->
    IF app = "VMC"
    THEN IF slotLock[k] = Free THEN slot[k].first ELSE worker[slotLock[k]].item.report
    ELSE IF Occurs(Waiting, k) THEN LastOf(Waiting, k).report ELSE shownReport[k]]

Board == INSTANCE ReportBoard WITH
            Kinds <- Kinds, Reports <- Reports,
            latest <- latestReport, shown <- shownReport

BoardSpec == Board!Spec
=============================================================================
