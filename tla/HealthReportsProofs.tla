-------------------------- MODULE HealthReportsProofs --------------------------
(***************************************************************************)
(* Proofs about the dashboards of the CMC and the VMC: for every number of *)
(* workers, kinds and packets and every size of the ring, the counters add *)
(* up, and each step is one of the board of ReportBoard or none.           *)
(***************************************************************************)
EXTENDS HealthReports, Integers, FiniteSetTheorems, SequenceTheorems, WellFoundedInduction, TLAPS

\* What is of no use in either program, and what the dashboard holds between its rounds.
ProgramInv ==
    /\ app = "VMC" => /\ head = 0 /\ tail = 0 /\ drained = <<>>
                      /\ \A w \in Workers : worker[w].at \in {"idle", "accept", "cbit", "parse"}
    /\ app = "CMC" => /\ unprinted = {} /\ \A k \in Kinds : slotLock[k] = Free
                      /\ \A w \in Workers : worker[w].at \notin {"cbit", "parse"}
    /\ main = "sleep" => drained = <<>>

\* A worker that has stored its report and not yet moved the head holds the lock of the ring.
RingInv ==
    \A w \in Workers :
        /\ At(w, "publish") <=> ringLock = w
        /\ At(w, "publish") => NextIndex(head) # tail /\ ring[head] = worker[w].item

\* A slot of which half is overwritten is locked, and not empty.
SlotInv ==
    /\ \A w \in Workers, k \in Kinds : slotLock[k] = w <=> At(w, "parse") /\ worker[w].item.kind = k
    /\ \A w \in Workers : At(w, "parse") => slot[worker[w].item.kind].first = worker[w].item.report
    /\ \A k \in Kinds : slotLock[k] = Free => slot[k].first = slot[k].second

ReportInv == \A w \in Workers : ~At(w, "idle") => worker[w].item.report \in Reports

\* The screen has whole reports, and those of a slot that was filled.
ShownInv ==
    /\ \A k \in Kinds : shown[k].first = shown[k].second
    /\ app = "VMC" => \A k \in Kinds : slot[k] = Empty => shown[k] = Empty

\* How far the head of the ring is ahead of the tail, and the workers between the counters.
Distance(h, t) == (h + Capacity - t) % Capacity
Handling == Cardinality({w \in Workers : Uncounted(w)})
Pushing == InState({"push", "publish", "full"})

Accounts ==
    /\ rxTotal + badCbit = rxRejected + rxByKind + Handling
    /\ app = "CMC" => badCbit = 0
    /\ app = "CMC" => rxByKind = rxDrained + Distance(head, tail) + rxDrop + Pushing

IInv == TypeOK /\ Accounts /\ ProgramInv /\ RingInv /\ SlotInv /\ ReportInv /\ ShownInv

----------------------------------------------------------------------------
(* Least and greatest numbers. *)

Less == {p \in Nat \X Nat : p[1] < p[2]}

LEMMA LeastElement ==
    ASSUME NEW T \in SUBSET Nat, T # {}
    PROVE  \E m \in T : \A y \in T : m <= y
<1>1. IsWellFoundedOn(Less, Nat)
  BY NatLessThanWellFounded DEF OpToRel, Less
<1>2. PICK m \in T : \A y \in T : ~(<<y, m>> \in Less)
  BY <1>1, WFMin, Zenon
<1>3. ASSUME NEW y \in T PROVE m <= y
  <2>1. y \in Nat /\ m \in Nat /\ ~(<<y, m>> \in Less)
    BY <1>2
  <2> QED
    BY <2>1 DEF Less
<1> QED
  BY <1>3

LEMMA GreatestElement ==
    ASSUME NEW n \in Nat, NEW T \in SUBSET (1..n), T # {}
    PROVE  \E m \in T : \A y \in T : y <= m
<1> DEFINE U == {n - t : t \in T}
<1>1. \A t \in T : t \in Nat /\ n - t \in Nat
  OBVIOUS
<1>2. U \in SUBSET Nat /\ U # {}
  BY <1>1
<1>3. PICK u \in U : \A y \in U : u <= y
  <2> HIDE DEF U
  <2> QED
    BY <1>2, LeastElement
<1>4. PICK m \in T : u = n - m
  OBVIOUS
<1>5. ASSUME NEW y \in T PROVE y <= m
  <2>1. n - y \in U
    OBVIOUS
  <2>2. u <= n - y
    BY <1>3, <2>1
  <2> HIDE DEF U
  <2> QED
    BY <1>1, <1>4, <2>2
<1> QED
  BY <1>5

----------------------------------------------------------------------------
(* The ring. *)

Place(t, i) == (t + i - 1) % Capacity
Indices == 0..Capacity - 1

LEMMA Remainder ==
    ASSUME NEW d \in Nat \ {0}, NEW n \in Nat
    PROVE  /\ n < d => n % d = n
           /\ n >= d /\ n - d < d => n % d = n - d
<1>1. n < d => n % d = n
  OBVIOUS
<1> DEFINE m == n - d
<1>2. ASSUME n >= d, n - d < d PROVE n % d = n - d
  <2>1. m \in 0..d - 1 /\ n = d * 1 + m
    BY <1>2
  <2> HIDE DEF m
  <2>2. n % d = m
    BY <2>1
  <2> QED
    BY <2>2 DEF m
<1> QED
  BY <1>1, <1>2

LEMMA CapacityType == Capacity \in Nat \ {0} /\ Capacity > 1 /\ MaxPackets \in Nat
BY CapacityAssumption

LEMMA NextIndexIs ==
    ASSUME NEW h \in Indices
    PROVE  NextIndex(h) = (IF h = Capacity - 1 THEN 0 ELSE h + 1) /\ NextIndex(h) \in Indices
<1> DEFINE n == h + 1
<1>1. n \in Nat /\ n <= Capacity /\ Capacity \in Nat \ {0}
  BY CapacityType DEF Indices
<1>2. NextIndex(h) = n % Capacity
  BY DEF NextIndex
<1> HIDE DEF n
<1>3. n < Capacity => NextIndex(h) = n
  BY <1>1, <1>2, Remainder
<1>4. n = Capacity => NextIndex(h) = 0
  BY <1>1, <1>2, Remainder
<1> QED
  BY <1>1, <1>3, <1>4, CapacityType DEF n, Indices

LEMMA DistanceIs ==
    ASSUME NEW h \in Indices, NEW t \in Indices
    PROVE  Distance(h, t) = (IF h >= t THEN h - t ELSE h + Capacity - t) /\ Distance(h, t) \in Indices
<1> DEFINE n == h + Capacity - t
<1>1. n \in Nat /\ h \in Nat /\ t \in Nat /\ h < Capacity /\ t < Capacity /\ Capacity \in Nat \ {0}
  BY CapacityType DEF Indices
<1>2. Distance(h, t) = n % Capacity /\ n = h + Capacity - t
  BY DEF Distance
<1> HIDE DEF n
<1>3. n >= Capacity => Distance(h, t) = n - Capacity
  <2>1. n - Capacity < Capacity
    BY <1>1, <1>2
  <2> QED
    BY <1>1, <1>2, <2>1, Remainder
<1>4. n < Capacity => Distance(h, t) = n
  BY <1>1, <1>2, Remainder
<1> QED
  BY <1>1, <1>2, <1>3, <1>4 DEF Indices

LEMMA PlaceIs ==
    ASSUME NEW t \in Indices, NEW i \in 1..Capacity
    PROVE  Place(t, i) = (IF t + i <= Capacity THEN t + i - 1 ELSE t + i - 1 - Capacity) /\ Place(t, i) \in Indices
<1> DEFINE n == t + i - 1
<1>1. n \in Nat /\ t \in Nat /\ i \in Nat /\ t < Capacity /\ i <= Capacity /\ i >= 1 /\ Capacity \in Nat \ {0}
  BY CapacityType DEF Indices
<1>2. Place(t, i) = n % Capacity /\ n = t + i - 1
  BY DEF Place
<1> HIDE DEF n
<1>3. n >= Capacity => Place(t, i) = n - Capacity
  <2>1. n - Capacity < Capacity
    BY <1>1, <1>2
  <2> QED
    BY <1>1, <1>2, <2>1, Remainder
<1>4. n < Capacity => Place(t, i) = n
  BY <1>1, <1>2, Remainder
<1> QED
  BY <1>1, <1>2, <1>3, <1>4 DEF Indices

\* A report stored at the head comes after those in the ring, and overwrites none of them.
LEMMA HeadIsNext ==
    ASSUME NEW h \in Indices, NEW t \in Indices
    PROVE  /\ Place(t, Distance(h, t) + 1) = h
           /\ \A i \in 1..Distance(h, t) : Place(t, i) # h /\ Place(t, i) \in Indices
           /\ NextIndex(h) # t => Distance(NextIndex(h), t) = Distance(h, t) + 1
           /\ Distance(h, h) = 0
<1> DEFINE n == Distance(h, t)
<1>1. /\ n \in Nat /\ n < Capacity /\ n = IF h >= t THEN h - t ELSE h + Capacity - t
      /\ h \in Nat /\ t \in Nat /\ h < Capacity /\ t < Capacity /\ Capacity \in Nat
  BY DistanceIs, CapacityType DEF Indices
<1>2. \A i \in 1..Capacity :
        /\ Place(t, i) = (IF t + i <= Capacity THEN t + i - 1 ELSE t + i - 1 - Capacity)
        /\ Place(t, i) \in Indices
  BY PlaceIs
<1>3. Distance(h, h) = 0
  BY <1>1, DistanceIs
<1>4. NextIndex(h) # t => Distance(NextIndex(h), t) = Distance(h, t) + 1
  <2> DEFINE m == NextIndex(h)
  <2>1. m \in Indices /\ m = (IF h = Capacity - 1 THEN 0 ELSE h + 1)
    BY NextIndexIs
  <2> HIDE DEF m
  <2>2. Distance(m, t) = IF m >= t THEN m - t ELSE m + Capacity - t
    BY <2>1, DistanceIs
  <2> QED
    BY <1>1, <2>1, <2>2 DEF m
<1> HIDE DEF n
<1>5. n + 1 \in 1..Capacity
  BY <1>1
<1>6. Place(t, n + 1) = h
  BY <1>1, <1>2, <1>5
<1>7. ASSUME NEW i \in 1..n PROVE Place(t, i) # h /\ Place(t, i) \in Indices
  <2>1. i \in 1..Capacity /\ i <= n /\ i >= 1 /\ i \in Nat
    BY <1>1
  <2> QED
    BY <1>1, <1>2, <2>1
<1> QED
  BY <1>3, <1>4, <1>6, <1>7 DEF n

\* The reports in a ring r from the tail t to the head h.
WaitingOf(r, h, t) == [i \in 1..Distance(h, t) |-> r[Place(t, i)]]

LEMMA WaitingOfIs ==
    ASSUME NEW r \in [Indices -> Items], NEW h \in Indices, NEW t \in Indices
    PROVE  /\ WaitingOf(r, h, t) \in Seq(Items) /\ Len(WaitingOf(r, h, t)) = Distance(h, t)
           /\ Distance(h, t) \in Nat /\ Distance(h, t) < Capacity
           /\ \A i \in 1..Distance(h, t) : WaitingOf(r, h, t)[i] = r[Place(t, i)]
<1> DEFINE n == Distance(h, t)
           W == WaitingOf(r, h, t)
<1>1. n \in Nat /\ n < Capacity
  <2>1. n \in Indices
    BY DistanceIs
  <2> QED
    BY <2>1, CapacityType DEF Indices
<1>2. \A i \in 1..n : Place(t, i) \in Indices
  BY HeadIsNext
<1>3. W = [i \in 1..n |-> r[Place(t, i)]]
  BY DEF WaitingOf
<1> HIDE DEF n, W
<1>4. W \in [1..n -> Items]
  BY <1>1, <1>2, <1>3
<1>5. W \in Seq(Items)
  BY <1>1, <1>4, SeqDef
<1>6. Len(W) \in Nat /\ DOMAIN W = 1..Len(W) /\ DOMAIN W = 1..n
  BY <1>4, <1>5, LenProperties
<1>7. Len(W) = n
  <2> DEFINE m == Len(W)
  <2>1. m \in Nat /\ 1..m = 1..n
    BY <1>6
  <2> HIDE DEF m
  <2>2. m = n
    BY <1>1, <2>1
  <2> QED
    BY <2>2 DEF m
<1> QED
  BY <1>1, <1>3, <1>5, <1>7 DEF n, W

LEMMA WaitingIs ==
    ASSUME TypeOK
    PROVE  /\ Waiting = WaitingOf(ring, head, tail)
           /\ Waiting \in Seq(Items) /\ Len(Waiting) = Distance(head, tail)
           /\ Len(Waiting) \in Nat /\ Len(Waiting) < Capacity
           /\ \A i \in 1..Len(Waiting) : Waiting[i] = ring[Place(tail, i)]
<1>1. head \in Indices /\ tail \in Indices /\ ring \in [Indices -> Items]
  BY DEF TypeOK, Indices
<1>2. Waiting = WaitingOf(ring, head, tail)
  BY DEF Waiting, WaitingOf, Distance, Place
<1> QED
  BY <1>1, <1>2, WaitingOfIs

----------------------------------------------------------------------------
(* Types. *)

WorkerStates == [Workers -> [at : Labels, item : Items]]
Pairs == [Kinds -> [first : 0..MaxPackets, second : 0..MaxPackets]]
Locks == [Kinds -> Workers \cup {Free}]
Rings == [Indices -> Items]
Counts == 0..MaxPackets

LEMMA TypeParts ==
    TypeOK <=> /\ app \in {"CMC", "VMC"} /\ worker \in WorkerStates /\ slot \in Pairs /\ slotLock \in Locks
               /\ ring \in Rings /\ head \in Indices /\ tail \in Indices
               /\ ringLock \in Workers \cup {Free}
               /\ drained \in Seq(Items) /\ Len(drained) < Capacity
               /\ main \in {"sleep", "print"} /\ unprinted \subseteq Kinds /\ shown \in Pairs
               /\ rxTotal \in Counts /\ rxByKind \in Nat /\ rxRejected \in Nat
               /\ rxDrop \in Nat /\ rxDrained \in Nat /\ badCbit \in Nat
BY DEF TypeOK, WorkerStates, Pairs, Locks, Rings, Counts, Indices

LEMMA TypePartsNext ==
    ASSUME app' \in {"CMC", "VMC"}, worker' \in WorkerStates, slot' \in Pairs, slotLock' \in Locks,
           ring' \in Rings, head' \in Indices, tail' \in Indices,
           ringLock' \in Workers \cup {Free},
           drained' \in Seq(Items), Len(drained') < Capacity,
           main' \in {"sleep", "print"}, unprinted' \subseteq Kinds, shown' \in Pairs,
           rxTotal' \in Counts, rxByKind' \in Nat, rxRejected' \in Nat,
           rxDrop' \in Nat, rxDrained' \in Nat, badCbit' \in Nat
    PROVE  TypeOK'
BY DEF TypeOK, WorkerStates, Pairs, Locks, Rings, Counts, Indices, Free, Items, Labels, Reports, NoReport

LEMMA WorkerFields ==
    ASSUME TypeOK, NEW w \in Workers
    PROVE  /\ worker[w].at \in Labels /\ worker[w].item \in Items
           /\ worker[w].item.kind \in Kinds /\ worker[w].item.report \in Reports \cup {NoReport}
BY TypeParts DEF WorkerStates, Items

\* A worker that goes on leaves the others where they are.
LEMMA Moves ==
    ASSUME TypeOK, NEW w \in Workers, NEW l \in Labels, Goes(w, l)
    PROVE  /\ worker' \in WorkerStates
           /\ worker'[w].at = l /\ worker'[w].item = worker[w].item
           /\ \A v \in Workers \ {w} : worker'[v] = worker[v]
BY TypeParts DEF Goes, WorkerStates

LEMMA Receives ==
    ASSUME TypeOK, NEW w \in Workers, NEW k \in Kinds, Receive(w, k)
    PROVE  /\ worker' \in WorkerStates /\ worker[w].at = "idle"
           /\ worker'[w].at = "accept" /\ worker'[w].item.report \in Reports /\ worker'[w].item.kind = k
           /\ \A v \in Workers \ {w} : worker'[v] = worker[v]
           /\ rxTotal' = rxTotal + 1 /\ rxTotal' \in Counts
<1>1. worker \in WorkerStates /\ rxTotal \in Counts
  BY TypeParts
<1>2. rxTotal' = rxTotal + 1 /\ rxTotal' \in Counts /\ rxTotal' \in Reports
  BY <1>1, CapacityType DEF Receive, Counts, Reports
<1> DEFINE new == [at |-> "accept", item |-> [kind |-> k, report |-> rxTotal']]
<1>3. new \in [at : Labels, item : Items] /\ new.at = "accept" /\ new.item.kind = k /\ new.item.report = rxTotal'
  BY <1>2 DEF Labels, Items
<1>4. worker' = [worker EXCEPT ![w] = new]
  BY DEF Receive
<1> HIDE DEF new
<1> QED
  BY <1>1, <1>2, <1>3, <1>4 DEF WorkerStates, Receive, At

----------------------------------------------------------------------------
(* The counters. *)

One(held) == IF held THEN 1 ELSE 0

LEMMA InStateType ==
    ASSUME NEW labels
    PROVE  InState(labels) \in Nat
<1> DEFINE S == {v \in Workers : worker[v].at \in labels}
<1>1. S \in SUBSET Workers
  OBVIOUS
<1>2. IsFiniteSet(S)
  BY <1>1, SetsAssumption, FS_Subset
<1> QED
  BY <1>2, FS_CardinalityType DEF InState

LEMMA OneWorker ==
    ASSUME NEW w \in Workers, NEW S \in SUBSET Workers, NEW T \in SUBSET Workers, S \ {w} = T \ {w}
    PROVE  /\ Cardinality(S) \in Nat /\ Cardinality(T) \in Nat
           /\ w \in S => Cardinality(S) >= 1
           /\ Cardinality(T) = Cardinality(S) + One(w \in T) - One(w \in S)
<1> DEFINE rest == S \ {w}
<1>1. /\ IsFiniteSet(rest) /\ Cardinality(rest) \in Nat /\ w \notin rest
  <2>1. rest \in SUBSET Workers
    OBVIOUS
  <2>2. IsFiniteSet(rest)
    BY <2>1, SetsAssumption, FS_Subset
  <2> QED
    BY <2>2, FS_CardinalityType
<1>2. /\ S = IF w \in S THEN rest \cup {w} ELSE rest
      /\ T = IF w \in T THEN rest \cup {w} ELSE rest
  OBVIOUS
<1> HIDE DEF rest
<1>3. Cardinality(rest \cup {w}) = Cardinality(rest) + 1
  BY <1>1, FS_AddElement
<1>4. /\ Cardinality(S) = Cardinality(rest) + One(w \in S)
      /\ Cardinality(T) = Cardinality(rest) + One(w \in T)
  <2>1. Cardinality(S) = Cardinality(rest) + One(w \in S)
    <3>1. CASE w \in S
      BY <1>2, <1>3, <3>1 DEF One
    <3>2. CASE w \notin S
      BY <1>1, <1>2, <3>2 DEF One
    <3> QED
      BY <3>1, <3>2
  <2>2. Cardinality(T) = Cardinality(rest) + One(w \in T)
    <3>1. CASE w \in T
      BY <1>2, <1>3, <3>1 DEF One
    <3>2. CASE w \notin T
      BY <1>1, <1>2, <3>2 DEF One
    <3> QED
      BY <3>1, <3>2
  <2> QED
    BY <2>1, <2>2
<1>5. One(w \in S) \in {0, 1} /\ One(w \in T) \in {0, 1} /\ (w \in S => One(w \in S) = 1)
  BY DEF One
<1> QED
  BY <1>1, <1>4, <1>5

LEMMA InStateMoves ==
    ASSUME NEW labels, NEW w \in Workers, \A v \in Workers \ {w} : worker'[v].at = worker[v].at
    PROVE  /\ InState(labels) \in Nat /\ InState(labels)' \in Nat
           /\ worker[w].at \in labels => InState(labels) >= 1
           /\ InState(labels)' = InState(labels) + One(worker'[w].at \in labels) - One(worker[w].at \in labels)
<1> DEFINE S == {v \in Workers : worker[v].at \in labels}
           T == {v \in Workers : worker'[v].at \in labels}
<1>1. InState(labels) = Cardinality(S) /\ InState(labels)' = Cardinality(T)
  BY DEF InState
<1>2. S \in SUBSET Workers /\ T \in SUBSET Workers /\ S \ {w} = T \ {w}
  OBVIOUS
<1>3. (w \in S <=> worker[w].at \in labels) /\ (w \in T <=> worker'[w].at \in labels)
  OBVIOUS
<1> HIDE DEF S, T
<1> QED
  BY <1>1, <1>2, <1>3, OneWorker DEF One

LEMMA HandlingMoves ==
    ASSUME NEW w \in Workers, \A v \in Workers \ {w} : worker'[v] = worker[v]
    PROVE  /\ Handling \in Nat /\ Handling' \in Nat
           /\ Uncounted(w) => Handling >= 1
           /\ Handling' = Handling + One(Uncounted(w)') - One(Uncounted(w))
<1> DEFINE S == {v \in Workers : Uncounted(v)}
           T == {v \in Workers : Uncounted(v)'}
<1>1. Handling = Cardinality(S) /\ Handling' = Cardinality(T)
  BY DEF Handling
<1>2. S \in SUBSET Workers /\ T \in SUBSET Workers /\ S \ {w} = T \ {w}
  BY DEF Uncounted, At
<1>3. (w \in S <=> Uncounted(w)) /\ (w \in T <=> Uncounted(w)')
  OBVIOUS
<1> HIDE DEF S, T
<1> QED
  BY <1>1, <1>2, <1>3, OneWorker DEF One

LEMMA CountsMove ==
    ASSUME TypeOK, NEW w \in Workers, \A v \in Workers \ {w} : worker'[v] = worker[v]
    PROVE  /\ Handling \in Nat /\ Pushing \in Nat
           /\ Uncounted(w) => Handling >= 1
           /\ worker[w].at \in {"push", "publish", "full"} => Pushing >= 1
           /\ Handling' = Handling + One(Uncounted(w)') - One(Uncounted(w))
           /\ Pushing' = Pushing + One(worker'[w].at \in {"push", "publish", "full"})
                                 - One(worker[w].at \in {"push", "publish", "full"})
<1>1. \A v \in Workers \ {w} : worker'[v].at = worker[v].at
  OBVIOUS
<1> QED
  BY <1>1, InStateMoves, HandlingMoves DEF Pushing

LEMMA CountsKept ==
    ASSUME UNCHANGED worker
    PROVE  Handling' = Handling /\ Pushing' = Pushing
BY DEF Handling, Pushing, InState, Uncounted, At

LEMMA AccountsAre == ASSUME TypeOK PROVE AllAccounted <=> Accounts
BY WaitingIs DEF AllAccounted, Accounts, Handling, Pushing


LEMMA AccountsStep ==
    ASSUME TypeOK, Accounts, ProgramInv, RingInv, Next
    PROVE  Accounts'
<1>t. /\ app \in {"CMC", "VMC"} /\ head \in Indices /\ tail \in Indices
      /\ rxTotal \in Nat /\ rxRejected \in Nat /\ rxByKind \in Nat /\ rxDrop \in Nat /\ rxDrained \in Nat
      /\ badCbit \in Nat
  BY TypeParts DEF Counts
<1>d. Distance(head, tail) \in Nat /\ Len(Waiting) = Distance(head, tail)
  <2>1. Distance(head, tail) \in Indices /\ Capacity \in Nat
    BY <1>t, DistanceIs, CapacityType
  <2> QED
    BY <2>1, WaitingIs DEF Indices
<1>n. /\ Distance(head, head) = 0
      /\ NextIndex(head) # tail => Distance(NextIndex(head), tail) = Distance(head, tail) + 1
  BY <1>t, HeadIsNext
<1>0. /\ app \in {"CMC", "VMC"} /\ head \in Indices /\ tail \in Indices
      /\ rxTotal \in Nat /\ rxRejected \in Nat /\ rxByKind \in Nat /\ rxDrop \in Nat /\ rxDrained \in Nat
      /\ badCbit \in Nat
      /\ Distance(head, tail) \in Nat /\ Distance(head, head) = 0 /\ Len(Waiting) = Distance(head, tail)
      /\ NextIndex(head) # tail => Distance(NextIndex(head), tail) = Distance(head, tail) + 1
  BY <1>t, <1>d, <1>n
<1>1. ASSUME NEW w \in Workers, NEW k \in Kinds, Receive(w, k) PROVE Accounts'
  <2>0. /\ worker[w].at = "idle" /\ worker'[w].at = "accept" /\ rxTotal' = rxTotal + 1
        /\ \A v \in Workers \ {w} : worker'[v] = worker[v]
    BY <1>1, Receives
  <2>1. /\ Handling' = Handling + 1 /\ Pushing' = Pushing /\ Handling \in Nat /\ Pushing \in Nat
    BY <2>0, CountsMove DEF One, Uncounted, At
  <2> QED
    BY <1>1, <1>0, <2>0, <2>1 DEF Receive, Accounts, slots, queue, Distance
<1>2. ASSUME NEW w \in Workers, Reject(w) PROVE Accounts'
  <2>1. Handling' = Handling /\ Pushing' = Pushing
    BY <1>2, CountsKept DEF Reject
  <2>2. Handling \in Nat
    BY <1>2, CountsMove DEF Reject
  <2> QED
    BY <1>2, <1>0, <2>1, <2>2 DEF Reject, Accounts, slots, queue, Distance
<1>3. ASSUME NEW w \in Workers, ParseBegin(w) PROVE Accounts'
  <2>0. Goes(w, "parse")
    BY <1>3 DEF ParseBegin
  <2>1. /\ worker'[w].at = "parse" /\ worker'[w].item = worker[w].item
        /\ \A v \in Workers \ {w} : worker'[v] = worker[v]
    BY <2>0, Moves DEF Labels
  <2>2. worker[w].at = IF worker[w].item.kind \in CbitKinds THEN "cbit" ELSE "accept"
    BY <1>3 DEF ParseBegin, At
  <2>3. Uncounted(w)' <=> Uncounted(w)
    BY <2>1, <2>2 DEF Uncounted, At
  <2>4. worker[w].at \notin {"push", "publish", "full"}
    BY <2>2
  <2>5. Handling' = Handling /\ Pushing' = Pushing /\ Handling \in Nat /\ Pushing \in Nat
    BY <2>1, <2>3, <2>4, CountsMove DEF One
  <2> QED
    BY <1>3, <1>0, <2>5 DEF ParseBegin, Accounts, queue, counters, Distance
<1>4. ASSUME NEW w \in Workers, ParseEnd(w) PROVE Accounts'
  <2> DEFINE counts == worker[w].item.kind \notin CbitKinds
  <2>1. /\ worker[w].at = "parse" /\ worker'[w].at = "idle"
        /\ \A v \in Workers \ {w} : worker'[v] = worker[v]
    BY <1>4, Moves DEF ParseEnd, At, Labels
  <2>2. (Uncounted(w) <=> counts) /\ ~Uncounted(w)'
    BY <2>1 DEF Uncounted, At
  <2>3. Handling' = Handling - One(counts) /\ Pushing' = Pushing /\ Handling \in Nat /\ Pushing \in Nat
    BY <2>1, <2>2, CountsMove DEF One
  <2>4. /\ app # "CMC" /\ app' = app /\ rxTotal' = rxTotal /\ rxRejected' = rxRejected
        /\ badCbit' = badCbit /\ rxByKind' = rxByKind + One(counts)
    BY <1>4, <1>0, <2>1 DEF ParseEnd, ProgramInv, One
  <2> HIDE DEF counts
  <2>5. PICK one \in Nat : one = One(counts)
    BY DEF One
  <2>6. rxByKind' = rxByKind + one /\ Handling' = Handling - one
    BY <2>3, <2>4, <2>5
  <2>7. rxTotal + badCbit = rxRejected + rxByKind + Handling
    BY DEF Accounts
  <2>8. rxTotal' + badCbit' = rxRejected' + rxByKind' + Handling'
    BY <1>0, <2>3, <2>4, <2>6, <2>7
  <2> QED
    BY <2>4, <2>8 DEF Accounts
<1>5. ASSUME NEW w \in Workers, CopyItem(w) PROVE Accounts'
  <2>1. /\ worker[w].at = "accept" /\ worker'[w].at = "push"
        /\ \A v \in Workers \ {w} : worker'[v] = worker[v]
    BY <1>5, Moves DEF CopyItem, At, Labels
  <2>2. Handling' = Handling - 1 /\ Pushing' = Pushing + 1 /\ Handling \in Nat /\ Pushing \in Nat
    BY <2>1, CountsMove DEF One, Uncounted, At
  <2> QED
    BY <1>5, <1>0, <2>1, <2>2 DEF CopyItem, Accounts, ProgramInv, RingInv, At, slots, queue, counters, Distance
<1>6. ASSUME NEW w \in Workers, PushBegin(w) PROVE Accounts'
  <2>1. /\ worker[w].at = "push" /\ worker'[w].at \in {"publish", "full"}
        /\ \A v \in Workers \ {w} : worker'[v] = worker[v]
    BY <1>6, Moves DEF PushBegin, At, Labels
  <2>2. Handling' = Handling /\ Pushing' = Pushing /\ Handling \in Nat /\ Pushing \in Nat
    BY <2>1, CountsMove DEF One, Uncounted, At
  <2> QED
    BY <1>6, <1>0, <2>2 DEF PushBegin, Accounts, slots, counters, Distance
<1>7. ASSUME NEW w \in Workers, PushEnd(w) PROVE Accounts'
  <2>1. /\ worker[w].at = "publish" /\ worker'[w].at = "idle"
        /\ \A v \in Workers \ {w} : worker'[v] = worker[v]
    BY <1>7, Moves DEF PushEnd, At, Labels
  <2>2. Handling' = Handling /\ Pushing' = Pushing - 1 /\ Handling \in Nat /\ Pushing \in Nat
    BY <2>1, CountsMove DEF One, Uncounted, At
  <2>3. NextIndex(head) # tail
    BY <1>7, <2>1 DEF RingInv, At
  <2>4. Distance(head, tail)' = Distance(head, tail) + 1
    BY <1>7, <1>0, <2>3 DEF PushEnd, Distance
  <2>5. UNCHANGED <<app, rxTotal, rxByKind, rxRejected, rxDrop, rxDrained, badCbit>>
    BY <1>7 DEF PushEnd, counters
  <2> HIDE DEF Distance
  <2> QED
    BY <1>0, <2>2, <2>4, <2>5 DEF Accounts
<1>8. ASSUME NEW w \in Workers, Drop(w) PROVE Accounts'
  <2>1. /\ worker[w].at = "full" /\ worker'[w].at = "idle"
        /\ \A v \in Workers \ {w} : worker'[v] = worker[v]
    BY <1>8, Moves DEF Drop, At, Labels
  <2>2. Handling' = Handling /\ Pushing' = Pushing - 1 /\ Handling \in Nat /\ Pushing \in Nat
    BY <2>1, CountsMove DEF One, Uncounted, At
  <2> QED
    BY <1>8, <1>0, <2>1, <2>2 DEF Drop, Accounts, ProgramInv, RingInv, At, slots, queue, counters, Distance
<1>9. ASSUME DrainRing PROVE Accounts'
  <2>1. Handling' = Handling /\ Pushing' = Pushing
    BY <1>9, CountsKept DEF DrainRing
  <2>2. Distance(head, tail)' = 0 /\ rxDrained' = rxDrained + Distance(head, tail)
    BY <1>9, <1>0 DEF DrainRing, Distance
  <2> QED
    BY <1>9, <1>0, <2>1, <2>2 DEF DrainRing, Accounts, slots
<1>10. ASSUME PrintDrained PROVE Accounts'
  <2>1. Handling' = Handling /\ Pushing' = Pushing
    BY <1>10, CountsKept DEF PrintDrained
  <2> QED
    BY <1>10, <1>0, <2>1 DEF PrintDrained, Accounts, slots, queue, counters, Distance
<1>11. ASSUME StartDashboard PROVE Accounts'
  <2>1. Handling' = Handling /\ Pushing' = Pushing
    BY <1>11, CountsKept DEF StartDashboard
  <2> QED
    BY <1>11, <1>0, <2>1 DEF StartDashboard, Accounts, slots, queue, counters, Distance
<1>12. ASSUME NEW k \in Kinds, PrintSlot(k) PROVE Accounts'
  <2>1. Handling' = Handling /\ Pushing' = Pushing
    BY <1>12, CountsKept DEF PrintSlot
  <2> QED
    BY <1>12, <1>0, <2>1 DEF PrintSlot, Accounts, slots, queue, counters, Distance
<1>13. ASSUME EndDashboard PROVE Accounts'
  <2>1. Handling' = Handling /\ Pushing' = Pushing
    BY <1>13, CountsKept DEF EndDashboard
  <2> QED
    BY <1>13, <1>0, <2>1 DEF EndDashboard, Accounts, slots, queue, counters, Distance
<1>14. ASSUME NEW w \in Workers, CountCbit(w) PROVE Accounts'
  <2>1. /\ worker[w].at = "accept" /\ worker'[w].at = "cbit" /\ worker'[w].item = worker[w].item
        /\ \A v \in Workers \ {w} : worker'[v] = worker[v]
    BY <1>14, Moves DEF CountCbit, At, Labels
  <2>2. Handling' = Handling - 1 /\ Pushing' = Pushing /\ Handling \in Nat /\ Pushing \in Nat
    BY <2>1, CountsMove DEF One, Uncounted, At
  <2>3. app # "CMC" /\ app' = app
    BY <1>14 DEF CountCbit
  <2> QED
    BY <1>14, <1>0, <2>2, <2>3 DEF CountCbit, Accounts
<1>15. ASSUME NEW w \in Workers, RejectCbit(w) PROVE Accounts'
  <2>1. /\ worker[w].at = "cbit" /\ worker'[w].at = "idle" /\ worker'[w].item = worker[w].item
        /\ \A v \in Workers \ {w} : worker'[v] = worker[v]
    BY <1>15, Moves DEF RejectCbit, At, Labels
  <2>2. Handling' = Handling /\ Pushing' = Pushing /\ Handling \in Nat /\ Pushing \in Nat
    BY <2>1, CountsMove DEF One, Uncounted, At
  <2>3. app # "CMC" /\ app' = app
    BY <1>15, <1>0, <2>1 DEF RejectCbit, ProgramInv
  <2> QED
    BY <1>15, <1>0, <2>2, <2>3 DEF RejectCbit, Accounts
<1> QED
  BY <1>1, <1>2, <1>3, <1>4, <1>5, <1>6, <1>7, <1>8, <1>9, <1>10, <1>11, <1>12, <1>13,
     <1>14, <1>15 DEF Next, HandlePacket, Dashboard

----------------------------------------------------------------------------
(* The inductive invariant. *)

LEMMA ProgramStep ==
    ASSUME TypeOK, ProgramInv, Next
    PROVE  ProgramInv'
<1>0. app \in {"CMC", "VMC"}
  BY TypeParts
<1>1. ASSUME NEW w \in Workers, NEW k \in Kinds, Receive(w, k) PROVE ProgramInv'
  <2>1. /\ worker[w].at = "idle" /\ worker'[w].at = "accept"
        /\ \A v \in Workers \ {w} : worker'[v] = worker[v]
    BY <1>1, Receives
  <2> QED
    BY <1>1, <2>1 DEF Receive, ProgramInv, slots, queue
<1>2. ASSUME NEW w \in Workers, Reject(w) PROVE ProgramInv'
  BY <1>2 DEF Reject, ProgramInv, slots, queue
<1>3. ASSUME NEW w \in Workers, ParseBegin(w) PROVE ProgramInv'
  <2>1. /\ worker[w].at \in {"accept", "cbit"} /\ worker'[w].at = "parse" /\ worker'[w].item = worker[w].item
        /\ \A v \in Workers \ {w} : worker'[v] = worker[v]
    BY <1>3, Moves DEF ParseBegin, At, Labels
  <2> QED
    BY <1>3, <1>0, <2>1 DEF ParseBegin, ProgramInv, slots, queue, counters
<1>4. ASSUME NEW w \in Workers, ParseEnd(w) PROVE ProgramInv'
  <2>1. /\ worker[w].at = "parse" /\ worker'[w].at = "idle" /\ worker'[w].item = worker[w].item
        /\ \A v \in Workers \ {w} : worker'[v] = worker[v]
    BY <1>4, Moves DEF ParseEnd, At, Labels
  <2> QED
    BY <1>4, <1>0, <2>1 DEF ParseEnd, ProgramInv, slots, queue, counters
<1>5. ASSUME NEW w \in Workers, CopyItem(w) PROVE ProgramInv'
  <2>1. /\ worker[w].at = "accept" /\ worker'[w].at = "push" /\ worker'[w].item = worker[w].item
        /\ \A v \in Workers \ {w} : worker'[v] = worker[v]
    BY <1>5, Moves DEF CopyItem, At, Labels
  <2> QED
    BY <1>5, <1>0, <2>1 DEF CopyItem, ProgramInv, slots, queue, counters
<1>6. ASSUME NEW w \in Workers, PushBegin(w) PROVE ProgramInv'
  <2>1. /\ worker[w].at = "push" /\ worker'[w].at \in {"publish", "full"} /\ worker'[w].item = worker[w].item
        /\ \A v \in Workers \ {w} : worker'[v] = worker[v]
    BY <1>6, Moves DEF PushBegin, At, Labels
  <2> QED
    BY <1>6, <1>0, <2>1 DEF PushBegin, ProgramInv, slots, queue, counters
<1>7. ASSUME NEW w \in Workers, PushEnd(w) PROVE ProgramInv'
  <2>1. /\ worker[w].at = "publish" /\ worker'[w].at = "idle" /\ worker'[w].item = worker[w].item
        /\ \A v \in Workers \ {w} : worker'[v] = worker[v]
    BY <1>7, Moves DEF PushEnd, At, Labels
  <2> QED
    BY <1>7, <1>0, <2>1 DEF PushEnd, ProgramInv, slots, queue, counters
<1>8. ASSUME NEW w \in Workers, Drop(w) PROVE ProgramInv'
  <2>1. /\ worker[w].at = "full" /\ worker'[w].at = "idle" /\ worker'[w].item = worker[w].item
        /\ \A v \in Workers \ {w} : worker'[v] = worker[v]
    BY <1>8, Moves DEF Drop, At, Labels
  <2> QED
    BY <1>8, <1>0, <2>1 DEF Drop, ProgramInv, slots, queue, counters
<1>9. ASSUME DrainRing PROVE ProgramInv'
  BY <1>9, <1>0 DEF DrainRing, ProgramInv, slots, queue, counters
<1>10. ASSUME PrintDrained PROVE ProgramInv'
  BY <1>10, <1>0 DEF PrintDrained, ProgramInv, slots, queue, counters
<1>11. ASSUME StartDashboard PROVE ProgramInv'
  BY <1>11, <1>0 DEF StartDashboard, ProgramInv, slots, queue, counters
<1>12. ASSUME NEW k \in Kinds, PrintSlot(k) PROVE ProgramInv'
  BY <1>12, <1>0 DEF PrintSlot, ProgramInv, slots, queue, counters
<1>13. ASSUME EndDashboard PROVE ProgramInv'
  BY <1>13, <1>0 DEF EndDashboard, ProgramInv, slots, queue, counters
<1>14. ASSUME NEW w \in Workers, CountCbit(w) PROVE ProgramInv'
  <2>1. /\ worker[w].at = "accept" /\ worker'[w].at = "cbit" /\ worker'[w].item = worker[w].item
        /\ \A v \in Workers \ {w} : worker'[v] = worker[v]
    BY <1>14, Moves DEF CountCbit, At, Labels
  <2> QED
    BY <1>14, <1>0, <2>1 DEF CountCbit, ProgramInv, slots, queue, counters
<1>15. ASSUME NEW w \in Workers, RejectCbit(w) PROVE ProgramInv'
  <2>1. /\ worker[w].at = "cbit" /\ worker'[w].at = "idle" /\ worker'[w].item = worker[w].item
        /\ \A v \in Workers \ {w} : worker'[v] = worker[v]
    BY <1>15, Moves DEF RejectCbit, At, Labels
  <2> QED
    BY <1>15, <1>0, <2>1 DEF RejectCbit, ProgramInv, slots, queue, counters
<1> QED
  BY <1>1, <1>2, <1>3, <1>4, <1>5, <1>6, <1>7, <1>8, <1>9, <1>10, <1>11, <1>12, <1>13,
     <1>14, <1>15 DEF Next, HandlePacket, Dashboard

LEMMA RingStep ==
    ASSUME TypeOK, ProgramInv, RingInv, Next
    PROVE  RingInv'
<1>0. /\ Free \notin Workers /\ head \in Indices /\ tail \in Indices /\ ring \in Rings
  BY TypeParts, SetsAssumption
<1>1. ASSUME NEW w \in Workers, NEW k \in Kinds, Receive(w, k) PROVE RingInv'
  <2>1. /\ worker[w].at = "idle" /\ worker'[w].at = "accept"
        /\ \A v \in Workers \ {w} : worker'[v] = worker[v]
    BY <1>1, Receives
  <2> QED
    BY <1>1, <2>1 DEF Receive, RingInv, At, slots, queue
<1>2. ASSUME NEW w \in Workers, Reject(w) PROVE RingInv'
  BY <1>2 DEF Reject, RingInv, At, slots, queue
<1>3. ASSUME NEW w \in Workers, ParseBegin(w) PROVE RingInv'
  <2>1. /\ worker[w].at \in {"accept", "cbit"} /\ worker'[w].at = "parse" /\ worker'[w].item = worker[w].item
        /\ \A v \in Workers \ {w} : worker'[v] = worker[v]
    BY <1>3, Moves DEF ParseBegin, At, Labels
  <2> QED
    BY <1>3, <1>0, <2>1 DEF ParseBegin, RingInv, At, slots, queue, counters
<1>4. ASSUME NEW w \in Workers, ParseEnd(w) PROVE RingInv'
  <2>1. /\ worker[w].at = "parse" /\ worker'[w].at = "idle" /\ worker'[w].item = worker[w].item
        /\ \A v \in Workers \ {w} : worker'[v] = worker[v]
    BY <1>4, Moves DEF ParseEnd, At, Labels
  <2> QED
    BY <1>4, <1>0, <2>1 DEF ParseEnd, RingInv, At, slots, queue, counters
<1>5. ASSUME NEW w \in Workers, CopyItem(w) PROVE RingInv'
  <2>1. /\ worker[w].at = "accept" /\ worker'[w].at = "push" /\ worker'[w].item = worker[w].item
        /\ \A v \in Workers \ {w} : worker'[v] = worker[v]
    BY <1>5, Moves DEF CopyItem, At, Labels
  <2> QED
    BY <1>5, <1>0, <2>1 DEF CopyItem, RingInv, At, slots, queue, counters
<1>6. ASSUME NEW w \in Workers, PushBegin(w) PROVE RingInv'
  <2>1. /\ worker[w].at = "push" /\ worker'[w].at \in {"publish", "full"} /\ worker'[w].item = worker[w].item
        /\ \A v \in Workers \ {w} : worker'[v] = worker[v]
    BY <1>6, Moves DEF PushBegin, At, Labels
  <2>2. \A v \in Workers : worker[v].at # "publish" /\ ringLock # v
    BY <1>6, <1>0 DEF PushBegin, RingInv, At
  <2>3. CASE NextIndex(head) # tail
    <3>1. /\ worker'[w].at = "publish" /\ ringLock' = w /\ ring' = [ring EXCEPT ![head] = worker[w].item]
          /\ head' = head /\ tail' = tail
      BY <1>6, <2>3, Moves DEF PushBegin, Labels
    <3>2. ring'[head] = worker[w].item
      BY <1>0, <3>1 DEF Rings
    <3> QED
      BY <2>1, <2>2, <2>3, <3>1, <3>2 DEF RingInv, At
  <2>4. CASE NextIndex(head) = tail
    <3>1. worker'[w].at = "full" /\ ringLock' = ringLock
      BY <1>6, <2>4, Moves DEF PushBegin, Labels
    <3> QED
      BY <2>1, <2>2, <3>1 DEF RingInv, At
  <2> QED
    BY <2>3, <2>4
<1>7. ASSUME NEW w \in Workers, PushEnd(w) PROVE RingInv'
  <2>1. /\ worker[w].at = "publish" /\ worker'[w].at = "idle" /\ worker'[w].item = worker[w].item
        /\ \A v \in Workers \ {w} : worker'[v] = worker[v]
    BY <1>7, Moves DEF PushEnd, At, Labels
  <2> QED
    BY <1>7, <1>0, <2>1 DEF PushEnd, RingInv, At, slots, queue, counters
<1>8. ASSUME NEW w \in Workers, Drop(w) PROVE RingInv'
  <2>1. /\ worker[w].at = "full" /\ worker'[w].at = "idle" /\ worker'[w].item = worker[w].item
        /\ \A v \in Workers \ {w} : worker'[v] = worker[v]
    BY <1>8, Moves DEF Drop, At, Labels
  <2> QED
    BY <1>8, <1>0, <2>1 DEF Drop, RingInv, At, slots, queue, counters
<1>9. ASSUME DrainRing PROVE RingInv'
  <2>1. \A v \in Workers : worker[v].at # "publish" /\ ringLock # v
    BY <1>9, <1>0 DEF DrainRing, RingInv, At
  <2> QED
    BY <1>9, <2>1 DEF DrainRing, RingInv, At
<1>10. ASSUME PrintDrained PROVE RingInv'
  BY <1>10, <1>0 DEF PrintDrained, RingInv, At, slots, queue, counters
<1>11. ASSUME StartDashboard PROVE RingInv'
  BY <1>11, <1>0 DEF StartDashboard, RingInv, At, slots, queue, counters
<1>12. ASSUME NEW k \in Kinds, PrintSlot(k) PROVE RingInv'
  BY <1>12, <1>0 DEF PrintSlot, RingInv, At, slots, queue, counters
<1>13. ASSUME EndDashboard PROVE RingInv'
  BY <1>13, <1>0 DEF EndDashboard, RingInv, At, slots, queue, counters
<1>14. ASSUME NEW w \in Workers, CountCbit(w) PROVE RingInv'
  <2>1. /\ worker[w].at = "accept" /\ worker'[w].at = "cbit" /\ worker'[w].item = worker[w].item
        /\ \A v \in Workers \ {w} : worker'[v] = worker[v]
    BY <1>14, Moves DEF CountCbit, At, Labels
  <2> QED
    BY <1>14, <1>0, <2>1 DEF CountCbit, RingInv, At, slots, queue, counters
<1>15. ASSUME NEW w \in Workers, RejectCbit(w) PROVE RingInv'
  <2>1. /\ worker[w].at = "cbit" /\ worker'[w].at = "idle" /\ worker'[w].item = worker[w].item
        /\ \A v \in Workers \ {w} : worker'[v] = worker[v]
    BY <1>15, Moves DEF RejectCbit, At, Labels
  <2> QED
    BY <1>15, <1>0, <2>1 DEF RejectCbit, RingInv, At, slots, queue, counters
<1> QED
  BY <1>1, <1>2, <1>3, <1>4, <1>5, <1>6, <1>7, <1>8, <1>9, <1>10, <1>11, <1>12, <1>13,
     <1>14, <1>15 DEF Next, HandlePacket, Dashboard

LEMMA ReportStep ==
    ASSUME TypeOK, ReportInv, Next
    PROVE  ReportInv'
<1>1. ASSUME NEW w \in Workers, NEW k \in Kinds, Receive(w, k) PROVE ReportInv'
  <2>1. worker'[w].item.report \in Reports /\ \A v \in Workers \ {w} : worker'[v] = worker[v]
    BY <1>1, Receives
  <2> QED
    BY <2>1 DEF ReportInv, At, Reports
<1>2. ASSUME NEW w \in Workers, Reject(w) PROVE ReportInv'
  BY <1>2 DEF Reject, ReportInv, At, Reports
<1>3. ASSUME NEW w \in Workers, ParseBegin(w) PROVE ReportInv'
  <2>1. /\ worker[w].at \in {"accept", "cbit"} /\ worker'[w].at = "parse" /\ worker'[w].item = worker[w].item
        /\ \A v \in Workers \ {w} : worker'[v] = worker[v]
    BY <1>3, Moves DEF ParseBegin, At, Labels
  <2> QED
    BY <2>1 DEF ReportInv, At, Reports
<1>4. ASSUME NEW w \in Workers, ParseEnd(w) PROVE ReportInv'
  <2>1. /\ worker[w].at = "parse" /\ worker'[w].at = "idle" /\ worker'[w].item = worker[w].item
        /\ \A v \in Workers \ {w} : worker'[v] = worker[v]
    BY <1>4, Moves DEF ParseEnd, At, Labels
  <2> QED
    BY <2>1 DEF ReportInv, At, Reports
<1>5. ASSUME NEW w \in Workers, CopyItem(w) PROVE ReportInv'
  <2>1. /\ worker[w].at = "accept" /\ worker'[w].at = "push" /\ worker'[w].item = worker[w].item
        /\ \A v \in Workers \ {w} : worker'[v] = worker[v]
    BY <1>5, Moves DEF CopyItem, At, Labels
  <2> QED
    BY <2>1 DEF ReportInv, At, Reports
<1>6. ASSUME NEW w \in Workers, PushBegin(w) PROVE ReportInv'
  <2>1. /\ worker[w].at = "push" /\ worker'[w].at \in {"publish", "full"} /\ worker'[w].item = worker[w].item
        /\ \A v \in Workers \ {w} : worker'[v] = worker[v]
    BY <1>6, Moves DEF PushBegin, At, Labels
  <2> QED
    BY <2>1 DEF ReportInv, At, Reports
<1>7. ASSUME NEW w \in Workers, PushEnd(w) PROVE ReportInv'
  <2>1. /\ worker[w].at = "publish" /\ worker'[w].at = "idle" /\ worker'[w].item = worker[w].item
        /\ \A v \in Workers \ {w} : worker'[v] = worker[v]
    BY <1>7, Moves DEF PushEnd, At, Labels
  <2> QED
    BY <2>1 DEF ReportInv, At, Reports
<1>8. ASSUME NEW w \in Workers, Drop(w) PROVE ReportInv'
  <2>1. /\ worker[w].at = "full" /\ worker'[w].at = "idle" /\ worker'[w].item = worker[w].item
        /\ \A v \in Workers \ {w} : worker'[v] = worker[v]
    BY <1>8, Moves DEF Drop, At, Labels
  <2> QED
    BY <2>1 DEF ReportInv, At, Reports
<1>9. ASSUME DrainRing PROVE ReportInv'
  BY <1>9 DEF DrainRing, ReportInv, At, Reports
<1>10. ASSUME PrintDrained PROVE ReportInv'
  BY <1>10 DEF PrintDrained, ReportInv, At, Reports
<1>11. ASSUME StartDashboard PROVE ReportInv'
  BY <1>11 DEF StartDashboard, ReportInv, At, Reports
<1>12. ASSUME NEW k \in Kinds, PrintSlot(k) PROVE ReportInv'
  BY <1>12 DEF PrintSlot, ReportInv, At, Reports
<1>13. ASSUME EndDashboard PROVE ReportInv'
  BY <1>13 DEF EndDashboard, ReportInv, At, Reports
<1>14. ASSUME NEW w \in Workers, CountCbit(w) PROVE ReportInv'
  <2>1. /\ worker[w].at = "accept" /\ worker'[w].at = "cbit" /\ worker'[w].item = worker[w].item
        /\ \A v \in Workers \ {w} : worker'[v] = worker[v]
    BY <1>14, Moves DEF CountCbit, At, Labels
  <2> QED
    BY <2>1 DEF ReportInv, At, Reports
<1>15. ASSUME NEW w \in Workers, RejectCbit(w) PROVE ReportInv'
  <2>1. /\ worker[w].at = "cbit" /\ worker'[w].at = "idle" /\ worker'[w].item = worker[w].item
        /\ \A v \in Workers \ {w} : worker'[v] = worker[v]
    BY <1>15, Moves DEF RejectCbit, At, Labels
  <2> QED
    BY <2>1 DEF ReportInv, At, Reports
<1> QED
  BY <1>1, <1>2, <1>3, <1>4, <1>5, <1>6, <1>7, <1>8, <1>9, <1>10, <1>11, <1>12, <1>13,
     <1>14, <1>15 DEF Next, HandlePacket, Dashboard

LEMMA SlotStep ==
    ASSUME TypeOK, SlotInv, Next
    PROVE  SlotInv'
<1>0. Free \notin Workers /\ slotLock \in Locks /\ slot \in Pairs
  BY TypeParts, SetsAssumption
<1>1. ASSUME NEW w \in Workers, NEW k \in Kinds, Receive(w, k) PROVE SlotInv'
  <2>1. /\ worker[w].at = "idle" /\ worker'[w].at = "accept"
        /\ \A v \in Workers \ {w} : worker'[v] = worker[v]
    BY <1>1, Receives
  <2> QED
    BY <1>1, <1>0, <2>1 DEF Receive, SlotInv, At, slots
<1>2. ASSUME NEW w \in Workers, Reject(w) PROVE SlotInv'
  BY <1>2 DEF Reject, SlotInv, At, slots
<1>3. ASSUME NEW w \in Workers, ParseBegin(w) PROVE SlotInv'
  <2>1. /\ worker[w].at \in {"accept", "cbit"} /\ worker'[w].at = "parse" /\ worker'[w].item = worker[w].item
        /\ \A v \in Workers \ {w} : worker'[v] = worker[v]
    BY <1>3, Moves DEF ParseBegin, At, Labels
  <2>k. PICK c \in Kinds : c = worker[w].item.kind
    BY WorkerFields
  <2>r. worker[w].item.report \in Counts
    BY WorkerFields, CapacityType DEF Counts, Reports, NoReport
  <2>2. /\ slotLock[c] = Free /\ slotLock' = [slotLock EXCEPT ![c] = w]
        /\ slot' = [slot EXCEPT ![c].first = worker[w].item.report]
    BY <1>3, <2>k DEF ParseBegin
  <2>3. /\ slotLock'[c] = w /\ slot'[c].first = worker[w].item.report /\ slot'[c].second = slot[c].second
        /\ \A k \in Kinds \ {c} : slotLock'[k] = slotLock[k] /\ slot'[k] = slot[k]
        /\ slotLock' \in Locks /\ slot' \in Pairs
    BY <2>2, <2>r, <1>0 DEF Locks, Pairs, Counts
  <2>4. \A v \in Workers : worker[v].at = "parse" => worker[v].item.kind # c
    BY <1>0, <2>2 DEF SlotInv, At
  <2>5. ASSUME NEW v \in Workers, NEW k \in Kinds
        PROVE  slotLock'[k] = v <=> worker'[v].at = "parse" /\ worker'[v].item.kind = k
    <3>1. CASE k = c
      BY <3>1, <2>1, <2>k, <2>3, <2>4
    <3>2. CASE k # c
      BY <3>2, <2>1, <2>k, <2>3 DEF SlotInv, At
    <3> QED
      BY <3>1, <3>2
  <2>6. ASSUME NEW v \in Workers, worker'[v].at = "parse"
        PROVE  slot'[worker'[v].item.kind].first = worker'[v].item.report
    <3>1. CASE v = w
      BY <3>1, <2>1, <2>k, <2>3
    <3>2. CASE v # w
      BY <3>2, <2>6, <2>1, <2>3, <2>4, WorkerFields DEF SlotInv, At
    <3> QED
      BY <3>1, <3>2
  <2>7. ASSUME NEW k \in Kinds, slotLock'[k] = Free PROVE slot'[k].first = slot'[k].second
    BY <2>7, <2>3, <1>0 DEF SlotInv
  <2> QED
    BY <2>5, <2>6, <2>7 DEF SlotInv, At
<1>4. ASSUME NEW w \in Workers, ParseEnd(w) PROVE SlotInv'
  <2>1. /\ worker[w].at = "parse" /\ worker'[w].at = "idle" /\ worker'[w].item = worker[w].item
        /\ \A v \in Workers \ {w} : worker'[v] = worker[v]
    BY <1>4, Moves DEF ParseEnd, At, Labels
  <2>k. PICK c \in Kinds : c = worker[w].item.kind
    BY WorkerFields
  <2>r. worker[w].item.report \in Counts
    BY WorkerFields, CapacityType DEF Counts, Reports, NoReport
  <2>2. /\ slotLock' = [slotLock EXCEPT ![c] = Free]
        /\ slot' = [slot EXCEPT ![c].second = worker[w].item.report]
    BY <1>4, <2>k DEF ParseEnd
  <2>3. /\ slotLock'[c] = Free /\ slot'[c].second = worker[w].item.report /\ slot'[c].first = slot[c].first
        /\ \A k \in Kinds \ {c} : slotLock'[k] = slotLock[k] /\ slot'[k] = slot[k]
        /\ slotLock' \in Locks /\ slot' \in Pairs
    BY <2>2, <2>r, <1>0 DEF Locks, Pairs, Counts
  <2>4. /\ slotLock[c] = w /\ slot[c].first = worker[w].item.report
        /\ \A v \in Workers \ {w} : worker[v].at = "parse" => worker[v].item.kind # c
    BY <1>0, <2>1, <2>k DEF SlotInv, At
  <2>5. ASSUME NEW v \in Workers, NEW k \in Kinds
        PROVE  slotLock'[k] = v <=> worker'[v].at = "parse" /\ worker'[v].item.kind = k
    <3>1. CASE k = c
      BY <3>1, <1>0, <2>1, <2>3, <2>4
    <3>2. CASE k # c
      BY <3>2, <2>1, <2>k, <2>3 DEF SlotInv, At
    <3> QED
      BY <3>1, <3>2
  <2>6. ASSUME NEW v \in Workers, worker'[v].at = "parse"
        PROVE  slot'[worker'[v].item.kind].first = worker'[v].item.report
    <3>1. v # w
      BY <2>6, <2>1
    <3> QED
      BY <3>1, <2>6, <2>1, <2>3, <2>4, WorkerFields DEF SlotInv, At
  <2>7. ASSUME NEW k \in Kinds, slotLock'[k] = Free PROVE slot'[k].first = slot'[k].second
    BY <2>7, <2>3, <2>4, <1>0 DEF SlotInv
  <2> QED
    BY <2>5, <2>6, <2>7 DEF SlotInv, At
<1>5. ASSUME NEW w \in Workers, CopyItem(w) PROVE SlotInv'
  <2>1. /\ worker[w].at = "accept" /\ worker'[w].at = "push" /\ worker'[w].item = worker[w].item
        /\ \A v \in Workers \ {w} : worker'[v] = worker[v]
    BY <1>5, Moves DEF CopyItem, At, Labels
  <2> QED
    BY <1>5, <1>0, <2>1 DEF CopyItem, SlotInv, At, slots
<1>6. ASSUME NEW w \in Workers, PushBegin(w) PROVE SlotInv'
  <2>1. /\ worker[w].at = "push" /\ worker'[w].at \in {"publish", "full"} /\ worker'[w].item = worker[w].item
        /\ \A v \in Workers \ {w} : worker'[v] = worker[v]
    BY <1>6, Moves DEF PushBegin, At, Labels
  <2> QED
    BY <1>6, <1>0, <2>1 DEF PushBegin, SlotInv, At, slots
<1>7. ASSUME NEW w \in Workers, PushEnd(w) PROVE SlotInv'
  <2>1. /\ worker[w].at = "publish" /\ worker'[w].at = "idle" /\ worker'[w].item = worker[w].item
        /\ \A v \in Workers \ {w} : worker'[v] = worker[v]
    BY <1>7, Moves DEF PushEnd, At, Labels
  <2> QED
    BY <1>7, <1>0, <2>1 DEF PushEnd, SlotInv, At, slots
<1>8. ASSUME NEW w \in Workers, Drop(w) PROVE SlotInv'
  <2>1. /\ worker[w].at = "full" /\ worker'[w].at = "idle" /\ worker'[w].item = worker[w].item
        /\ \A v \in Workers \ {w} : worker'[v] = worker[v]
    BY <1>8, Moves DEF Drop, At, Labels
  <2> QED
    BY <1>8, <1>0, <2>1 DEF Drop, SlotInv, At, slots
<1>9. ASSUME DrainRing PROVE SlotInv'
  BY <1>9, <1>0 DEF DrainRing, SlotInv, At, slots
<1>10. ASSUME PrintDrained PROVE SlotInv'
  BY <1>10, <1>0 DEF PrintDrained, SlotInv, At, slots
<1>11. ASSUME StartDashboard PROVE SlotInv'
  BY <1>11, <1>0 DEF StartDashboard, SlotInv, At, slots
<1>12. ASSUME NEW k \in Kinds, PrintSlot(k) PROVE SlotInv'
  BY <1>12, <1>0 DEF PrintSlot, SlotInv, At, slots
<1>13. ASSUME EndDashboard PROVE SlotInv'
  BY <1>13, <1>0 DEF EndDashboard, SlotInv, At, slots
<1>14. ASSUME NEW w \in Workers, CountCbit(w) PROVE SlotInv'
  <2>1. /\ worker[w].at = "accept" /\ worker'[w].at = "cbit" /\ worker'[w].item = worker[w].item
        /\ \A v \in Workers \ {w} : worker'[v] = worker[v]
    BY <1>14, Moves DEF CountCbit, At, Labels
  <2> QED
    BY <1>14, <1>0, <2>1 DEF CountCbit, SlotInv, At, slots
<1>15. ASSUME NEW w \in Workers, RejectCbit(w) PROVE SlotInv'
  <2>1. /\ worker[w].at = "cbit" /\ worker'[w].at = "idle" /\ worker'[w].item = worker[w].item
        /\ \A v \in Workers \ {w} : worker'[v] = worker[v]
    BY <1>15, Moves DEF RejectCbit, At, Labels
  <2> QED
    BY <1>15, <1>0, <2>1 DEF RejectCbit, SlotInv, At, slots
<1> QED
  BY <1>1, <1>2, <1>3, <1>4, <1>5, <1>6, <1>7, <1>8, <1>9, <1>10, <1>11, <1>12, <1>13,
     <1>14, <1>15 DEF Next, HandlePacket, Dashboard

LEMMA ShownStep ==
    ASSUME TypeOK, ProgramInv, SlotInv, ReportInv, ShownInv, Next
    PROVE  ShownInv'
<1>0. Free \notin Workers /\ slotLock \in Locks /\ slot \in Pairs /\ shown \in Pairs
  BY TypeParts, SetsAssumption
<1>1. ASSUME NEW w \in Workers, NEW k \in Kinds, Receive(w, k) PROVE ShownInv'
  BY <1>1 DEF Receive, ShownInv, slots
<1>2. ASSUME NEW w \in Workers, Reject(w) PROVE ShownInv'
  BY <1>2, <1>0 DEF Reject, ShownInv, slots
<1>3. ASSUME NEW w \in Workers, ParseBegin(w) PROVE ShownInv'
  <2>k. PICK c \in Kinds : c = worker[w].item.kind
    BY WorkerFields
  <2>r. worker[w].item.report \in Counts
    BY WorkerFields, CapacityType DEF Counts, Reports, NoReport
  <2>2. /\ slotLock[c] = Free /\ slotLock' = [slotLock EXCEPT ![c] = w]
        /\ slot' = [slot EXCEPT ![c].first = worker[w].item.report]
    BY <1>3, <2>k DEF ParseBegin
  <2>3. /\ slotLock'[c] = w /\ slot'[c].first = worker[w].item.report /\ slot'[c].second = slot[c].second
        /\ \A k \in Kinds \ {c} : slotLock'[k] = slotLock[k] /\ slot'[k] = slot[k]
        /\ slotLock' \in Locks /\ slot' \in Pairs
    BY <2>2, <2>r, <1>0 DEF Locks, Pairs, Counts
  <2>4. worker[w].item.report # NoReport
    BY <1>3 DEF ParseBegin, ReportInv, At, Reports, NoReport
  <2>5. slot'[c] # Empty /\ shown' = shown /\ app' = app
    BY <1>3, <2>3, <2>4 DEF Empty, ParseBegin
  <2> QED
    BY <2>3, <2>5 DEF ShownInv
<1>4. ASSUME NEW w \in Workers, ParseEnd(w) PROVE ShownInv'
  <2>k. PICK c \in Kinds : c = worker[w].item.kind
    BY WorkerFields
  <2>r. worker[w].item.report \in Counts
    BY WorkerFields, CapacityType DEF Counts, Reports, NoReport
  <2>2. /\ slotLock' = [slotLock EXCEPT ![c] = Free]
        /\ slot' = [slot EXCEPT ![c].second = worker[w].item.report]
    BY <1>4, <2>k DEF ParseEnd
  <2>3. /\ slotLock'[c] = Free /\ slot'[c].second = worker[w].item.report /\ slot'[c].first = slot[c].first
        /\ \A k \in Kinds \ {c} : slotLock'[k] = slotLock[k] /\ slot'[k] = slot[k]
        /\ slotLock' \in Locks /\ slot' \in Pairs
    BY <2>2, <2>r, <1>0 DEF Locks, Pairs, Counts
  <2>4. worker[w].item.report # NoReport /\ slot[c].first = worker[w].item.report
    BY <1>4, <2>k DEF ParseEnd, ReportInv, SlotInv, At, Reports, NoReport
  <2>5. slot'[c] # Empty /\ shown' = shown /\ app' = app
    BY <1>4, <2>3, <2>4 DEF Empty, ParseEnd
  <2> QED
    BY <2>3, <2>5 DEF ShownInv
<1>5. ASSUME NEW w \in Workers, CopyItem(w) PROVE ShownInv'
  BY <1>5, <1>0 DEF CopyItem, ShownInv, slots
<1>6. ASSUME NEW w \in Workers, PushBegin(w) PROVE ShownInv'
  BY <1>6, <1>0 DEF PushBegin, ShownInv, slots
<1>7. ASSUME NEW w \in Workers, PushEnd(w) PROVE ShownInv'
  BY <1>7, <1>0 DEF PushEnd, ShownInv, slots
<1>8. ASSUME NEW w \in Workers, Drop(w) PROVE ShownInv'
  BY <1>8, <1>0 DEF Drop, ShownInv, slots
<1>9. ASSUME DrainRing PROVE ShownInv'
  BY <1>9, <1>0 DEF DrainRing, ShownInv, slots
<1>10. ASSUME PrintDrained PROVE ShownInv'
  <2>1. app = "CMC" /\ app' = app
    BY <1>10 DEF PrintDrained
  <2>2. ASSUME NEW k \in Kinds PROVE shown'[k].first = shown'[k].second
    <3>1. CASE Occurs(drained, k)
      BY <1>10, <3>1 DEF PrintDrained
    <3>2. CASE ~Occurs(drained, k)
      BY <1>10, <3>2 DEF PrintDrained, ShownInv
    <3> QED
      BY <3>1, <3>2
  <2> QED
    BY <2>1, <2>2 DEF ShownInv
<1>11. ASSUME StartDashboard PROVE ShownInv'
  BY <1>11, <1>0 DEF StartDashboard, ShownInv, slots
<1>12. ASSUME NEW k \in Kinds, PrintSlot(k) PROVE ShownInv'
  <2>1. slot[k].first = slot[k].second /\ app' = app /\ slot' = slot
    BY <1>12 DEF PrintSlot, SlotInv
  <2>2. CASE slot[k] = Empty
    BY <1>12, <2>1, <2>2 DEF PrintSlot, ShownInv
  <2>3. CASE slot[k] # Empty
    <3>1. shown'[k] = slot[k] /\ \A c \in Kinds \ {k} : shown'[c] = shown[c]
      BY <1>12, <1>0, <2>3 DEF PrintSlot, Pairs
    <3> QED
      BY <2>1, <2>3, <3>1 DEF ShownInv
  <2> QED
    BY <2>2, <2>3
<1>13. ASSUME EndDashboard PROVE ShownInv'
  BY <1>13, <1>0 DEF EndDashboard, ShownInv, slots
<1>14. ASSUME NEW w \in Workers, CountCbit(w) PROVE ShownInv'
  BY <1>14, <1>0 DEF CountCbit, ShownInv, slots
<1>15. ASSUME NEW w \in Workers, RejectCbit(w) PROVE ShownInv'
  BY <1>15, <1>0 DEF RejectCbit, ShownInv, slots
<1> QED
  BY <1>1, <1>2, <1>3, <1>4, <1>5, <1>6, <1>7, <1>8, <1>9, <1>10, <1>11, <1>12, <1>13,
     <1>14, <1>15 DEF Next, HandlePacket, Dashboard

----------------------------------------------------------------------------
(* The last report of a kind. *)

IsLast(items, k, i) ==
    /\ i \in 1..Len(items) /\ items[i].kind = k
    /\ \A j \in 1..Len(items) : items[j].kind = k => j <= i

LEMMA LastExists ==
    ASSUME NEW items \in Seq(Items), NEW k \in Kinds, Occurs(items, k)
    PROVE  \E i \in 1..Len(items) : IsLast(items, k, i)
<1> DEFINE T == {i \in 1..Len(items) : items[i].kind = k}
<1>1. Len(items) \in Nat /\ DOMAIN items = 1..Len(items)
  BY LenProperties
<1>2. T \in SUBSET (1..Len(items)) /\ T # {}
  BY <1>1 DEF Occurs
<1>3. \E m \in T : \A y \in T : y <= m
  <2> HIDE DEF T
  <2> QED
    BY <1>1, <1>2, GreatestElement
<1> QED
  BY <1>3 DEF IsLast

LEMMA LastOfIs ==
    ASSUME NEW items \in Seq(Items), NEW k \in Kinds, NEW i, IsLast(items, k, i)
    PROVE  Occurs(items, k) /\ LastOf(items, k) = items[i] /\ items[i] \in Items
<1>1. Len(items) \in Nat /\ DOMAIN items = 1..Len(items) /\ i \in 1..Len(items) /\ items[i] \in Items
  BY LenProperties, ElementOfSeq DEF IsLast
<1> DEFINE Good(n) == n \in DOMAIN items /\ items[n].kind = k
                      /\ \A j \in DOMAIN items : items[j].kind = k => j <= n
           c == CHOOSE n \in DOMAIN items :
                   items[n].kind = k /\ \A j \in DOMAIN items : items[j].kind = k => j <= n
<1>2. Good(i)
  BY <1>1 DEF IsLast
<1>3. Good(c)
  BY <1>2
<1>4. c \in 1..Len(items) /\ c <= i /\ i <= c
  BY <1>1, <1>2, <1>3
<1>5. LastOf(items, k) = items[c]
  BY DEF LastOf
<1> HIDE DEF c
<1>6. c = i
  BY <1>1, <1>4
<1>7. Occurs(items, k)
  BY <1>2 DEF Occurs
<1> QED
  BY <1>1, <1>5, <1>6, <1>7

LEMMA LastOfType ==
    ASSUME NEW items \in Seq(Items), NEW k \in Kinds, Occurs(items, k)
    PROVE  LastOf(items, k) \in Items
BY LastExists, LastOfIs

LEMMA TypeStep ==
    ASSUME IInv, Next
    PROVE  TypeOK'
<1>i. TypeOK /\ Accounts /\ ProgramInv
  BY DEF IInv
<1>0. /\ app \in {"CMC", "VMC"} /\ worker \in WorkerStates /\ slot \in Pairs /\ slotLock \in Locks
      /\ ring \in Rings /\ head \in Indices /\ tail \in Indices
      /\ ringLock \in Workers \cup {Free}
      /\ drained \in Seq(Items) /\ Len(drained) < Capacity
      /\ main \in {"sleep", "print"} /\ unprinted \subseteq Kinds /\ shown \in Pairs
      /\ rxTotal \in Counts /\ rxByKind \in Nat /\ rxRejected \in Nat
      /\ rxDrop \in Nat /\ rxDrained \in Nat /\ badCbit \in Nat
  BY <1>i, TypeParts
<1>n. Distance(head, tail) \in Nat /\ Distance(head, tail) = Len(Waiting)
  BY <1>i, WaitingIs
<1>1. ASSUME NEW w \in Workers, NEW k \in Kinds, Receive(w, k) PROVE TypeOK'
  <2>1. worker' \in WorkerStates /\ rxTotal' \in Counts
    BY <1>1, <1>i, Receives
  <2> QED
    BY <1>1, <1>0, <2>1, TypePartsNext DEF Receive, slots, queue
<1>2. ASSUME NEW w \in Workers, Reject(w) PROVE TypeOK'
  <2>c. /\ rxTotal' \in Counts /\ rxByKind' \in Nat /\ rxRejected' \in Nat
        /\ rxDrop' \in Nat /\ rxDrained' \in Nat /\ badCbit' \in Nat
    BY <1>2, <1>0, CapacityType DEF Reject, Counts
  <2> QED
    BY <1>2, <1>0, <2>c, TypePartsNext DEF Reject, slots, queue
<1>3. ASSUME NEW w \in Workers, ParseBegin(w) PROVE TypeOK'
  <2>1. worker' \in WorkerStates
    BY <1>3, <1>i, Moves DEF ParseBegin, Labels
  <2>k. PICK c \in Kinds : c = worker[w].item.kind
    BY <1>i, WorkerFields
  <2>r. worker[w].item.report \in Counts
    BY <1>i, WorkerFields, CapacityType DEF Counts, Reports, NoReport
  <2>2. /\ slotLock[c] = Free /\ slotLock' = [slotLock EXCEPT ![c] = w]
        /\ slot' = [slot EXCEPT ![c].first = worker[w].item.report]
    BY <1>3, <2>k DEF ParseBegin
  <2>3. /\ slotLock'[c] = w /\ slot'[c].first = worker[w].item.report /\ slot'[c].second = slot[c].second
        /\ \A k \in Kinds \ {c} : slotLock'[k] = slotLock[k] /\ slot'[k] = slot[k]
        /\ slotLock' \in Locks /\ slot' \in Pairs
    BY <2>2, <2>r, <1>0 DEF Locks, Pairs, Counts
  <2> QED
    BY <1>3, <1>0, <2>1, <2>3, TypePartsNext DEF ParseBegin, queue, counters
<1>4. ASSUME NEW w \in Workers, ParseEnd(w) PROVE TypeOK'
  <2>1. worker' \in WorkerStates
    BY <1>4, <1>i, Moves DEF ParseEnd, Labels
  <2>k. PICK c \in Kinds : c = worker[w].item.kind
    BY <1>i, WorkerFields
  <2>r. worker[w].item.report \in Counts
    BY <1>i, WorkerFields, CapacityType DEF Counts, Reports, NoReport
  <2>2. /\ slotLock' = [slotLock EXCEPT ![c] = Free]
        /\ slot' = [slot EXCEPT ![c].second = worker[w].item.report]
    BY <1>4, <2>k DEF ParseEnd
  <2>3. /\ slotLock'[c] = Free /\ slot'[c].second = worker[w].item.report /\ slot'[c].first = slot[c].first
        /\ \A k \in Kinds \ {c} : slotLock'[k] = slotLock[k] /\ slot'[k] = slot[k]
        /\ slotLock' \in Locks /\ slot' \in Pairs
    BY <2>2, <2>r, <1>0 DEF Locks, Pairs, Counts
  <2>c. /\ rxTotal' \in Counts /\ rxByKind' \in Nat /\ rxRejected' \in Nat
        /\ rxDrop' \in Nat /\ rxDrained' \in Nat /\ badCbit' \in Nat
    BY <1>4, <1>0 DEF ParseEnd, Counts
  <2> QED
    BY <1>4, <1>0, <2>1, <2>3, <2>c, TypePartsNext DEF ParseEnd, queue
<1>5. ASSUME NEW w \in Workers, CopyItem(w) PROVE TypeOK'
  <2>1. worker' \in WorkerStates
    BY <1>5, <1>i, Moves DEF CopyItem, Labels
  <2>c. /\ rxTotal' \in Counts /\ rxByKind' \in Nat /\ rxRejected' \in Nat
        /\ rxDrop' \in Nat /\ rxDrained' \in Nat /\ badCbit' \in Nat
    BY <1>5, <1>0 DEF CopyItem, Counts
  <2> QED
    BY <1>5, <1>0, <2>1, <2>c, TypePartsNext DEF CopyItem, slots, queue
<1>6. ASSUME NEW w \in Workers, PushBegin(w) PROVE TypeOK'
  <2>1. worker' \in WorkerStates
    BY <1>6, <1>i, Moves DEF PushBegin, Labels
  <2>2. ring' \in Rings /\ ringLock' \in Workers \cup {Free}
    BY <1>6, <1>0, <1>i, WorkerFields DEF PushBegin, Rings
  <2> QED
    BY <1>6, <1>0, <2>1, <2>2, TypePartsNext DEF PushBegin, slots, counters
<1>7. ASSUME NEW w \in Workers, PushEnd(w) PROVE TypeOK'
  <2>1. worker' \in WorkerStates
    BY <1>7, <1>i, Moves DEF PushEnd, Labels
  <2>2. head' \in Indices /\ ringLock' \in Workers \cup {Free}
    BY <1>7, <1>0, NextIndexIs DEF PushEnd
  <2> QED
    BY <1>7, <1>0, <2>1, <2>2, TypePartsNext DEF PushEnd, slots, counters
<1>8. ASSUME NEW w \in Workers, Drop(w) PROVE TypeOK'
  <2>1. worker' \in WorkerStates
    BY <1>8, <1>i, Moves DEF Drop, Labels
  <2>c. /\ rxTotal' \in Counts /\ rxByKind' \in Nat /\ rxRejected' \in Nat
        /\ rxDrop' \in Nat /\ rxDrained' \in Nat /\ badCbit' \in Nat
    BY <1>8, <1>0 DEF Drop, Counts
  <2> QED
    BY <1>8, <1>0, <2>1, <2>c, TypePartsNext DEF Drop, slots, queue
<1>9. ASSUME DrainRing PROVE TypeOK'
  <2>1. drained' \in Seq(Items) /\ Len(drained') < Capacity /\ Len(drained') = Distance(head, tail)
    BY <1>9, <1>i, WaitingIs DEF DrainRing
  <2>c. /\ rxTotal' \in Counts /\ rxByKind' \in Nat /\ rxRejected' \in Nat
        /\ rxDrop' \in Nat /\ rxDrained' \in Nat /\ badCbit' \in Nat
    BY <1>9, <1>0, <2>1, <1>n DEF DrainRing, Counts
  <2> QED
    BY <1>9, <1>0, <2>1, <2>c, TypePartsNext DEF DrainRing, slots
<1>10. ASSUME PrintDrained PROVE TypeOK'
  <2>1. shown' \in Pairs
    <3>1. ASSUME NEW k \in Kinds, Occurs(drained, k)
          PROVE  [first |-> LastOf(drained, k).report, second |-> LastOf(drained, k).report]
                     \in [first : Counts, second : Counts]
      <4>1. LastOf(drained, k).report \in Counts
        <5>1. LastOf(drained, k) \in Items
          BY <3>1, <1>0, LastOfType
        <5>2. LastOf(drained, k).report \in Reports \cup {NoReport}
          BY <5>1 DEF Items
        <5> QED
          BY <5>2, CapacityType DEF Reports, NoReport, Counts
      <4> QED
        BY <4>1
    <3>2. \A k \in Kinds : shown[k] \in [first : Counts, second : Counts]
      BY <1>0 DEF Pairs, Counts
    <3> QED
      BY <1>10, <3>1, <3>2 DEF PrintDrained, Pairs, Counts
  <2>2. drained' \in Seq(Items) /\ Len(drained') < Capacity
    BY <1>10, CapacityType, EmptySeq DEF PrintDrained
  <2> QED
    BY <1>10, <1>0, <2>1, <2>2, TypePartsNext DEF PrintDrained, slots, counters
<1>11. ASSUME StartDashboard PROVE TypeOK'
  BY <1>11, <1>0, TypePartsNext DEF StartDashboard, queue, counters
<1>12. ASSUME NEW k \in Kinds, PrintSlot(k) PROVE TypeOK'
  <2>1. shown' \in Pairs
    BY <1>12, <1>0 DEF PrintSlot, Pairs
  <2> QED
    BY <1>12, <1>0, <2>1, TypePartsNext DEF PrintSlot, queue, counters
<1>13. ASSUME EndDashboard PROVE TypeOK'
  BY <1>13, <1>0, TypePartsNext DEF EndDashboard, slots, queue, counters
<1>14. ASSUME NEW w \in Workers, CountCbit(w) PROVE TypeOK'
  <2>1. worker' \in WorkerStates
    BY <1>14, <1>i, Moves DEF CountCbit, Labels
  <2>2. rxByKind' \in Nat /\ rxRejected' \in Nat /\ badCbit' \in Nat
    BY <1>14, <1>0 DEF CountCbit
  <2> QED
    BY <1>14, <1>0, <2>1, <2>2, TypePartsNext DEF CountCbit, slots, queue
<1>15. ASSUME NEW w \in Workers, RejectCbit(w) PROVE TypeOK'
  <2>1. worker' \in WorkerStates
    BY <1>15, <1>i, Moves DEF RejectCbit, Labels
  <2>2. rxByKind' \in Nat /\ rxRejected' \in Nat /\ badCbit' \in Nat
    BY <1>15, <1>0 DEF RejectCbit
  <2> QED
    BY <1>15, <1>0, <2>1, <2>2, TypePartsNext DEF RejectCbit, slots, queue
<1> QED
  BY <1>1, <1>2, <1>3, <1>4, <1>5, <1>6, <1>7, <1>8, <1>9, <1>10, <1>11, <1>12, <1>13,
     <1>14, <1>15 DEF Next, HandlePacket, Dashboard

LEMMA InitInv == Init => IInv
<1> SUFFICES ASSUME Init PROVE IInv
  OBVIOUS
<1> DEFINE first == [kind |-> CHOOSE k \in Kinds : TRUE, report |-> NoReport]
<1>1. first \in Items
  <2>1. (CHOOSE k \in Kinds : TRUE) \in Kinds
    BY SetsAssumption
  <2> QED
    BY <2>1 DEF Items
<1>2. worker \in WorkerStates /\ ring \in Rings /\ \A w \in Workers : worker[w].at = "idle"
  <2>1. worker = [w \in Workers |-> [at |-> "idle", item |-> first]] /\ ring = [i \in Indices |-> first]
    BY DEF Init, Indices
  <2> HIDE DEF first
  <2> QED
    BY <1>1, <2>1 DEF WorkerStates, Rings, Labels
<1>3. NoReport \in Counts /\ 0 \in Indices
  BY CapacityType DEF Counts, Indices, NoReport
<1>4. slot \in Pairs /\ shown \in Pairs /\ slotLock \in Locks
  BY <1>3 DEF Init, Pairs, Locks, Empty, Counts
<1>5. TypeOK
  <2>1. drained \in Seq(Items) /\ Len(drained) < Capacity
    BY CapacityType, EmptySeq DEF Init
  <2> QED
    BY <1>2, <1>3, <1>4, <2>1, TypeParts DEF Init, NoReport
<1>6. Accounts
  <2>1. Handling = 0 /\ Pushing = 0
    <3>1. \A labels : "idle" \notin labels => InState(labels) = 0
      <4>1. ASSUME NEW labels, "idle" \notin labels PROVE {w \in Workers : worker[w].at \in labels} = {}
        BY <4>1, <1>2
      <4> QED
        BY <4>1, FS_EmptySet DEF InState
    <3>2. {w \in Workers : Uncounted(w)} = {}
      BY <1>2 DEF Uncounted, At
    <3> QED
      BY <3>1, <3>2, FS_EmptySet DEF Handling, Pushing
  <2>2. Distance(head, tail) = 0
    BY <1>3, HeadIsNext DEF Init
  <2> QED
    BY <2>1, <2>2 DEF Init, Accounts
<1>7. ProgramInv /\ RingInv /\ SlotInv /\ ReportInv /\ ShownInv
  BY <1>2, SetsAssumption DEF Init, ProgramInv, RingInv, SlotInv, ReportInv, ShownInv, At, Empty
<1> QED
  BY <1>5, <1>6, <1>7 DEF IInv

LEMMA StepInv == IInv /\ [Next]_vars => IInv'
<1> SUFFICES ASSUME IInv, [Next]_vars PROVE IInv'
  OBVIOUS
<1>1. CASE Next
  <2>1. TypeOK'
    BY <1>1, TypeStep
  <2>2. Accounts'
    BY <1>1, AccountsStep DEF IInv
  <2>3. ProgramInv' /\ RingInv'
    BY <1>1, ProgramStep, RingStep DEF IInv
  <2>4. SlotInv' /\ ReportInv' /\ ShownInv'
    BY <1>1, SlotStep, ReportStep, ShownStep DEF IInv
  <2> QED
    BY <2>1, <2>2, <2>3, <2>4 DEF IInv
<1>2. CASE UNCHANGED vars
  BY <1>2 DEF vars, slots, queue, counters, IInv, TypeOK, Accounts, Handling, Pushing, InState,
              Uncounted, ProgramInv, RingInv, SlotInv, ReportInv, ShownInv, At
<1> QED
  BY <1>1, <1>2

\* IInv holds in every state of either program: TypeOK, the counters with the workers that
\* stand between them, who holds which lock, and what is whole while nobody holds it.
THEOREM Inductive == Spec => []IInv
BY InitInv, StepInv, PTL DEF Spec

\* Types, and no index of the ring, no list the dashboard took from it and no slot beyond
\* its bounds, whatever hm_handle_packet and hm_print_dashboard do in turn.
THEOREM TypeCorrect == Spec => []TypeOK
<1>1. IInv => TypeOK
  BY DEF IInv
<1> QED
  BY <1>1, Inductive, PTL

\* The counters of the dashboard's last line add up at every instant: every packet is
\* rejected, counted under its kind or in a worker's hands, and only the CBIT packets that
\* hm_handle_packet of the VMC counts before it finds them to be no report are counted
\* twice; every report the CMC counted was drained, waits in the ring, was counted as
\* dropped or is just being pushed, for any number of workers and any size of the ring.
THEOREM CountersAddUp == Spec => []AllAccounted
<1>1. IInv => AllAccounted
  BY AccountsAre DEF IInv
<1> QED
  BY <1>1, Inductive, PTL

----------------------------------------------------------------------------
(* The board. *)

\* What the screen shows of a kind, or will as soon as what was drained is printed, and
\* the report of a kind that was accepted last.
Screen(k) == IF Occurs(drained, k) THEN LastOf(drained, k).report ELSE shown[k].first

Newest(k) ==
    IF app = "VMC" THEN slot[k].first
    ELSE IF Occurs(Waiting, k) THEN LastOf(Waiting, k).report ELSE Screen(k)

Views == /\ shownReport = [k \in Kinds |-> Screen(k)]
         /\ latestReport = [k \in Kinds |-> Newest(k)]

\* Nothing on the screen is torn, and the slot that is being overwritten has its new report.
LEMMA ViewsAre == IInv => Views
<1> SUFFICES ASSUME IInv PROVE Views
  OBVIOUS
<1>1. \A k \in Kinds : shown[k].first = shown[k].second
  BY DEF IInv, ShownInv
<1>2. shownReport = [k \in Kinds |-> Screen(k)]
  BY <1>1 DEF shownReport, Screen
<1>3. ASSUME NEW k \in Kinds, slotLock[k] # Free PROVE worker[slotLock[k]].item.report = slot[k].first
  <2>1. slotLock[k] \in Workers
    BY <1>3, TypeParts DEF IInv, Locks
  <2> QED
    BY <2>1 DEF IInv, SlotInv
<1>4. latestReport = [k \in Kinds |-> Newest(k)]
  BY <1>2, <1>3 DEF latestReport, Newest
<1> QED
  BY <1>2, <1>4 DEF Views

LEMMA ViewsAreNext == IInv' => Views'
BY ViewsAre, PTL

LEMMA NothingOccurs ==
    ASSUME NEW items \in Seq(Items), Len(items) = 0, NEW k
    PROVE  ~Occurs(items, k)
<1>1. DOMAIN items = 1..0
  BY LenProperties
<1> QED
  BY <1>1 DEF Occurs

\* A report that is added at the end is the last of its kind, and of its kind only.
LEMMA LastAdded ==
    ASSUME NEW old \in Seq(Items), NEW new \in Seq(Items), Len(new) = Len(old) + 1,
           \A i \in 1..Len(old) : new[i] = old[i], NEW k \in Kinds
    PROVE  /\ new[Len(new)].kind = k => Occurs(new, k) /\ LastOf(new, k) = new[Len(new)]
           /\ new[Len(new)].kind # k => /\ Occurs(new, k) <=> Occurs(old, k)
                                        /\ Occurs(old, k) => LastOf(new, k) = LastOf(old, k)
<1> DEFINE n == Len(old)
<1>1. n \in Nat /\ Len(new) = n + 1 /\ DOMAIN new = 1..n + 1 /\ DOMAIN old = 1..n
  BY LenProperties
<1>2. n + 1 \in 1..n + 1 /\ \A i \in 1..n : i \in 1..n + 1 /\ new[i] = old[i]
  BY <1>1
<1>3. \A i \in 1..n + 1 : i <= n + 1 /\ (i # n + 1 => i \in 1..n)
  BY <1>1
<1> HIDE DEF n
<1>4. ASSUME new[n + 1].kind = k PROVE Occurs(new, k) /\ LastOf(new, k) = new[n + 1]
  <2>1. IsLast(new, k, n + 1)
    BY <1>1, <1>2, <1>3, <1>4 DEF IsLast
  <2> QED
    BY <2>1, LastOfIs
<1>5. ASSUME new[n + 1].kind # k PROVE Occurs(new, k) <=> Occurs(old, k)
  BY <1>1, <1>2, <1>3, <1>5 DEF Occurs
<1>6. ASSUME new[n + 1].kind # k, Occurs(old, k) PROVE LastOf(new, k) = LastOf(old, k)
  <2>1. PICK i \in 1..Len(old) : IsLast(old, k, i)
    BY <1>6, LastExists
  <2>2. i \in 1..n
    BY <2>1 DEF n
  <2>3. IsLast(new, k, i)
    BY <1>1, <1>2, <1>3, <1>6, <2>1, <2>2 DEF IsLast, n
  <2>4. LastOf(new, k) = new[i] /\ LastOf(old, k) = old[i]
    BY <2>1, <2>3, LastOfIs
  <2> QED
    BY <1>2, <2>2, <2>4
<1> QED
  BY <1>1, <1>4, <1>5, <1>6

SameScreen == \A k \in Kinds : Screen(k)' = Screen(k)
SameNewest == \A k \in Kinds : Newest(k)' = Newest(k)

LEMMA Stutters ==
    ASSUME Views, Views', SameScreen, SameNewest
    PROVE  UNCHANGED Board!vars
<1>1. shownReport' = shownReport /\ latestReport' = latestReport
  BY DEF Views, SameScreen, SameNewest
<1> QED
  BY <1>1 DEF Board!vars

LEMMA Accepts ==
    ASSUME Views, Views', SameScreen, NEW c \in Kinds, NEW r \in Reports, Newest(c)' = r,
           \A k \in Kinds \ {c} : Newest(k)' = Newest(k)
    PROVE  Board!Next
<1>1. shownReport' = shownReport
  BY DEF Views, SameScreen
<1>2. latestReport' = [latestReport EXCEPT ![c] = r]
  <2>1. latestReport' = [k \in Kinds |-> Newest(k)'] /\ latestReport = [k \in Kinds |-> Newest(k)]
    BY DEF Views
  <2> QED
    BY <2>1
<1>3. Board!Accept(c, r)
  BY <1>1, <1>2 DEF Board!Accept
<1> QED
  BY <1>3 DEF Board!Next

LEMMA Shows ==
    ASSUME Views, Views', SameNewest, NEW some \in SUBSET Kinds,
           \A k \in Kinds : Screen(k)' = IF k \in some THEN Newest(k) ELSE Screen(k)
    PROVE  Board!Next
<1>1. latestReport' = latestReport
  BY DEF Views, SameNewest
<1>2. shownReport' = [k \in Kinds |-> IF k \in some THEN latestReport[k] ELSE shownReport[k]]
  <2>1. shownReport' = [k \in Kinds |-> Screen(k)'] /\ shownReport = [k \in Kinds |-> Screen(k)]
        /\ latestReport = [k \in Kinds |-> Newest(k)]
    BY DEF Views
  <2> QED
    BY <2>1
<1>3. Board!Show(some)
  BY <1>1, <1>2 DEF Board!Show
<1> QED
  BY <1>3 DEF Board!Next

\* What changes neither the ring nor the slots nor what was drained or printed is not seen.
LEMMA Aside ==
    ASSUME app' = app, shown' = shown, drained' = drained,
           \A k \in Kinds : slot'[k].first = slot[k].first, Waiting' = Waiting
    PROVE  SameScreen /\ SameNewest
<1>1. SameScreen
  BY DEF SameScreen, Screen
<1>2. SameNewest
  BY <1>1 DEF SameScreen, SameNewest, Newest
<1> QED
  BY <1>1, <1>2

LEMMA SameRing ==
    ASSUME UNCHANGED <<ring, head, tail>>
    PROVE  Waiting' = Waiting
BY DEF Waiting

LEMMA PushIsSeen ==
    ASSUME IInv, IInv', NEW w \in Workers, PushEnd(w)
    PROVE  Board!Next
<1> DEFINE it == worker[w].item
           n == Distance(head, tail)
<1>0. TypeOK /\ TypeOK' /\ Views /\ Views'
  BY ViewsAre, ViewsAreNext DEF IInv
<1>1. /\ head \in Indices /\ tail \in Indices /\ ring \in [Indices -> Items] /\ it \in Items
      /\ it.kind \in Kinds /\ it.report \in Reports
  BY <1>0, TypeParts, WorkerFields DEF Rings, PushEnd, At, IInv, ReportInv
<1>2. app # "VMC" /\ NextIndex(head) # tail /\ ring[head] = it
  BY DEF IInv, ProgramInv, RingInv, PushEnd, At
<1>3. /\ head' = NextIndex(head) /\ tail' = tail /\ ring' = ring
      /\ app' = app /\ shown' = shown /\ drained' = drained /\ slot' = slot
  BY DEF PushEnd, slots
<1>4. /\ n \in Nat /\ Distance(NextIndex(head), tail) = n + 1 /\ Place(tail, n + 1) = head
      /\ NextIndex(head) \in Indices
  BY <1>1, <1>2, HeadIsNext, NextIndexIs, WaitingOfIs
<1>5. Waiting = WaitingOf(ring, head, tail) /\ Waiting' = WaitingOf(ring, NextIndex(head), tail)
  BY <1>3 DEF Waiting, WaitingOf, Distance, Place
<1>6. /\ Waiting \in Seq(Items) /\ Len(Waiting) = n
      /\ \A i \in 1..n : Waiting[i] = ring[Place(tail, i)]
  BY <1>1, <1>5, WaitingOfIs
<1>7. /\ Waiting' \in Seq(Items) /\ Len(Waiting') = n + 1
      /\ \A i \in 1..n + 1 : Waiting'[i] = ring[Place(tail, i)]
  <2> DEFINE h == NextIndex(head)
             m == n + 1
  <2>1. h \in Indices /\ Distance(h, tail) = m /\ Waiting' = WaitingOf(ring, h, tail)
    BY <1>4, <1>5
  <2> HIDE DEF h, m
  <2>2. /\ WaitingOf(ring, h, tail) \in Seq(Items) /\ Len(WaitingOf(ring, h, tail)) = Distance(h, tail)
        /\ \A i \in 1..Distance(h, tail) : WaitingOf(ring, h, tail)[i] = ring[Place(tail, i)]
    BY <1>1, <2>1, WaitingOfIs
  <2>3. Waiting' \in Seq(Items) /\ Len(Waiting') = m /\ \A i \in 1..m : Waiting'[i] = ring[Place(tail, i)]
    BY <2>1, <2>2
  <2> QED
    BY <2>3 DEF m
<1> HIDE DEF n, it
<1>c. PICK c \in Kinds : c = it.kind
  BY <1>1
<1>r. PICK r \in Reports : r = it.report
  BY <1>1
<1>8. /\ Len(Waiting') = Len(Waiting) + 1 /\ Waiting'[Len(Waiting')] = it
      /\ \A i \in 1..Len(Waiting) : Waiting'[i] = Waiting[i]
  <2>1. n + 1 \in 1..n + 1 /\ \A i \in 1..n : i \in 1..n + 1
    BY <1>4
  <2> QED
    BY <1>2, <1>4, <1>6, <1>7, <2>1
<1>9. SameScreen
  BY <1>3 DEF SameScreen, Screen
<1>10. Newest(c)' = r
  <2>1. Occurs(Waiting', c) /\ LastOf(Waiting', c) = it
    BY <1>c, <1>6, <1>7, <1>8, LastAdded
  <2> QED
    BY <1>2, <1>3, <1>r, <2>1 DEF Newest
<1>11. ASSUME NEW k \in Kinds \ {c} PROVE Newest(k)' = Newest(k)
  <2>1. /\ Occurs(Waiting', k) <=> Occurs(Waiting, k)
        /\ Occurs(Waiting, k) => LastOf(Waiting', k) = LastOf(Waiting, k)
    BY <1>c, <1>6, <1>7, <1>8, LastAdded
  <2>2. Screen(k)' = Screen(k)
    BY <1>9 DEF SameScreen
  <2> QED
    BY <1>2, <1>3, <2>1, <2>2 DEF Newest
<1> QED
  BY <1>0, <1>9, <1>10, <1>11, Accepts

LEMMA DrainIsSeen ==
    ASSUME IInv, IInv', DrainRing
    PROVE  Board!Next
<1> DEFINE some == {k \in Kinds : Occurs(Waiting, k)}
<1>0. TypeOK /\ TypeOK' /\ Views /\ Views'
  BY ViewsAre, ViewsAreNext DEF IInv
<1>1. /\ head \in Indices /\ tail \in Indices /\ ring \in [Indices -> Items]
      /\ drained = <<>> /\ drained' = Waiting /\ head' = head /\ tail' = head /\ ring' = ring
      /\ app = "CMC" /\ app' = "CMC" /\ shown' = shown
  BY <1>0, TypeParts DEF Rings, DrainRing, IInv, ProgramInv
<1>2. \A k : ~Occurs(drained, k)
  BY <1>1, EmptySeq, NothingOccurs
<1>3. \A k : ~Occurs(Waiting', k)
  <2>1. Waiting' = WaitingOf(ring, head, head)
    BY <1>1 DEF Waiting, WaitingOf, Distance, Place
  <2>2. Distance(head, head) = 0
    BY <1>1, HeadIsNext
  <2>3. Waiting' \in Seq(Items) /\ Len(Waiting') = 0
    BY <1>1, <2>1, <2>2, WaitingOfIs
  <2> QED
    BY <2>3, NothingOccurs
<1>4. \A k \in Kinds : Screen(k)' = IF k \in some THEN Newest(k) ELSE Screen(k)
  BY <1>1, <1>2, <1>3 DEF Screen, Newest
<1>5. SameNewest
  BY <1>1, <1>2, <1>3 DEF SameNewest, Screen, Newest
<1> QED
  BY <1>0, <1>4, <1>5, Shows

LEMMA PrintIsSeen ==
    ASSUME IInv, IInv', NEW c \in Kinds, PrintSlot(c)
    PROVE  Board!Next
<1>0. TypeOK /\ Views /\ Views'
  BY ViewsAre, ViewsAreNext DEF IInv
<1>1. /\ app = "VMC" /\ app' = "VMC" /\ slot' = slot /\ drained = <<>> /\ drained' = <<>>
      /\ shown \in Pairs
  BY <1>0, TypeParts DEF PrintSlot, IInv, ProgramInv, queue
<1>2. \A k : ~Occurs(drained, k) /\ ~Occurs(drained', k)
  BY <1>1, EmptySeq, NothingOccurs
<1>3. shown'[c].first = slot[c].first /\ \A k \in Kinds \ {c} : shown'[k] = shown[k]
  <2>1. CASE slot[c] = Empty
    BY <1>1, <2>1 DEF PrintSlot, IInv, ShownInv
  <2>2. CASE slot[c] # Empty
    BY <1>1, <2>2 DEF PrintSlot, Pairs
  <2> QED
    BY <2>1, <2>2
<1>4. \A k \in Kinds : Screen(k)' = IF k \in {c} THEN Newest(k) ELSE Screen(k)
  BY <1>1, <1>2, <1>3 DEF Screen, Newest
<1>5. SameNewest
  BY <1>1 DEF SameNewest, Newest
<1> QED
  BY <1>0, <1>4, <1>5, Shows

LEMMA BoardStep ==
    ASSUME IInv, IInv', Next
    PROVE  [Board!Next]_(Board!vars)
<1>0. TypeOK /\ Views /\ Views'
  BY ViewsAre, ViewsAreNext DEF IInv
<1>1. ASSUME NEW w \in Workers, NEW k \in Kinds, Receive(w, k) PROVE [Board!Next]_(Board!vars)
  <2>1. /\ app' = app /\ shown' = shown /\ drained' = drained /\ Waiting' = Waiting
        /\ \A c \in Kinds : slot'[c].first = slot[c].first
    BY <1>1, SameRing DEF Receive, slots, queue
  <2> QED
    BY <1>0, <2>1, Aside, Stutters
<1>2. ASSUME NEW w \in Workers, Reject(w) PROVE [Board!Next]_(Board!vars)
  <2>1. /\ app' = app /\ shown' = shown /\ drained' = drained /\ Waiting' = Waiting
        /\ \A c \in Kinds : slot'[c].first = slot[c].first
    BY <1>2, SameRing DEF Reject, slots, queue
  <2> QED
    BY <1>0, <2>1, Aside, Stutters
<1>3. ASSUME NEW w \in Workers, ParseBegin(w) PROVE [Board!Next]_(Board!vars)
  <2>i. TypeOK
    BY <1>0
  <2>0. slotLock \in Locks /\ slot \in Pairs
    BY <1>0, TypeParts
  <2>k. PICK c \in Kinds : c = worker[w].item.kind
    BY <2>i, WorkerFields
  <2>r. worker[w].item.report \in Counts
    BY <2>i, WorkerFields, CapacityType DEF Counts, Reports, NoReport
  <2>2. /\ slotLock[c] = Free /\ slotLock' = [slotLock EXCEPT ![c] = w]
        /\ slot' = [slot EXCEPT ![c].first = worker[w].item.report]
    BY <1>3, <2>k DEF ParseBegin
  <2>3. /\ slotLock'[c] = w /\ slot'[c].first = worker[w].item.report /\ slot'[c].second = slot[c].second
        /\ \A k \in Kinds \ {c} : slotLock'[k] = slotLock[k] /\ slot'[k] = slot[k]
        /\ slotLock' \in Locks /\ slot' \in Pairs
    BY <2>2, <2>r, <2>0 DEF Locks, Pairs, Counts
  <2>4. /\ app = "VMC" /\ app' = app /\ shown' = shown /\ drained' = drained /\ worker[w].item.report \in Reports
    BY <1>3 DEF ParseBegin, queue, IInv, ReportInv, At
  <2>5. SameScreen
    BY <2>4 DEF SameScreen, Screen
  <2>6. Newest(c)' = worker[w].item.report /\ \A k \in Kinds \ {c} : Newest(k)' = Newest(k)
    BY <2>3, <2>4 DEF Newest
  <2> QED
    BY <1>0, <2>4, <2>5, <2>6, Accepts
<1>4. ASSUME NEW w \in Workers, ParseEnd(w) PROVE [Board!Next]_(Board!vars)
  <2>i. TypeOK
    BY <1>0
  <2>0. slotLock \in Locks /\ slot \in Pairs
    BY <1>0, TypeParts
  <2>k. PICK c \in Kinds : c = worker[w].item.kind
    BY <2>i, WorkerFields
  <2>r. worker[w].item.report \in Counts
    BY <2>i, WorkerFields, CapacityType DEF Counts, Reports, NoReport
  <2>2. /\ slotLock' = [slotLock EXCEPT ![c] = Free]
        /\ slot' = [slot EXCEPT ![c].second = worker[w].item.report]
    BY <1>4, <2>k DEF ParseEnd
  <2>3. /\ slotLock'[c] = Free /\ slot'[c].second = worker[w].item.report /\ slot'[c].first = slot[c].first
        /\ \A k \in Kinds \ {c} : slotLock'[k] = slotLock[k] /\ slot'[k] = slot[k]
        /\ slotLock' \in Locks /\ slot' \in Pairs
    BY <2>2, <2>r, <2>0 DEF Locks, Pairs, Counts
  <2>4. /\ app' = app /\ shown' = shown /\ drained' = drained /\ Waiting' = Waiting
    BY <1>4, SameRing DEF ParseEnd, queue
  <2>5. \A k \in Kinds : slot'[k].first = slot[k].first
    BY <2>3
  <2> QED
    BY <1>0, <2>4, <2>5, Aside, Stutters
<1>5. ASSUME NEW w \in Workers, CopyItem(w) PROVE [Board!Next]_(Board!vars)
  <2>1. /\ app' = app /\ shown' = shown /\ drained' = drained /\ Waiting' = Waiting
        /\ \A c \in Kinds : slot'[c].first = slot[c].first
    BY <1>5, SameRing DEF CopyItem, slots, queue
  <2> QED
    BY <1>0, <2>1, Aside, Stutters
<1>6. ASSUME NEW w \in Workers, PushBegin(w) PROVE [Board!Next]_(Board!vars)
  <2>1. /\ app' = app /\ shown' = shown /\ drained' = drained /\ slot' = slot
        /\ head' = head /\ tail' = tail /\ (ring' = ring \/ ring' = [ring EXCEPT ![head] = worker[w].item])
    BY <1>6 DEF PushBegin, slots
  <2>2. /\ head \in Indices /\ tail \in Indices /\ ring \in Rings
    BY <1>0, TypeParts
  <2>3. \A i \in 1..Distance(head, tail) : ring'[Place(tail, i)] = ring[Place(tail, i)]
    BY <2>1, <2>2, HeadIsNext DEF Rings
  <2>4. Waiting' = Waiting
    <3>1. /\ Waiting = [i \in 1..Distance(head, tail) |-> ring[Place(tail, i)]]
          /\ Waiting' = [i \in 1..Distance(head, tail) |-> ring'[Place(tail, i)]]
      BY <2>1 DEF Waiting, Distance, Place
    <3> QED
      BY <2>3, <3>1
  <2> QED
    BY <1>0, <2>1, <2>4, Aside, Stutters
<1>7. ASSUME NEW w \in Workers, PushEnd(w) PROVE [Board!Next]_(Board!vars)
  BY <1>7, PushIsSeen
<1>8. ASSUME NEW w \in Workers, Drop(w) PROVE [Board!Next]_(Board!vars)
  <2>1. /\ app' = app /\ shown' = shown /\ drained' = drained /\ Waiting' = Waiting
        /\ \A c \in Kinds : slot'[c].first = slot[c].first
    BY <1>8, SameRing DEF Drop, slots, queue
  <2> QED
    BY <1>0, <2>1, Aside, Stutters
<1>9. ASSUME DrainRing PROVE [Board!Next]_(Board!vars)
  BY <1>9, DrainIsSeen
<1>10. ASSUME PrintDrained PROVE [Board!Next]_(Board!vars)
  <2>1. /\ app' = app /\ slot' = slot /\ drained' = <<>> /\ Waiting' = Waiting
    BY <1>10, SameRing DEF PrintDrained, slots
  <2>2. \A k : ~Occurs(drained', k)
    BY <2>1, EmptySeq, NothingOccurs
  <2>3. \A k \in Kinds : shown'[k].first = Screen(k)
    BY <1>10 DEF PrintDrained, Screen
  <2>4. SameScreen
    BY <2>2, <2>3 DEF SameScreen, Screen
  <2>5. SameNewest
    BY <2>1, <2>4 DEF SameScreen, SameNewest, Newest
  <2> QED
    BY <1>0, <2>4, <2>5, Stutters
<1>11. ASSUME StartDashboard PROVE [Board!Next]_(Board!vars)
  <2>1. /\ app' = app /\ shown' = shown /\ drained' = drained /\ Waiting' = Waiting
        /\ \A c \in Kinds : slot'[c].first = slot[c].first
    BY <1>11, SameRing DEF StartDashboard, slots, queue
  <2> QED
    BY <1>0, <2>1, Aside, Stutters
<1>12. ASSUME NEW k \in Kinds, PrintSlot(k) PROVE [Board!Next]_(Board!vars)
  BY <1>12, PrintIsSeen
<1>13. ASSUME EndDashboard PROVE [Board!Next]_(Board!vars)
  <2>1. /\ app' = app /\ shown' = shown /\ drained' = drained /\ Waiting' = Waiting
        /\ \A c \in Kinds : slot'[c].first = slot[c].first
    BY <1>13, SameRing DEF EndDashboard, slots, queue
  <2> QED
    BY <1>0, <2>1, Aside, Stutters
<1>14. ASSUME NEW w \in Workers, CountCbit(w) PROVE [Board!Next]_(Board!vars)
  <2>1. /\ app' = app /\ shown' = shown /\ drained' = drained /\ Waiting' = Waiting
        /\ \A c \in Kinds : slot'[c].first = slot[c].first
    BY <1>14, SameRing DEF CountCbit, slots, queue
  <2> QED
    BY <1>0, <2>1, Aside, Stutters
<1>15. ASSUME NEW w \in Workers, RejectCbit(w) PROVE [Board!Next]_(Board!vars)
  <2>1. /\ app' = app /\ shown' = shown /\ drained' = drained /\ Waiting' = Waiting
        /\ \A c \in Kinds : slot'[c].first = slot[c].first
    BY <1>15, SameRing DEF RejectCbit, slots, queue
  <2> QED
    BY <1>0, <2>1, Aside, Stutters
<1> QED
  BY <1>1, <1>2, <1>3, <1>4, <1>5, <1>6, <1>7, <1>8, <1>9, <1>10, <1>11, <1>12, <1>13,
     <1>14, <1>15 DEF Next, HandlePacket, Dashboard

\* Both programs are a board that shows what was accepted last, as far as safety goes: a
\* step of a worker or of the dashboard accepts one report, brings some kinds up to date
\* with the report accepted last, or changes nothing.  The VMC, which overwrites its slots
\* in place, never shows a half of one report with a half of another, and the CMC shows no
\* older report while the ring still held a newer one.
THEOREM ShowsLatest == Spec => Board!Init /\ [][Board!Next]_(Board!vars)
<1>1. Init => Board!Init
  <2> SUFFICES ASSUME Init PROVE Board!Init
    OBVIOUS
  <2>1. IInv /\ Views
    BY InitInv, ViewsAre
  <2>2. \A k : ~Occurs(drained, k)
    BY EmptySeq, NothingOccurs DEF Init
  <2>3. \A k : ~Occurs(Waiting, k)
    <3>1. Distance(0, 0) = 0
      BY HeadIsNext, CapacityType DEF Indices
    <3>2. Len(Waiting) = 0 /\ Waiting \in Seq(Items)
      BY <2>1, <3>1, WaitingIs DEF IInv, Init
    <3> QED
      BY <3>2, NothingOccurs
  <2>4. \A k \in Kinds : Screen(k) = NoReport /\ Newest(k) = NoReport
    BY <2>2, <2>3 DEF Init, Screen, Newest, Empty
  <2> QED
    BY <2>1, <2>4 DEF Views, Board!Init, Board!NoReport, NoReport
<1>2. IInv /\ IInv' /\ [Next]_vars => [Board!Next]_(Board!vars)
  <2>1. ASSUME IInv, IInv', UNCHANGED vars PROVE UNCHANGED Board!vars
    <3>1. Views /\ Views'
      BY <2>1, ViewsAre, ViewsAreNext
    <3>2. /\ app' = app /\ shown' = shown /\ drained' = drained /\ slot' = slot /\ Waiting' = Waiting
      BY <2>1, SameRing DEF vars, slots, queue
    <3> QED
      BY <3>1, <3>2, Aside, Stutters
  <2> QED
    BY <2>1, BoardStep
<1> QED
  BY <1>1, <1>2, Inductive, PTL DEF Spec

===============================================================================
