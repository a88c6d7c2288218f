---------------------------- MODULE UnitAppsProofs ----------------------------
(***************************************************************************)
(* Proofs about what the three unit applications have in common: the test  *)
(* traffic, VlTraffic, for any number of VLs, of numbers per VL, of losses *)
(* and of packets on the way, and every size of the local counters; and    *)
(* the life of an application, AppLifecycle, for every application, any    *)
(* number of lcores and any number of signals.                             *)
(***************************************************************************)
EXTENDS VlTraffic, AppLifecycle, FiniteSetTheorems, SequenceTheorems, NaturalsInduction, WellFoundedInduction,
        TLAPS

-----------------------------------------------------------------------------
(* The sum of a function, as the fold computes it.                           *)

Pick(s) == CHOOSE x \in s : TRUE

(* What the fold makes of s, when it has made g of the smaller sets. *)
Folded(f, g, s) == IF s = {} THEN 0 ELSE f[Pick(s)] + g[s \ {Pick(s)}]

Folds(f, S, g) == g = [s \in SUBSET S |-> Folded(f, g, s)]

LEMMA SumChosen ==
  ASSUME NEW f, NEW S PROVE SumFunctionOnSet(f, S) = (CHOOSE g : Folds(f, S, g))[S]
  BY Zenon DEF SumFunctionOnSet, FoldFunctionOnSet, MapThenFoldSet, Folds, Folded, Pick

Smaller == {p \in Nat \X Nat : p[1] < p[2]}

LEMMA LeastOf == ASSUME NEW T \in SUBSET Nat, T # {} PROVE \E m \in T : m = 0 \/ m - 1 \in Nat \ T
  <1>1. IsWellFoundedOn(Smaller, Nat)
    BY NatLessThanWellFounded DEF OpToRel, Smaller
  <1>2. PICK m \in T : \A y \in T : ~(<<y, m>> \in Smaller)
    BY <1>1, WFMin, Zenon
  <1>3. m # 0 => m - 1 \in Nat /\ <<m - 1, m>> \in Smaller
    BY DEF Smaller
  <1> QED
    BY <1>2, <1>3

LEMMA OneLess ==
  ASSUME NEW S, IsFiniteSet(S), NEW s \in SUBSET S
  PROVE  /\ Cardinality(s) \in Nat /\ Cardinality(s) <= Cardinality(S)
         /\ Cardinality(s) = 0 <=> s = {}
         /\ s # {} => /\ Pick(s) \in s /\ s \ {Pick(s)} \in SUBSET S
                      /\ Cardinality(s \ {Pick(s)}) = Cardinality(s) - 1
  <1>1. IsFiniteSet(s) /\ Cardinality(s) \in Nat /\ Cardinality(s) <= Cardinality(S)
    BY FS_Subset, FS_CardinalityType
  <1>2. Cardinality(s) = 0 <=> s = {}
    BY <1>1, FS_EmptySet
  <1>3. s # {} => Pick(s) \in s
    BY DEF Pick
  <1>4. s # {} => Cardinality(s \ {Pick(s)}) = Cardinality(s) - 1
    BY <1>1, <1>3, FS_RemoveElement
  <1> QED
    BY <1>1, <1>2, <1>3, <1>4

(* There is such a function, because each set is made of a smaller one. *)
LEMMA FoldExists ==
  ASSUME NEW f, NEW S, IsFiniteSet(S)
  PROVE  \E g : Folds(f, S, g)
  <1> DEFINE Upto(g, n) == /\ g = [s \in SUBSET S |-> g[s]]
                           /\ \A s \in SUBSET S : Cardinality(s) <= n => g[s] = Folded(f, g, s)
             T == {n \in Nat : ~ \E g : Upto(g, n)}
  <1>1. T = {}
    <2> SUFFICES ASSUME T # {} PROVE FALSE
      OBVIOUS
    <2>1. PICK m \in T : m = 0 \/ m - 1 \in Nat \ T
      BY LeastOf
    <2>2. CASE m = 0
      <3> DEFINE g == [s \in SUBSET S |-> 0]
      <3>1. ASSUME NEW s \in SUBSET S, Cardinality(s) <= 0 PROVE g[s] = Folded(f, g, s)
        <4>1. Cardinality(s) \in Nat /\ (Cardinality(s) = 0 <=> s = {})
          BY OneLess
        <4>2. s = {}
          BY <3>1, <4>1
        <4> QED
          BY <4>2 DEF Folded
      <3>2. g = [s \in SUBSET S |-> g[s]]
        OBVIOUS
      <3>3. Upto(g, 0)
        BY <3>1, <3>2
      <3> QED
        BY <2>2, <3>3
    <2>3. CASE m - 1 \in Nat \ T
      <3>1. PICK g : Upto(g, m - 1)
        BY <2>3
      <3> DEFINE h == [s \in SUBSET S |-> Folded(f, g, s)]
      <3>2. ASSUME NEW s \in SUBSET S, Cardinality(s) <= m PROVE h[s] = Folded(f, h, s)
        <4>1. CASE s = {}
          BY <4>1 DEF Folded
        <4>2. CASE s # {}
          <5> DEFINE t == s \ {Pick(s)}
          <5>1. t \in SUBSET S /\ Cardinality(t) <= m - 1
            BY <3>2, <4>2, OneLess
          <5>2. g[t] = Folded(f, g, t) /\ h[t] = Folded(f, g, t)
            BY <3>1, <5>1
          <5>3. Folded(f, g, s) = f[Pick(s)] + g[t] /\ Folded(f, h, s) = f[Pick(s)] + h[t]
            BY <4>2 DEF Folded
          <5>4. h[s] = Folded(f, g, s)
            OBVIOUS
          <5> QED
            BY <5>2, <5>3, <5>4
        <4> QED
          BY <4>1, <4>2
      <3>3. h = [s \in SUBSET S |-> h[s]]
        OBVIOUS
      <3>4. Upto(h, m)
        BY <3>2, <3>3
      <3> QED
        BY <3>4
    <2> QED
      BY <2>1, <2>2, <2>3
  <1>2. PICK g : Upto(g, Cardinality(S))
    BY <1>1, FS_CardinalityType
  <1>3. \A s \in SUBSET S : g[s] = Folded(f, g, s)
    BY <1>2, OneLess
  <1>4. Folds(f, S, g)
    BY <1>2, <1>3 DEF Folds
  <1> QED
    BY <1>4

LEMMA SumOf ==
  ASSUME NEW f, NEW S, IsFiniteSet(S)
  PROVE  \E g : /\ \A s \in SUBSET S : g[s] = Folded(f, g, s)
                /\ SumFunctionOnSet(f, S) = g[S]
  <1> DEFINE g == CHOOSE h : Folds(f, S, h)
  <1>1. Folds(f, S, g)
    BY FoldExists
  <1>2. SumFunctionOnSet(f, S) = g[S]
    BY SumChosen
  <1> HIDE DEF g
  <1>3. \A s \in SUBSET S : g[s] = Folded(f, g, s)
    BY <1>1 DEF Folds
  <1> QED
    BY <1>2, <1>3

(* A sum of zeros is zero. *)
LEMMA SumOfZeros ==
  ASSUME NEW f, NEW S, IsFiniteSet(S), \A x \in S : f[x] = 0
  PROVE  SumFunctionOnSet(f, S) = 0
  <1>1. PICK g : /\ \A s \in SUBSET S : g[s] = Folded(f, g, s)
                 /\ SumFunctionOnSet(f, S) = g[S]
    BY SumOf
  <1> DEFINE T == {n \in Nat : \E s \in SUBSET S : Cardinality(s) = n /\ g[s] # 0}
  <1>2. T = {}
    <2> SUFFICES ASSUME T # {} PROVE FALSE
      OBVIOUS
    <2>1. PICK m \in T : m = 0 \/ m - 1 \in Nat \ T
      BY LeastOf
    <2>2. PICK s \in SUBSET S : Cardinality(s) = m /\ g[s] # 0
      BY <2>1
    <2>3. CASE s = {}
      BY <1>1, <2>2, <2>3 DEF Folded
    <2>4. CASE s # {}
      <3> DEFINE t == s \ {Pick(s)}
      <3>1. Pick(s) \in S /\ t \in SUBSET S /\ Cardinality(t) = m - 1 /\ m # 0
        BY <2>2, <2>4, OneLess
      <3>2. g[s] = f[Pick(s)] + g[t]
        BY <1>1, <2>4 DEF Folded
      <3>3. g[t] = 0
        BY <2>1, <3>1
      <3> QED
        BY <2>2, <3>1, <3>2, <3>3
    <2> QED
      BY <2>3, <2>4
  <1> QED
    BY <1>1, <1>2, FS_CardinalityType

(* A sum changes by what one of its terms does. *)
LEMMA SumChanges ==
  ASSUME NEW S, IsFiniteSet(S), NEW f \in [S -> Int], NEW h \in [S -> Int], NEW x \in S,
         \A y \in S \ {x} : h[y] = f[y]
  PROVE  /\ SumFunctionOnSet(f, S) \in Int
         /\ SumFunctionOnSet(h, S) = SumFunctionOnSet(f, S) + (h[x] - f[x])
  <1>1. PICK g : /\ \A s \in SUBSET S : g[s] = Folded(f, g, s)
                 /\ SumFunctionOnSet(f, S) = g[S]
    BY SumOf
  <1>2. PICK k : /\ \A s \in SUBSET S : k[s] = Folded(h, k, s)
                 /\ SumFunctionOnSet(h, S) = k[S]
    BY SumOf
  <1> DEFINE Change(s) == IF x \in s THEN h[x] - f[x] ELSE 0
             Fine(s) == g[s] \in Int /\ k[s] = g[s] + Change(s)
             T == {n \in Nat : \E s \in SUBSET S : Cardinality(s) = n /\ ~Fine(s)}
  <1>3. T = {}
    <2> SUFFICES ASSUME T # {} PROVE FALSE
      OBVIOUS
    <2>1. PICK m \in T : m = 0 \/ m - 1 \in Nat \ T
      BY LeastOf
    <2>2. PICK s \in SUBSET S : Cardinality(s) = m /\ ~Fine(s)
      BY <2>1
    <2>3. CASE s = {}
      <3>1. g[s] = 0 /\ k[s] = 0
        BY <1>1, <1>2, <2>3 DEF Folded
      <3> QED
        BY <2>2, <2>3, <3>1
    <2>4. CASE s # {}
      <3> DEFINE t == s \ {Pick(s)}
                 y == Pick(s)
      <3>1. y \in S /\ y \in s /\ t \in SUBSET S /\ Cardinality(t) = m - 1 /\ m # 0
        BY <2>2, <2>4, OneLess
      <3>2. g[s] = f[y] + g[t] /\ k[s] = h[y] + k[t]
        BY <1>1, <1>2, <2>4 DEF Folded
      <3>3. Fine(t)
        BY <2>1, <3>1
      <3>4. f[y] \in Int /\ h[y] \in Int /\ f[x] \in Int /\ h[x] \in Int
        BY <3>1
      <3>5. CASE y = x
        <4>1. Change(t) = 0 /\ Change(s) = h[x] - f[x]
          BY <3>1, <3>5
        <4> HIDE DEF t, y, Change
        <4> QED
          BY <2>2, <3>2, <3>3, <3>4, <3>5, <4>1
      <3>6. CASE y # x
        <4>1. Change(t) = Change(s) /\ h[y] = f[y] /\ Change(s) \in Int
          BY <3>1, <3>4, <3>6
        <4> HIDE DEF t, y, Change
        <4> QED
          BY <2>2, <3>2, <3>3, <3>4, <3>6, <4>1
      <3> QED
        BY <3>5, <3>6
    <2> QED
      BY <2>3, <2>4
  <1>4. Fine(S)
    BY <1>3, FS_CardinalityType
  <1> QED
    BY <1>1, <1>2, <1>4

(* A sum of naturals is one. *)
LEMMA SumNatural ==
  ASSUME NEW S, IsFiniteSet(S), NEW f \in [S -> Nat]
  PROVE  SumFunctionOnSet(f, S) \in Nat
  <1>1. PICK g : /\ \A s \in SUBSET S : g[s] = Folded(f, g, s)
                 /\ SumFunctionOnSet(f, S) = g[S]
    BY SumOf
  <1> DEFINE T == {n \in Nat : \E s \in SUBSET S : Cardinality(s) = n /\ g[s] \notin Nat}
  <1>2. T = {}
    <2> SUFFICES ASSUME T # {} PROVE FALSE
      OBVIOUS
    <2>1. PICK m \in T : m = 0 \/ m - 1 \in Nat \ T
      BY LeastOf
    <2>2. PICK s \in SUBSET S : Cardinality(s) = m /\ g[s] \notin Nat
      BY <2>1
    <2>3. CASE s = {}
      <3>1. g[s] = 0
        BY <1>1, <2>3 DEF Folded
      <3> QED
        BY <2>2, <3>1
    <2>4. CASE s # {}
      <3> DEFINE t == s \ {Pick(s)}
      <3>1. Pick(s) \in S /\ t \in SUBSET S /\ Cardinality(t) = m - 1 /\ m # 0
        BY <2>2, <2>4, OneLess
      <3>2. g[s] = f[Pick(s)] + g[t]
        BY <1>1, <2>4 DEF Folded
      <3>3. g[t] \in Nat /\ f[Pick(s)] \in Nat
        BY <2>1, <3>1
      <3> QED
        BY <2>2, <3>2, <3>3
    <2> QED
      BY <2>3, <2>4
  <1> QED
    BY <1>1, <1>2, FS_CardinalityType

-----------------------------------------------------------------------------
(* The numbers of a VL on its way back from the unit form a chain: each is   *)
(* the one before, plus one, plus what was lost in between; the chain begins *)
(* at the number the receiver is to expect and ends, with what was lost      *)
(* after the last packet, at the number the sender will use next.            *)

Packets == [vl : VLs, seq : Nat, gap : Nat]

(* d[i] is the number due after the first i packets of w. *)
Due(w, v, d) ==
  \A i \in 1..Len(w) : IF w[i].vl = v THEN w[i].seq = d[i - 1] + w[i].gap /\ d[i] = w[i].seq + 1
                                      ELSE d[i] = d[i - 1]

Chain(w, v, base, next, lost) ==
  \E d \in [0..Len(w) -> Nat] : d[0] = base /\ Due(w, v, d) /\ next = d[Len(w)] + lost

LEMMA ChainSend ==
  ASSUME NEW w \in Seq(Packets), NEW v \in VLs, NEW base \in Nat, NEW next \in Nat, NEW lost \in Nat,
         Chain(w, v, base, next, lost), NEW p \in Packets
  PROVE  /\ p.vl = v /\ p.seq = next /\ p.gap = lost => Chain(Append(w, p), v, base, next + 1, 0)
         /\ p.vl # v => Chain(Append(w, p), v, base, next, lost)
  <1>1. PICK d \in [0..Len(w) -> Nat] : d[0] = base /\ Due(w, v, d) /\ next = d[Len(w)] + lost
    BY DEF Chain
  <1> DEFINE u == Append(w, p)
             n == Len(w)
             e == [i \in 0..n + 1 |-> IF i = n + 1 THEN (IF p.vl = v THEN p.seq + 1 ELSE d[n]) ELSE d[i]]
  <1>2. /\ n \in Nat /\ Len(u) = n + 1 /\ u[n + 1] = p
        /\ \A i \in 1..n : u[i] = w[i]
    BY AppendProperties, LenProperties
  <1>3. p.seq \in Nat /\ d[n] \in Nat
    <2>1. p.seq \in Nat
      BY DEF Packets
    <2>2. n \in 0..n
      BY <1>2
    <2> QED
      BY <2>1, <2>2
  <1> HIDE DEF u, n
  <1>4. e \in [0..n + 1 -> Nat] /\ e[0] = base /\ e[n + 1] = (IF p.vl = v THEN p.seq + 1 ELSE d[n])
    BY <1>1, <1>2, <1>3 DEF n
  <1>5. ASSUME NEW i \in 1..n
        PROVE  IF u[i].vl = v THEN u[i].seq = e[i - 1] + u[i].gap /\ e[i] = u[i].seq + 1
                              ELSE e[i] = e[i - 1]
    <2>1. e[i] = d[i] /\ e[i - 1] = d[i - 1]
      BY <1>2
    <2>2. u[i] = w[i]
      BY <1>2
    <2> QED
      BY <1>1, <2>1, <2>2 DEF Due, n
  <1>6. e[n] = d[n]
    BY <1>2
  <1> HIDE DEF e
  <1>7. ASSUME p.vl = v => p.seq = d[n] + p.gap PROVE Due(u, v, e)
    <2> SUFFICES ASSUME NEW i \in 1..Len(u)
                 PROVE  IF u[i].vl = v THEN u[i].seq = e[i - 1] + u[i].gap /\ e[i] = u[i].seq + 1
                                       ELSE e[i] = e[i - 1]
      BY DEF Due
    <2>1. CASE i \in 1..n
      BY <1>5, <2>1
    <2>2. CASE i = n + 1
      BY <1>2, <1>4, <1>6, <1>7, <2>2
    <2> QED
      BY <1>2, <2>1, <2>2
  <1>8. ASSUME p.vl = v, p.seq = next, p.gap = lost PROVE Chain(u, v, base, next + 1, 0)
    <2>1. Due(u, v, e)
      BY <1>1, <1>7, <1>8 DEF n
    <2>2. next + 1 = e[Len(u)] + 0
      BY <1>2, <1>4, <1>8
    <2> QED
      BY <1>2, <1>4, <2>1, <2>2 DEF Chain
  <1>9. ASSUME p.vl # v PROVE Chain(u, v, base, next, lost)
    <2>1. Due(u, v, e)
      BY <1>7, <1>9
    <2>2. next = e[Len(u)] + lost
      BY <1>1, <1>2, <1>4, <1>9 DEF n
    <2> QED
      BY <1>2, <1>4, <2>1, <2>2 DEF Chain
  <1> QED
    BY <1>8, <1>9 DEF u

(* One more is lost after the last packet. *)
LEMMA ChainSkips ==
  ASSUME NEW w \in Seq(Packets), NEW v \in VLs, NEW base \in Nat, NEW next \in Nat, NEW lost \in Nat,
         Chain(w, v, base, next, lost)
  PROVE  Chain(w, v, base, next + 1, lost + 1)
  <1>1. PICK d \in [0..Len(w) -> Nat] : d[0] = base /\ Due(w, v, d) /\ next = d[Len(w)] + lost
    BY DEF Chain
  <1>2. d[Len(w)] \in Nat
    BY LenProperties
  <1>3. next + 1 = d[Len(w)] + (lost + 1)
    BY <1>1, <1>2
  <1> QED
    BY <1>1, <1>3 DEF Chain

(* The first packet is taken. *)
LEMMA ChainTakes ==
  ASSUME NEW w \in Seq(Packets), w # <<>>, NEW v \in VLs, NEW base \in Nat, NEW next \in Nat,
         NEW lost \in Nat, Chain(w, v, base, next, lost)
  PROVE  /\ Head(w) \in Packets /\ Tail(w) \in Seq(Packets)
         /\ Head(w).vl = v => /\ Head(w).seq = base + Head(w).gap
                              /\ Chain(Tail(w), v, Head(w).seq + 1, next, lost)
         /\ Head(w).vl # v => Chain(Tail(w), v, base, next, lost)
  <1>1. PICK d \in [0..Len(w) -> Nat] : d[0] = base /\ Due(w, v, d) /\ next = d[Len(w)] + lost
    BY DEF Chain
  <1> DEFINE u == Tail(w)
             n == Len(w)
             e == [i \in 0..n - 1 |-> d[i + 1]]
  <1>2. /\ n \in Nat \ {0} /\ Len(u) = n - 1 /\ Head(w) = w[1] /\ w[1] \in Packets /\ u \in Seq(Packets)
        /\ \A i \in 1..n - 1 : u[i] = w[i + 1]
    BY HeadTailProperties, LenProperties, ElementOfSeq, EmptySeq
  <1> HIDE DEF u, n
  <1>3. e \in [0..n - 1 -> Nat] /\ e[0] = d[1] /\ e[n - 1] = d[n]
    BY <1>2 DEF n
  <1>4. Due(u, v, e)
    <2> SUFFICES ASSUME NEW i \in 1..n - 1
                 PROVE  IF u[i].vl = v THEN u[i].seq = e[i - 1] + u[i].gap /\ e[i] = u[i].seq + 1
                                       ELSE e[i] = e[i - 1]
      BY <1>2 DEF Due
    <2>1. e[i] = d[i + 1] /\ e[i - 1] = d[i]
      BY <1>2
    <2>2. i + 1 \in 1..n /\ (i + 1) - 1 = i /\ u[i] = w[i + 1]
      BY <1>2
    <2>3. IF w[i + 1].vl = v THEN w[i + 1].seq = d[i] + w[i + 1].gap /\ d[i + 1] = w[i + 1].seq + 1
                             ELSE d[i + 1] = d[i]
      BY <1>1, <2>2 DEF Due, n
    <2> QED
      BY <2>1, <2>2, <2>3
  <1> HIDE DEF e
  <1>5. IF w[1].vl = v THEN w[1].seq = d[0] + w[1].gap /\ d[1] = w[1].seq + 1 ELSE d[1] = d[0]
    <2>1. 1 \in 1..Len(w) /\ 1 - 1 = 0
      BY <1>2 DEF n
    <2> QED
      BY <1>1, <2>1 DEF Due
  <1>6. Chain(u, v, d[1], next, lost)
    BY <1>1, <1>2, <1>3, <1>4 DEF Chain, n
  <1> QED
    BY <1>1, <1>2, <1>5, <1>6 DEF u

(* The first packet is lost: none of its VL is behind it, or the next one    *)
(* carries what was lost.                                                    *)
LEMMA ChainLoses ==
  ASSUME NEW w \in Seq(Packets), w # <<>>, NEW v \in VLs, NEW base \in Nat, NEW next \in Nat,
         NEW lost \in Nat, Chain(w, v, base, next, lost), Head(w).vl = v,
         \A i \in DOMAIN Tail(w) : Tail(w)[i].vl # v
  PROVE  Chain(Tail(w), v, base, next, lost + Head(w).gap + 1)
  <1> DEFINE u == Tail(w)
             p == Head(w)
  <1>1. /\ p \in Packets /\ u \in Seq(Packets) /\ p.seq = base + p.gap
        /\ Chain(u, v, p.seq + 1, next, lost)
    BY ChainTakes
  <1>2. /\ DOMAIN u = 1..Len(u) /\ Len(u) \in Nat
        /\ \A i \in 1..Len(u) : u[i].vl # v
    BY <1>1, LenProperties
  <1>3. p.gap \in Nat /\ p.seq \in Nat
    BY <1>1 DEF Packets
  <1> HIDE DEF u, p
  <1>4. PICK d \in [0..Len(u) -> Nat] : /\ d[0] = p.seq + 1 /\ Due(u, v, d)
                                       /\ next = d[Len(u)] + lost
    BY <1>1 DEF Chain
  <1> DEFINE T == {n \in Nat : n <= Len(u) /\ d[n] # p.seq + 1}
  <1>5. T = {}
    <2> SUFFICES ASSUME T # {} PROVE FALSE
      OBVIOUS
    <2>1. PICK m \in T : m = 0 \/ m - 1 \in Nat \ T
      BY LeastOf
    <2>2. m # 0 /\ m \in 1..Len(u)
      BY <1>4, <2>1
    <2>3. d[m] = d[m - 1]
      BY <1>2, <1>4, <2>2 DEF Due
    <2> QED
      BY <1>2, <2>1, <2>2, <2>3
  <1>6. d[Len(u)] = p.seq + 1
    BY <1>2, <1>5
  <1> DEFINE e == [i \in 0..Len(u) |-> base]
  <1>7. e \in [0..Len(u) -> Nat] /\ e[0] = base /\ Due(u, v, e) /\ e[Len(u)] = base
    BY <1>2 DEF Due
  <1>8. next = e[Len(u)] + (lost + p.gap + 1)
    BY <1>1, <1>3, <1>4, <1>6, <1>7
  <1> HIDE DEF e
  <1> QED
    BY <1>7, <1>8 DEF Chain, u, p

Carried(w, i, lost) == [w EXCEPT ![i].gap = @ + lost]

LEMMA ChainCarries ==
  ASSUME NEW w \in Seq(Packets), NEW v \in VLs, NEW base \in Nat, NEW next \in Nat, NEW gone \in Nat,
         NEW lost \in Nat, Chain(w, v, base + gone, next, lost), NEW j \in 1..Len(w), w[j].vl = v,
         \A i \in 1..j - 1 : w[i].vl # v
  PROVE  Chain(Carried(w, j, gone), v, base, next, lost)
  <1>1. PICK d \in [0..Len(w) -> Nat] : /\ d[0] = base + gone /\ Due(w, v, d)
                                       /\ next = d[Len(w)] + lost
    BY DEF Chain
  <1> DEFINE u == Carried(w, j, gone)
             e == [i \in 0..Len(w) |-> IF i < j THEN base ELSE d[i]]
  <1>2. /\ Len(w) \in Nat /\ Len(u) = Len(w) /\ u[j] = [w[j] EXCEPT !.gap = @ + gone] /\ w[j] \in Packets
        /\ \A i \in 1..Len(w) : i # j => u[i] = w[i]
    <2>1. Len(w) \in Nat /\ DOMAIN w = 1..Len(w) /\ w[j] \in Packets
      BY LenProperties, ElementOfSeq
    <2>2. u = [i \in 1..Len(w) |-> IF i = j THEN [w[j] EXCEPT !.gap = @ + gone] ELSE w[i]]
      BY <2>1, Zenon DEF Carried
    <2>3. Len(u) = Len(w)
      BY <2>1, <2>2, IsASeq, LenProperties
    <2> QED
      BY <2>1, <2>2, <2>3
  <1>3. /\ u[j].vl = v /\ u[j].seq = w[j].seq /\ u[j].gap = w[j].gap + gone
        /\ w[j].seq \in Nat /\ w[j].gap \in Nat
    BY <1>2 DEF Packets
  <1> HIDE DEF u
  <1> DEFINE T == {n \in Nat : n <= j - 1 /\ d[n] # base + gone}
  <1>4. T = {}
    <2> SUFFICES ASSUME T # {} PROVE FALSE
      OBVIOUS
    <2>1. PICK m \in T : m = 0 \/ m - 1 \in Nat \ T
      BY LeastOf
    <2>2. m # 0 /\ m \in 1..j - 1 /\ m \in 1..Len(w)
      BY <1>1, <1>2, <2>1
    <2>3. d[m] = d[m - 1]
      BY <1>1, <2>2 DEF Due
    <2> QED
      BY <2>1, <2>2, <2>3
  <1>5. d[j - 1] = base + gone
    <2>1. j - 1 \in Nat /\ j - 1 <= j - 1
      OBVIOUS
    <2> QED
      BY <1>4, <2>1
  <1>6. e \in [0..Len(w) -> Nat] /\ e[0] = base /\ e[Len(w)] = d[Len(w)]
    BY <1>2
  <1>7. ASSUME NEW i \in 1..Len(w)
        PROVE  IF u[i].vl = v THEN u[i].seq = e[i - 1] + u[i].gap /\ e[i] = u[i].seq + 1
                              ELSE e[i] = e[i - 1]
    <2>1. IF w[i].vl = v THEN w[i].seq = d[i - 1] + w[i].gap /\ d[i] = w[i].seq + 1
                         ELSE d[i] = d[i - 1]
      BY <1>1 DEF Due
    <2>2. CASE i < j
      <3>1. e[i] = base /\ e[i - 1] = base /\ u[i] = w[i] /\ w[i].vl # v
        BY <1>2, <2>2
      <3> QED
        BY <3>1
    <2>3. CASE i = j
      <3>1. e[j] = d[j] /\ e[j - 1] = base
        BY <1>2
      <3>2. w[j].seq = (base + gone) + w[j].gap /\ d[j] = w[j].seq + 1
        BY <1>5, <2>1, <2>3
      <3> HIDE DEF e
      <3> QED
        BY <1>3, <2>3, <3>1, <3>2
    <2>4. CASE i > j
      <3>1. e[i] = d[i] /\ e[i - 1] = d[i - 1] /\ u[i] = w[i]
        BY <1>2, <2>4
      <3> QED
        BY <2>1, <3>1
    <2> QED
      BY <2>2, <2>3, <2>4
  <1> HIDE DEF e
  <1>8. Due(u, v, e)
    BY <1>2, <1>7 DEF Due
  <1> QED
    BY <1>1, <1>2, <1>6, <1>8 DEF Chain, u

(* A chain is made of the packets of its VL, and of no other's. *)
LEMMA ChainOfOthers ==
  ASSUME NEW w \in Seq(Packets), NEW v \in VLs, NEW base \in Nat, NEW next \in Nat, NEW lost \in Nat,
         Chain(w, v, base, next, lost), NEW gone \in Nat, NEW j \in 1..Len(w), w[j].vl # v
  PROVE  Chain(Carried(w, j, gone), v, base, next, lost)
  <1>1. PICK d \in [0..Len(w) -> Nat] : d[0] = base /\ Due(w, v, d) /\ next = d[Len(w)] + lost
    BY DEF Chain
  <1> DEFINE u == Carried(w, j, gone)
  <1>2. /\ Len(w) \in Nat /\ Len(u) = Len(w) /\ u[j] = [w[j] EXCEPT !.gap = @ + gone] /\ w[j] \in Packets
        /\ \A i \in 1..Len(w) : i # j => u[i] = w[i]
    <2>1. Len(w) \in Nat /\ DOMAIN w = 1..Len(w) /\ w[j] \in Packets
      BY LenProperties, ElementOfSeq
    <2>2. u = [i \in 1..Len(w) |-> IF i = j THEN [w[j] EXCEPT !.gap = @ + gone] ELSE w[i]]
      BY <2>1, Zenon DEF Carried
    <2>3. Len(u) = Len(w)
      BY <2>1, <2>2, IsASeq, LenProperties
    <2> QED
      BY <2>1, <2>2, <2>3
  <1>3. u[j].vl = w[j].vl
    BY <1>2 DEF Packets
  <1> HIDE DEF u
  <1>4. Due(u, v, d)
    <2> SUFFICES ASSUME NEW i \in 1..Len(w)
                 PROVE  IF u[i].vl = v THEN u[i].seq = d[i - 1] + u[i].gap /\ d[i] = u[i].seq + 1
                                       ELSE d[i] = d[i - 1]
      BY <1>2 DEF Due
    <2>1. IF w[i].vl = v THEN w[i].seq = d[i - 1] + w[i].gap /\ d[i] = w[i].seq + 1
                         ELSE d[i] = d[i - 1]
      BY <1>1 DEF Due
    <2>2. CASE i = j
      BY <1>3, <2>1, <2>2
    <2>3. CASE i # j
      BY <1>2, <2>1, <2>3
    <2> QED
      BY <2>2, <2>3
  <1> QED
    BY <1>1, <1>2, <1>4 DEF Chain, u

(* What is carried is still a sequence of packets. *)
LEMMA CarriedType ==
  ASSUME NEW w \in Seq(Packets), NEW gone \in Nat, NEW j \in 1..Len(w)
  PROVE  Carried(w, j, gone) \in Seq(Packets) /\ Len(Carried(w, j, gone)) = Len(w)
  <1> DEFINE p == [w[j] EXCEPT !.gap = @ + gone]
  <1>1. w[j] \in Packets
    BY ElementOfSeq
  <1>2. p \in Packets
    BY <1>1 DEF Packets
  <1>3. Carried(w, j, gone) = [w EXCEPT ![j] = p]
    BY Zenon DEF Carried
  <1> HIDE DEF p
  <1> QED
    BY <1>2, <1>3, ExceptSeq

-----------------------------------------------------------------------------
(* What the variables hold.                                                  *)

TrackerType == [init : BOOLEAN, expected : Nat, max : Nat, count : Nat]
LocalType == [rx : Nat, good : Nat, bad : Nat, lost : Nat]
StatsType == [total : Nat, good : Nat, bad : Nat, lost : Nat]
WitnessType == [seen : SUBSET VLs, lead : Nat, inner : Nat]
PhaseType == [at : {"warmup", "fields", "initialized", "numbers", "stats", "test"},
              todo : SUBSET Trackers]

TrafficTypes ==
  /\ setting \in Settings
  /\ offset \in VLs /\ seq \in [VLs -> Nat]
  /\ tx \in [at : {"loop", "commit", "store", "done"}, seq : Nat]
  /\ wire \in [Nets -> Seq(Packets)] /\ missed \in [Nets -> [VLs -> Nat]]
  /\ rx \in [Nets -> [at : {"poll", "count", "done"}, pkt : Packets]]
  /\ trk \in [Nets -> [VLs -> TrackerType]]
  /\ local \in [Nets -> LocalType] /\ stats \in [Nets -> StatsType]
  /\ phase \in PhaseType /\ stop \in BOOLEAN /\ quiet \in BOOLEAN
  /\ spent \in [lost : Nat, other : Nat]
  /\ real \in [Nets -> WitnessType]
  /\ foreign \in [Nets -> Nat] /\ compared \in [Nets -> Nat]

LEMMA SettingIs ==
  ASSUME setting \in Settings
  PROVE  /\ VlCount \in Nat \ {0} /\ 0 \in VLs /\ VLs \subseteq Nat
         /\ Nets \subseteq {"A", "B"} /\ "A" \in Nets
         /\ unit \in {"dtn", "vmc", "cmc"} /\ (unit = "cmc" => Nets = {"A", "B"})
         /\ setting.seq \in Nat \ {0} /\ setting.wire \in Nat \ {0}
         /\ Flush \in Nat \ {0}
         /\ NextOffset \in VLs \/ offset \notin VLs
         /\ IsFiniteSet(VLs)
  <1>1. /\ VlCount \in Nat \ {0} /\ unit \in {"dtn", "vmc", "cmc"} /\ Flush \in Nat \ {0}
        /\ setting.seq \in Nat \ {0} /\ setting.wire \in Nat \ {0}
    BY TrafficAssumption DEF VlCount, unit
  <1>2. 0 \in VLs /\ VLs \subseteq Nat
    BY <1>1 DEF VLs
  <1>3. offset \in VLs => NextOffset \in VLs
    BY <1>1 DEF VLs, NextOffset
  <1>4. IsFiniteSet(VLs)
    <2>1. 0 \in Int /\ VlCount - 1 \in Int
      BY <1>1
    <2> QED
      BY <2>1, FS_Interval DEF VLs
  <1> QED
    BY <1>1, <1>2, <1>3, <1>4 DEF Nets

(* The setting never changes, and with it the sets that depend on it. *)
LEMMA SettingStays ==
  ASSUME setting' = setting
  PROVE  /\ VLs' = VLs /\ Nets' = Nets /\ unit' = unit /\ VlCount' = VlCount /\ Packets' = Packets
         /\ Trackers' = Trackers /\ WitnessType' = WitnessType /\ PhaseType' = PhaseType
  BY DEF VLs, Nets, unit, VlCount, Packets, Trackers, WitnessType, PhaseType

LEMMA SettingKept == TrafficNext => setting' = setting
  BY DEF TrafficNext, TxStep, TxQuit, TxSend, TxSendFull, TxTwinFull, OnlyOnA, TxCommitLoad,
         TxCommitStore, ResetStep, ResetPort, ResetFields, ResetInitialized, ResetNumber,
         ResetUnitStats, Running, Quiesce, Stop, RxStep, RxTrack, RxCount, RxOther, RxForeign, RxQuit,
         Lose

LEMMA TypesStart == TrafficInit => TrafficTypes
  <1> SUFFICES ASSUME TrafficInit PROVE TrafficTypes
    OBVIOUS
  <1>1. setting \in Settings
    BY DEF TrafficInit
  <1>2. 0 \in VLs
    BY <1>1, SettingIs
  <1>3. \A S : <<>> \in Seq(S)
    BY EmptySeq
  <1>4. wire \in [Nets -> Seq(Packets)] /\ missed \in [Nets -> [VLs -> Nat]]
    BY <1>3 DEF TrafficInit
  <1>5. rx \in [Nets -> [at : {"poll", "count", "done"}, pkt : Packets]]
    BY <1>2 DEF TrafficInit, Poll, NoPacket, Packets
  <1>6. trk \in [Nets -> [VLs -> TrackerType]]
    BY DEF TrafficInit, Fresh, TrackerType
  <1>7. local \in [Nets -> LocalType] /\ stats \in [Nets -> StatsType]
    BY DEF TrafficInit, Zero, NoStats, LocalType, StatsType
  <1>8. phase \in PhaseType
    BY DEF TrafficInit, PhaseType
  <1>9. stop \in BOOLEAN /\ quiet \in BOOLEAN
    BY Zenon DEF TrafficInit
  <1>10. real \in [Nets -> WitnessType]
    BY DEF TrafficInit, WitnessType
  <1>12. foreign \in [Nets -> Nat] /\ compared \in [Nets -> Nat]
    BY DEF TrafficInit
  <1>11. /\ offset \in VLs /\ seq \in [VLs -> Nat]
         /\ tx \in [at : {"loop", "commit", "store", "done"}, seq : Nat]
         /\ spent \in [lost : Nat, other : Nat]
    BY <1>2 DEF TrafficInit
  <1> QED
    BY <1>1, <1>4, <1>5, <1>6, <1>7, <1>8, <1>9, <1>10, <1>11, <1>12 DEF TrafficTypes

RxType == [at : {"poll", "count", "done"}, pkt : Packets]

LEMMA TypesOf ==
  ASSUME TrafficTypes, NEW n \in Nets
  PROVE  /\ wire[n] \in Seq(Packets) /\ rx[n] \in RxType /\ rx[n].pkt \in Packets
         /\ local[n] \in LocalType /\ stats[n] \in StatsType /\ real[n] \in WitnessType
         /\ \A v \in VLs : trk[n][v] \in TrackerType /\ missed[n][v] \in Nat
         /\ \A v \in VLs : seq[v] \in Nat
         /\ VLs \subseteq Nat /\ 0 \in VLs /\ offset \in VLs /\ spent \in [lost : Nat, other : Nat]
         /\ foreign[n] \in Nat /\ compared[n] \in Nat
  <1>8. foreign[n] \in Nat /\ compared[n] \in Nat
    BY DEF TrafficTypes
  <1>1. wire[n] \in Seq(Packets)
    BY DEF TrafficTypes
  <1>2. rx[n] \in RxType
    BY DEF TrafficTypes, RxType
  <1>3. local[n] \in LocalType /\ stats[n] \in StatsType /\ real[n] \in WitnessType
    BY DEF TrafficTypes
  <1>4. \A v \in VLs : trk[n][v] \in TrackerType /\ missed[n][v] \in Nat
    BY DEF TrafficTypes
  <1>5. /\ \A v \in VLs : seq[v] \in Nat
        /\ offset \in VLs /\ spent \in [lost : Nat, other : Nat] /\ setting \in Settings
    BY DEF TrafficTypes
  <1>6. VLs \subseteq Nat /\ 0 \in VLs
    BY <1>5, SettingIs
  <1>7. rx[n].pkt \in Packets
    BY <1>2 DEF RxType
  <1> QED
    BY <1>1, <1>2, <1>3, <1>4, <1>5, <1>6, <1>7, <1>8

LEMMA PacketIs ==
  ASSUME NEW p \in Packets PROVE p.vl \in VLs /\ p.seq \in Nat /\ p.gap \in Nat
  BY DEF Packets

(* The fields of trackers and local counters that the workers set. *)
LEMMA TrackerSet ==
  ASSUME NEW t \in TrackerType, NEW e
  PROVE  /\ [t EXCEPT !.init = e] = [init |-> e, expected |-> t.expected, max |-> t.max, count |-> t.count]
         /\ [t EXCEPT !.expected = e] = [init |-> t.init, expected |-> e, max |-> t.max, count |-> t.count]
         /\ [t EXCEPT !.max = e] = [init |-> t.init, expected |-> t.expected, max |-> e, count |-> t.count]
         /\ [t EXCEPT !.count = e] = [init |-> t.init, expected |-> t.expected, max |-> t.max, count |-> e]
  <1>1. [t EXCEPT !.init = e] = [init |-> e, expected |-> t.expected, max |-> t.max, count |-> t.count]
    BY DEF TrackerType
  <1>2. [t EXCEPT !.expected = e] = [init |-> t.init, expected |-> e, max |-> t.max, count |-> t.count]
    BY DEF TrackerType
  <1>3. [t EXCEPT !.max = e] = [init |-> t.init, expected |-> t.expected, max |-> e, count |-> t.count]
    BY DEF TrackerType
  <1>4. [t EXCEPT !.count = e] = [init |-> t.init, expected |-> t.expected, max |-> t.max, count |-> e]
    BY DEF TrackerType
  <1> QED
    BY <1>1, <1>2, <1>3, <1>4, Zenon

LEMMA TrackerFields ==
  ASSUME NEW a \in BOOLEAN, NEW b \in Nat, NEW c \in Nat, NEW d \in Nat
  PROVE  [init |-> a, expected |-> b, max |-> c, count |-> d] \in TrackerType
  BY DEF TrackerType

LEMMA TrackerHas ==
  ASSUME NEW t \in TrackerType
  PROVE  t.init \in BOOLEAN /\ t.expected \in Nat /\ t.max \in Nat /\ t.count \in Nat
  BY DEF TrackerType

LEMMA TrackerTaken ==
  ASSUME NEW t \in TrackerType, NEW e
  PROVE  LET q == [t EXCEPT !.init = TRUE]
         IN  /\ q \in TrackerType /\ q.expected = t.expected
             /\ [q EXCEPT !.expected = e] = [init |-> TRUE, expected |-> e, max |-> t.max, count |-> t.count]
  <1> DEFINE q == [t EXCEPT !.init = TRUE]
  <1>1. q = [init |-> TRUE, expected |-> t.expected, max |-> t.max, count |-> t.count]
    BY TrackerSet, Zenon
  <1>2. q \in TrackerType
    <2>1. t.init \in BOOLEAN /\ t.expected \in Nat /\ t.max \in Nat /\ t.count \in Nat /\ TRUE \in BOOLEAN
      BY TrackerHas, Zenon
    <2>2. [init |-> TRUE, expected |-> t.expected, max |-> t.max, count |-> t.count] \in TrackerType
      BY <2>1, TrackerFields
    <2> QED
      BY <1>1, <2>2, Zenon
  <1>3. q.init = TRUE /\ q.expected = t.expected /\ q.max = t.max /\ q.count = t.count
    BY <1>1, Zenon
  <1>4. [q EXCEPT !.expected = e] = [init |-> q.init, expected |-> e, max |-> q.max, count |-> q.count]
    <2> HIDE DEF q
    <2> QED
      BY <1>2, TrackerSet, Zenon
  <1> QED
    BY <1>2, <1>3, <1>4, Zenon

LEMMA TrackerCounted ==
  ASSUME NEW t \in TrackerType, NEW e \in Nat
  PROVE  LET q == [t EXCEPT !.max = e]
         IN  /\ q \in TrackerType
             /\ [q EXCEPT !.count = @ + 1] =
                  [init |-> t.init, expected |-> t.expected, max |-> e, count |-> t.count + 1]
  <1> DEFINE q == [t EXCEPT !.max = e]
  <1>1. q = [init |-> t.init, expected |-> t.expected, max |-> e, count |-> t.count]
    BY TrackerSet, Zenon
  <1>2. q \in TrackerType
    <2>1. t.init \in BOOLEAN /\ t.expected \in Nat /\ t.max \in Nat /\ t.count \in Nat /\ TRUE \in BOOLEAN
      BY TrackerHas, Zenon
    <2>2. [init |-> t.init, expected |-> t.expected, max |-> e, count |-> t.count] \in TrackerType
      BY <2>1, TrackerFields
    <2> QED
      BY <1>1, <2>2, Zenon
  <1>3. q.init = t.init /\ q.expected = t.expected /\ q.max = e /\ q.count = t.count
    BY <1>1, Zenon
  <1>4. [q EXCEPT !.count = @ + 1] = [init |-> q.init, expected |-> q.expected, max |-> q.max, count |-> q.count + 1]
    <2> HIDE DEF q
    <2> QED
      BY <1>2, TrackerSet, Zenon
  <1> QED
    BY <1>2, <1>3, <1>4, Zenon

LEMMA ClearedIs ==
  ASSUME NEW t \in TrackerType
  PROVE  /\ Cleared(t) \in TrackerType /\ [t EXCEPT !.init = FALSE] \in TrackerType
         /\ [t EXCEPT !.init = FALSE].init = FALSE
         /\ Cleared(t).init = t.init /\ (unit # "cmc" => Cleared(t).expected = t.expected)
  <1>1. [t EXCEPT !.init = FALSE] = [init |-> FALSE, expected |-> t.expected, max |-> t.max, count |-> t.count]
    BY TrackerSet, Zenon
  <1>2. t.init \in BOOLEAN /\ t.expected \in Nat /\ t.max \in Nat /\ t.count \in Nat /\ 0 \in Nat /\ FALSE \in BOOLEAN
    BY TrackerHas
  <1>3. [init |-> FALSE, expected |-> t.expected, max |-> t.max, count |-> t.count] \in TrackerType
    BY <1>2, TrackerFields
  <1>9. /\ [init |-> t.init, expected |-> t.expected, max |-> 0, count |-> t.count] \in TrackerType
        /\ [init |-> t.init, expected |-> t.expected, max |-> 0, count |-> 0] \in TrackerType
        /\ [init |-> t.init, expected |-> 0, max |-> 0, count |-> 0] \in TrackerType
    BY <1>2, TrackerFields
  <1> DEFINE q == [t EXCEPT !.max = 0]
             r == [q EXCEPT !.count = 0]
             s == [r EXCEPT !.expected = 0]
  <1>4. q = [init |-> t.init, expected |-> t.expected, max |-> 0, count |-> t.count] /\ q \in TrackerType
    BY <1>9, TrackerSet, Zenon
  <1>5. r = [init |-> t.init, expected |-> t.expected, max |-> 0, count |-> 0] /\ r \in TrackerType
    <2> HIDE DEF q
    <2>1. r = [init |-> q.init, expected |-> q.expected, max |-> q.max, count |-> 0]
      BY <1>4, TrackerSet, Zenon
    <2>2. q.init = t.init /\ q.expected = t.expected /\ q.max = 0
      BY <1>4, Zenon
    <2> HIDE DEF r
    <2> QED
      BY <1>9, <2>1, <2>2, Zenon
  <1>6. s = [init |-> t.init, expected |-> 0, max |-> 0, count |-> 0] /\ s \in TrackerType
    <2> HIDE DEF r
    <2>1. s = [init |-> r.init, expected |-> 0, max |-> r.max, count |-> r.count]
      BY <1>5, TrackerSet, Zenon
    <2>2. r.init = t.init /\ r.max = 0 /\ r.count = 0
      BY <1>5, Zenon
    <2> HIDE DEF s
    <2> QED
      BY <1>9, <2>1, <2>2, Zenon
  <1>7. Cleared(t) = IF unit = "cmc" THEN s ELSE r
    <2>1. [t EXCEPT !.max = 0, !.count = 0, !.expected = 0] = s /\ [t EXCEPT !.max = 0, !.count = 0] = r
      OBVIOUS
    <2> QED
      BY <2>1, Zenon DEF Cleared
  <1> HIDE DEF q, r, s
  <1>8. r.init = t.init /\ r.expected = t.expected /\ s.init = t.init
    BY <1>5, <1>6, Zenon
  <1> QED
    BY <1>1, <1>3, <1>5, <1>6, <1>7, <1>8, Zenon

LEMMA LocalOne ==
  ASSUME NEW l \in LocalType, NEW e
  PROVE  /\ [l EXCEPT !.rx = e] = [rx |-> e, good |-> l.good, bad |-> l.bad, lost |-> l.lost]
         /\ [l EXCEPT !.good = e] = [rx |-> l.rx, good |-> e, bad |-> l.bad, lost |-> l.lost]
         /\ [l EXCEPT !.bad = e] = [rx |-> l.rx, good |-> l.good, bad |-> e, lost |-> l.lost]
         /\ [l EXCEPT !.lost = e] = [rx |-> l.rx, good |-> l.good, bad |-> l.bad, lost |-> e]
  <1>1. [l EXCEPT !.rx = e] = [rx |-> e, good |-> l.good, bad |-> l.bad, lost |-> l.lost]
    BY DEF LocalType
  <1>2. [l EXCEPT !.good = e] = [rx |-> l.rx, good |-> e, bad |-> l.bad, lost |-> l.lost]
    BY DEF LocalType
  <1>3. [l EXCEPT !.bad = e] = [rx |-> l.rx, good |-> l.good, bad |-> e, lost |-> l.lost]
    BY DEF LocalType
  <1>4. [l EXCEPT !.lost = e] = [rx |-> l.rx, good |-> l.good, bad |-> l.bad, lost |-> e]
    BY DEF LocalType
  <1> QED
    BY <1>1, <1>2, <1>3, <1>4, Zenon

LEMMA LocalHas ==
  /\ \A l \in LocalType : l.rx \in Nat /\ l.good \in Nat /\ l.bad \in Nat /\ l.lost \in Nat
  /\ \A a, b, c, d \in Nat : [rx |-> a, good |-> b, bad |-> c, lost |-> d] \in LocalType
  BY DEF LocalType

LEMMA LocalMore ==
  ASSUME NEW l \in LocalType
  PROVE  /\ [rx |-> l.rx + 1, good |-> l.good, bad |-> l.bad, lost |-> l.lost] \in LocalType
         /\ [rx |-> l.rx + 1, good |-> l.good + 1, bad |-> l.bad, lost |-> l.lost] \in LocalType
         /\ [rx |-> l.rx + 1, good |-> l.good, bad |-> l.bad + 1, lost |-> l.lost] \in LocalType
         /\ l.good + 0 = l.good
  <1> DEFINE a == l.rx
             b == l.good
             c == l.bad
             d == l.lost
  <1>1. a \in Nat /\ b \in Nat /\ c \in Nat /\ d \in Nat
    BY LocalHas, Zenon
  <1> HIDE DEF a, b, c, d
  <1>2. a + 1 \in Nat /\ b + 1 \in Nat /\ c + 1 \in Nat /\ b + 0 = b
    BY <1>1
  <1>3. /\ [rx |-> a + 1, good |-> b, bad |-> c, lost |-> d] \in LocalType
        /\ [rx |-> a + 1, good |-> b + 1, bad |-> c, lost |-> d] \in LocalType
        /\ [rx |-> a + 1, good |-> b, bad |-> c + 1, lost |-> d] \in LocalType
    BY <1>1, <1>2, LocalHas, Zenon
  <1> QED
    BY <1>2, <1>3 DEF a, b, c, d

LEMMA LocalTwo ==
  ASSUME NEW l \in LocalType
  PROVE  LET r == [l EXCEPT !.rx = @ + 1]
         IN  /\ r = [rx |-> l.rx + 1, good |-> l.good, bad |-> l.bad, lost |-> l.lost] /\ r \in LocalType
             /\ [r EXCEPT !.good = @ + 1] =
                  [rx |-> l.rx + 1, good |-> l.good + 1, bad |-> l.bad, lost |-> l.lost]
             /\ [l EXCEPT !.rx = @ + 1, !.good = @ + 1] =
                  [rx |-> l.rx + 1, good |-> l.good + 1, bad |-> l.bad, lost |-> l.lost]
             /\ [l EXCEPT !.rx = @ + 1, !.bad = @ + 1] =
                  [rx |-> l.rx + 1, good |-> l.good, bad |-> l.bad + 1, lost |-> l.lost]
  <1> DEFINE r == [l EXCEPT !.rx = @ + 1]
  <1>1. r = [rx |-> l.rx + 1, good |-> l.good, bad |-> l.bad, lost |-> l.lost]
    BY LocalOne, Zenon
  <1>2. r \in LocalType
    <2>1. l.rx \in Nat /\ l.good \in Nat /\ l.bad \in Nat /\ l.lost \in Nat
      BY LocalHas, Zenon
    <2>2. l.rx + 1 \in Nat
      BY <2>1
    <2>3. [rx |-> l.rx + 1, good |-> l.good, bad |-> l.bad, lost |-> l.lost] \in LocalType
      BY <2>1, <2>2 DEF LocalType
    <2> QED
      BY <1>1, <2>3, Zenon
  <1>3. r.rx = l.rx + 1 /\ r.good = l.good /\ r.bad = l.bad /\ r.lost = l.lost
    BY <1>1, Zenon
  <1>4. /\ [r EXCEPT !.good = @ + 1] = [rx |-> r.rx, good |-> r.good + 1, bad |-> r.bad, lost |-> r.lost]
        /\ [r EXCEPT !.bad = @ + 1] = [rx |-> r.rx, good |-> r.good, bad |-> r.bad + 1, lost |-> r.lost]
    BY <1>2, LocalOne, Zenon
  <1>5. /\ [l EXCEPT !.rx = @ + 1, !.good = @ + 1] = [r EXCEPT !.good = l.good + 1]
        /\ [l EXCEPT !.rx = @ + 1, !.bad = @ + 1] = [r EXCEPT !.bad = l.bad + 1]
    OBVIOUS
  <1>6. /\ [r EXCEPT !.good = l.good + 1] = [r EXCEPT !.good = @ + 1]
        /\ [r EXCEPT !.bad = l.bad + 1] = [r EXCEPT !.bad = @ + 1]
    BY <1>3, Zenon
  <1> QED
    BY <1>1, <1>2, <1>3, <1>4, <1>5, <1>6, Zenon
LEMMA CountedIs ==
  ASSUME NEW l \in LocalType, NEW good \in BOOLEAN
  PROVE  LET c == IF good THEN [l EXCEPT !.rx = @ + 1, !.good = @ + 1]
                          ELSE [l EXCEPT !.rx = @ + 1, !.bad = @ + 1]
         IN  c.lost = l.lost /\ c.good + c.bad = l.good + l.bad + 1 /\ c.rx = l.rx + 1
  <1> DEFINE x == [l EXCEPT !.rx = @ + 1, !.good = @ + 1]
             y == [l EXCEPT !.rx = @ + 1, !.bad = @ + 1]
  <1>1. /\ x = [rx |-> l.rx + 1, good |-> l.good + 1, bad |-> l.bad, lost |-> l.lost]
        /\ y = [rx |-> l.rx + 1, good |-> l.good, bad |-> l.bad + 1, lost |-> l.lost]
    BY LocalTwo
  <1> HIDE DEF x, y
  <1>2. x.lost = l.lost /\ x.good = l.good + 1 /\ x.bad = l.bad /\ x.rx = l.rx + 1
    BY <1>1
  <1>3. y.lost = l.lost /\ y.good = l.good /\ y.bad = l.bad + 1 /\ y.rx = l.rx + 1
    BY <1>1
  <1>4. x.good + x.bad = l.good + l.bad + 1 /\ y.good + y.bad = l.good + l.bad + 1
    BY <1>2, <1>3, LocalHas
  <1>5. (IF good THEN x ELSE y) = x \/ (IF good THEN x ELSE y) = y
    BY Zenon
  <1>6. /\ (IF good THEN x ELSE y).lost = l.lost /\ (IF good THEN x ELSE y).rx = l.rx + 1
        /\ (IF good THEN x ELSE y).good + (IF good THEN x ELSE y).bad = l.good + l.bad + 1
    BY <1>2, <1>3, <1>4, <1>5, Zenon
  <1> QED
    BY <1>6, Zenon DEF x, y

LEMMA SpentMore ==
  ASSUME NEW s \in [lost : Nat, other : Nat]
  PROVE  [s EXCEPT !.other = @ + 1] \in [lost : Nat, other : Nat] /\ [s EXCEPT !.lost = @ + 1] \in [lost : Nat, other : Nat]
  OBVIOUS

(* What a packet that is taken from the queue changes. *)
LEMMA RxTrackIs ==
  ASSUME TrafficTypes, NEW n \in Nets, RxTrack(n)
  PROVE  LET p == Head(wire[n])  t == trk[n][p.vl]  r == real[n]
             s == IF t.init THEN NextExpected(p, t.expected) ELSE p.seq + 1
         IN  /\ rx[n].at = "poll" /\ wire[n] # <<>> /\ wire[n] \in Seq(Packets) /\ p \in Packets
             /\ t \in TrackerType /\ s \in Nat /\ r \in WitnessType
             /\ trk' = [trk EXCEPT ![n] = [trk[n] EXCEPT ![p.vl] =
                          [init |-> TRUE, expected |-> s, max |-> t.max, count |-> t.count]]]
             /\ local' = [local EXCEPT ![n] = [local[n] EXCEPT !.lost =
                            @ + IF t.init THEN Gap(p, t.expected) ELSE 0]]
             /\ Gap(p, t.expected) \in Nat
             /\ rx' = [rx EXCEPT ![n] = [at |-> "count", pkt |-> p]]
             /\ wire' = [wire EXCEPT ![n] = Tail(wire[n])] /\ Tail(wire[n]) \in Seq(Packets)
             /\ real' = [real EXCEPT ![n] =
                  IF p.vl \in r.seen THEN [r EXCEPT !.inner = @ + p.gap]
                  ELSE [r EXCEPT !.lead = @ + p.gap, !.seen = @ \cup {p.vl}]]
             /\ UNCHANGED <<setting, missed, stats, phase, stop, quiet, spent, seq, offset, tx, foreign, compared>>
  <1> DEFINE p == Head(wire[n])
             t == trk[n][p.vl]
             r == real[n]
             s == IF t.init THEN NextExpected(p, t.expected) ELSE p.seq + 1
  <1>1. /\ rx[n].at = "poll" /\ wire[n] # <<>> /\ wire[n] \in Seq(Packets)
    <2>1. rx[n].at = "poll" /\ wire[n] # <<>>
      BY Zenon DEF RxTrack
    <2>2. wire[n] \in Seq(Packets)
      BY TypesOf
    <2> QED
      BY <2>1, <2>2
  <1>2. p \in Packets /\ Tail(wire[n]) \in Seq(Packets)
    BY <1>1, HeadTailProperties
  <1>3. t \in TrackerType /\ r \in WitnessType /\ p.vl \in VLs
    BY <1>2, TypesOf, PacketIs
  <1>4. s \in Nat /\ Gap(p, t.expected) \in Nat
    BY <1>2, <1>3 DEF NextExpected, Gap, Packets, TrackerType
  <1>5. /\ trk' = [trk EXCEPT ![n][p.vl].init = TRUE,
                   ![n][p.vl].expected = IF t.init THEN NextExpected(p, @) ELSE p.seq + 1]
        /\ local' = [local EXCEPT ![n].lost = @ + IF t.init THEN Gap(p, t.expected) ELSE 0]
        /\ rx' = [rx EXCEPT ![n] = [at |-> "count", pkt |-> p]]
        /\ wire' = [wire EXCEPT ![n] = Tail(@)]
        /\ Witness(n, p)
        /\ UNCHANGED <<setting, missed, stats, mainVars, spent, foreign, compared>>
        /\ UNCHANGED txVars
    BY Zenon DEF RxTrack
  <1>6. trk' = [trk EXCEPT ![n] = [trk[n] EXCEPT ![p.vl] =
                  [init |-> TRUE, expected |-> s, max |-> t.max, count |-> t.count]]]
    <2> DEFINE q == [t EXCEPT !.init = TRUE]
               u == [trk EXCEPT ![n] = [trk[n] EXCEPT ![p.vl] = q]]
    <2>1. u \in [Nets -> [VLs -> TrackerType]] /\ u[n][p.vl] = q
      <3>1. trk \in [Nets -> [VLs -> TrackerType]] /\ q \in TrackerType
        BY <1>3, TrackerTaken DEF TrafficTypes
      <3> HIDE DEF q, p
      <3> QED
        BY <1>3, <3>1
    <2>2. trk' = [u EXCEPT ![n] = [u[n] EXCEPT ![p.vl] =
                    [u[n][p.vl] EXCEPT !.expected = IF t.init THEN NextExpected(p, @) ELSE p.seq + 1]]]
      BY <1>5, Zenon
    <2>3. q.expected = t.expected
      BY <1>3, TrackerTaken
    <2>4. [q EXCEPT !.expected = IF t.init THEN NextExpected(p, @) ELSE p.seq + 1] = [q EXCEPT !.expected = s]
      BY <2>3, Zenon
    <2>5. [q EXCEPT !.expected = s] =
            [init |-> TRUE, expected |-> s, max |-> t.max, count |-> t.count]
      <3> HIDE DEF s, t
      <3> QED
        BY <1>3, TrackerTaken
    <2>6. trk' = [u EXCEPT ![n] = [u[n] EXCEPT ![p.vl] =
                    [init |-> TRUE, expected |-> s, max |-> t.max, count |-> t.count]]]
      BY <2>1, <2>2, <2>4, <2>5, Zenon
    <2>7. \A x : [u EXCEPT ![n] = [u[n] EXCEPT ![p.vl] = x]] = [trk EXCEPT ![n] = [trk[n] EXCEPT ![p.vl] = x]]
      <3>1. trk \in [Nets -> [VLs -> TrackerType]]
        BY DEF TrafficTypes
      <3> HIDE DEF q, p
      <3> QED
        BY <1>3, <3>1
    <2> QED
      BY <2>6, <2>7, Zenon
  <1>7. real' = [real EXCEPT ![n] =
                  IF p.vl \in r.seen THEN [r EXCEPT !.inner = @ + p.gap]
                  ELSE [r EXCEPT !.lead = @ + p.gap, !.seen = @ \cup {p.vl}]]
    <2>1. CASE p.vl \in r.seen
      BY <1>5, <2>1 DEF Witness
    <2>2. CASE p.vl \notin r.seen
      <3>1. real' = [real EXCEPT ![n].lead = @ + p.gap, ![n].seen = @ \cup {p.vl}]
        BY <1>5, <2>2 DEF Witness
      <3> QED
        BY <2>2, <3>1 DEF TrafficTypes, WitnessType
    <2> QED
      BY <2>1, <2>2
  <1> HIDE DEF p, t, r, s
  <1>8. UNCHANGED <<setting, missed, stats, phase, stop, quiet, spent, seq, offset, tx, foreign, compared>>
    BY <1>5 DEF mainVars, txVars
  <1> QED
    BY <1>1, <1>2, <1>3, <1>4, <1>5, <1>6, <1>7, <1>8 DEF p, t, r, s

(* The local counters are handed over, or not: nothing gets lost. *)
LEMMA FlushIs ==
  ASSUME TrafficTypes, NEW n \in Nets, NEW c \in LocalType, FlushIfDue(n, c)
  PROVE  \E l \in LocalType, s \in StatsType :
           /\ local' = [local EXCEPT ![n] = l] /\ stats' = [stats EXCEPT ![n] = s]
           /\ s.lost + l.lost = stats[n].lost + c.lost
           /\ s.good + l.good = stats[n].good + c.good /\ s.bad + l.bad = stats[n].bad + c.bad
           /\ unit = "cmc" => s.total + l.good + l.bad = stats[n].total + c.good + c.bad
           /\ l.rx < Flush /\ (c.good + c.bad <= c.rx => l.good + l.bad <= l.rx)
           /\ (l.good = c.good /\ l.bad = c.bad) \/ l = Zero
  <1>1. stats[n] \in StatsType /\ local[n] \in LocalType /\ Zero \in LocalType /\ Flush \in Nat \ {0}
    BY SettingIs DEF TrafficTypes, Zero, LocalType
  <1>2. CASE ~(c.rx >= Flush)
    <2>1. local' = [local EXCEPT ![n] = c] /\ stats' = stats
      BY <1>2 DEF FlushIfDue
    <2>2. stats' = [stats EXCEPT ![n] = stats[n]]
      BY <2>1 DEF TrafficTypes
    <2>3. c.rx < Flush
      BY <1>1, <1>2 DEF LocalType
    <2> QED
      BY <1>1, <2>1, <2>2, <2>3
  <1>3. CASE c.rx >= Flush
    <2> DEFINE total == IF unit = "cmc" THEN stats[n].total + c.good + c.bad ELSE stats[n].total + c.rx
               s == [total |-> total, good |-> stats[n].good + c.good,
                     bad |-> stats[n].bad + c.bad, lost |-> stats[n].lost + c.lost]
    <2>1. local' = [local EXCEPT ![n] = Zero] /\ stats' = [stats EXCEPT ![n] = s]
      BY <1>3 DEF FlushIfDue, FlushAll, FlushCmc, FlushDtnVmc
    <2>2. s \in StatsType
      BY <1>1 DEF StatsType, LocalType
    <2>3. /\ s.lost + Zero.lost = stats[n].lost + c.lost
          /\ s.good + Zero.good = stats[n].good + c.good /\ s.bad + Zero.bad = stats[n].bad + c.bad
          /\ unit = "cmc" => s.total + Zero.good + Zero.bad = stats[n].total + c.good + c.bad
          /\ Zero.rx < Flush /\ Zero.good + Zero.bad <= Zero.rx
      BY <1>1 DEF StatsType, LocalType, Zero
    <2> HIDE DEF s
    <2> QED
      BY <1>1, <2>1, <2>2, <2>3
  <1> QED
    BY <1>2, <1>3

LEMMA RxCountIs ==
  ASSUME TrafficTypes, NEW n \in Nets, NEW good \in BOOLEAN, RxCount(n, good)
  PROVE  LET p == rx[n].pkt  t == trk[n][p.vl]
             c == IF good THEN [local[n] EXCEPT !.rx = @ + 1, !.good = @ + 1]
                          ELSE [local[n] EXCEPT !.rx = @ + 1, !.bad = @ + 1]
         IN  /\ rx[n].at = "count" /\ p \in Packets /\ t \in TrackerType /\ c \in LocalType
             /\ FlushIfDue(n, c) /\ rx' = [rx EXCEPT ![n] = Poll] /\ Poll \in [at : {"poll"}, pkt : Packets]
             /\ trk' = [trk EXCEPT ![n] = [trk[n] EXCEPT ![p.vl] =
                          [init |-> t.init, expected |-> t.expected,
                           max |-> IF p.seq > t.max THEN p.seq ELSE t.max, count |-> t.count + 1]]]
             /\ spent' \in [lost : Nat, other : Nat]
             /\ compared' = [compared EXCEPT ![n] = @ + 1]
             /\ UNCHANGED <<setting, wire, missed, real, phase, stop, quiet, seq, offset, tx, foreign>>
  <1> DEFINE p == rx[n].pkt
             t == trk[n][p.vl]
             c == IF good THEN [local[n] EXCEPT !.rx = @ + 1, !.good = @ + 1]
                          ELSE [local[n] EXCEPT !.rx = @ + 1, !.bad = @ + 1]
             e == IF p.seq > t.max THEN p.seq ELSE t.max
  <1>1. /\ rx[n].at = "count" /\ FlushIfDue(n, c) /\ rx' = [rx EXCEPT ![n] = Poll]
        /\ spent' = IF good THEN spent ELSE [spent EXCEPT !.other = @ + 1]
        /\ trk' = [trk EXCEPT ![n][p.vl].max = IF p.seq > @ THEN p.seq ELSE @,
                              ![n][p.vl].count = @ + 1]
        /\ compared' = [compared EXCEPT ![n] = @ + 1]
        /\ UNCHANGED <<setting, wire, missed, mainVars, real, foreign>> /\ UNCHANGED txVars
    BY Zenon DEF RxCount
  <1>2. p \in Packets /\ p.vl \in VLs
    BY TypesOf, PacketIs
  <1>3. t \in TrackerType /\ local[n] \in LocalType
    BY <1>2, TypesOf
  <1> DEFINE l == local[n]
             good1 == [rx |-> l.rx + 1, good |-> l.good + 1, bad |-> l.bad, lost |-> l.lost]
             bad1 == [rx |-> l.rx + 1, good |-> l.good, bad |-> l.bad + 1, lost |-> l.lost]
  <1>4. c \in LocalType
    <2>1. good1 \in LocalType /\ bad1 \in LocalType
      BY <1>3, LocalMore, Zenon
    <2>2. c = good1 \/ c = bad1
      BY <1>3, LocalTwo, Zenon
    <2> QED
      BY <2>1, <2>2, Zenon
  <1>5. Poll \in [at : {"poll"}, pkt : Packets]
    <2>1. 0 \in VLs
      BY TypesOf
    <2>2. NoPacket \in Packets
      BY <2>1 DEF NoPacket, Packets
    <2> QED
      BY <2>2 DEF Poll
  <1>6. spent' \in [lost : Nat, other : Nat]
    BY <1>1, TypesOf, SpentMore, Zenon
  <1>7. trk' = [trk EXCEPT ![n] = [trk[n] EXCEPT ![p.vl] =
                  [init |-> t.init, expected |-> t.expected, max |-> e, count |-> t.count + 1]]]
    <2> DEFINE q == [t EXCEPT !.max = e]
               u == [trk EXCEPT ![n] = [trk[n] EXCEPT ![p.vl] = q]]
    <2>8. e \in Nat
      BY <1>2, <1>3, PacketIs DEF TrackerType
    <2>1. u \in [Nets -> [VLs -> TrackerType]] /\ u[n][p.vl] = q
      <3>1. trk \in [Nets -> [VLs -> TrackerType]] /\ q \in TrackerType
        BY <1>3, <2>8, TrackerCounted DEF TrafficTypes
      <3> HIDE DEF q, p
      <3> QED
        BY <1>2, <3>1
    <2>2. trk' = [u EXCEPT ![n] = [u[n] EXCEPT ![p.vl] = [u[n][p.vl] EXCEPT !.count = @ + 1]]]
      BY <1>1, Zenon
    <2>5. [q EXCEPT !.count = @ + 1] =
            [init |-> t.init, expected |-> t.expected, max |-> e, count |-> t.count + 1]
      <3> HIDE DEF e, t
      <3> QED
        BY <1>3, <2>8, TrackerCounted
    <2>6. trk' = [u EXCEPT ![n] = [u[n] EXCEPT ![p.vl] =
                    [init |-> t.init, expected |-> t.expected, max |-> e, count |-> t.count + 1]]]
      BY <2>1, <2>2, <2>5, Zenon
    <2>7. \A x : [u EXCEPT ![n] = [u[n] EXCEPT ![p.vl] = x]] = [trk EXCEPT ![n] = [trk[n] EXCEPT ![p.vl] = x]]
      <3>1. trk \in [Nets -> [VLs -> TrackerType]]
        BY DEF TrafficTypes
      <3> HIDE DEF q, p
      <3> QED
        BY <1>2, <3>1
    <2> QED
      BY <2>6, <2>7, Zenon
  <1> HIDE DEF p, t, c
  <1>8. UNCHANGED <<setting, wire, missed, real, phase, stop, quiet, seq, offset, tx, foreign>>
    BY <1>1 DEF mainVars, txVars
  <1> QED
    BY <1>1, <1>2, <1>3, <1>4, <1>5, <1>6, <1>7, <1>8 DEF p, t, c

(* Packets that are no test traffic: only counted, or compared and looked at *)
(* for gaps as well, which the CMC does with none of them.                   *)
OtherStep(n) == RxOther(n) \/ \E good \in BOOLEAN, gap \in 0 .. setting.seq : RxForeign(n, good, gap)

LEMMA OtherIs ==
  ASSUME TrafficTypes, NEW n \in Nets, OtherStep(n)
  PROVE  \E c \in LocalType, gap \in Nat, one \in {0, 1} :
           /\ FlushIfDue(n, c) /\ c.lost = local[n].lost + gap /\ c.rx = local[n].rx + 1
           /\ c.good + c.bad = local[n].good + local[n].bad + one
           /\ unit = "cmc" => c.good = local[n].good /\ c.bad = local[n].bad
           /\ rx[n].at = "poll" /\ spent' \in [lost : Nat, other : Nat]
           /\ foreign' = [foreign EXCEPT ![n] = @ + gap] /\ compared' = [compared EXCEPT ![n] = @ + one]
           /\ UNCHANGED <<setting, wire, missed, rx, trk, real, phase, stop, quiet, seq, offset, tx>>
  <1> DEFINE l == local[n]
  <1>1. l \in LocalType
    BY TypesOf
  <1>2. l.rx \in Nat /\ l.good \in Nat /\ l.bad \in Nat /\ l.lost \in Nat
    BY <1>1, LocalHas
  <1>3. CASE RxOther(n)
    <2> DEFINE c == [rx |-> l.rx + 1, good |-> l.good, bad |-> l.bad, lost |-> l.lost]
    <2>1. /\ FlushIfDue(n, [l EXCEPT !.rx = @ + 1]) /\ rx[n].at = "poll"
          /\ spent' = [spent EXCEPT !.other = @ + 1]
          /\ UNCHANGED <<setting, wire, missed, rx, trk, mainVars, real, foreign, compared>>
          /\ UNCHANGED txVars
      BY <1>3, Zenon DEF RxOther
    <2>2. [l EXCEPT !.rx = @ + 1] = c
      BY <1>1, LocalTwo, Zenon
    <2>3. c \in LocalType
      BY <1>1, LocalMore, Zenon
    <2>4. c.lost = l.lost + 0 /\ c.rx = l.rx + 1 /\ c.good = l.good /\ c.bad = l.bad
      BY <1>2
    <2>5. c.good + c.bad = l.good + l.bad + 0
      BY <1>2
    <2>6. FlushIfDue(n, c)
      BY <2>1, <2>2, Zenon
    <2>7. spent' \in [lost : Nat, other : Nat]
      BY <2>1, TypesOf, SpentMore, Zenon
    <2> HIDE DEF c, l
    <2>8. foreign' = [foreign EXCEPT ![n] = @ + 0] /\ compared' = [compared EXCEPT ![n] = @ + 0]
      <3>1. foreign \in [Nets -> Nat] /\ compared \in [Nets -> Nat]
        BY DEF TrafficTypes
      <3>2. foreign[n] + 0 = foreign[n] /\ compared[n] + 0 = compared[n]
        BY <3>1
      <3> QED
        BY <2>1, <3>1, <3>2
    <2>9. UNCHANGED <<setting, wire, missed, rx, trk, real, phase, stop, quiet, seq, offset, tx>>
      BY <2>1 DEF mainVars, txVars
    <2>10. 0 \in Nat /\ 0 \in {0, 1}
      OBVIOUS
    <2> QED
      BY <2>1, <2>3, <2>4, <2>5, <2>6, <2>7, <2>8, <2>9, <2>10, Zenon DEF l
  <1>4. ASSUME NEW good \in BOOLEAN, NEW gap \in 0 .. setting.seq, RxForeign(n, good, gap)
        PROVE  \E c \in LocalType, g \in Nat, one \in {0, 1} :
           /\ FlushIfDue(n, c) /\ c.lost = l.lost + g /\ c.rx = l.rx + 1
           /\ c.good + c.bad = l.good + l.bad + one
           /\ unit = "cmc" => c.good = l.good /\ c.bad = l.bad
           /\ rx[n].at = "poll" /\ spent' \in [lost : Nat, other : Nat]
           /\ foreign' = [foreign EXCEPT ![n] = @ + g] /\ compared' = [compared EXCEPT ![n] = @ + one]
           /\ UNCHANGED <<setting, wire, missed, rx, trk, real, phase, stop, quiet, seq, offset, tx>>
    <2> DEFINE more == IF good THEN 1 ELSE 0
               worse == IF good THEN 0 ELSE 1
               c == [rx |-> l.rx + 1, good |-> l.good + more, bad |-> l.bad + worse, lost |-> l.lost + gap]
    <2>1. /\ FlushIfDue(n, c) /\ rx[n].at = "poll" /\ unit = "dtn"
          /\ spent' = [spent EXCEPT !.other = @ + 1]
          /\ foreign' = [foreign EXCEPT ![n] = @ + gap] /\ compared' = [compared EXCEPT ![n] = @ + 1]
          /\ UNCHANGED <<setting, wire, missed, rx, trk, mainVars, real>> /\ UNCHANGED txVars
      BY <1>4, Zenon DEF RxForeign
    <2>2. gap \in Nat
      <3>1. setting.seq \in Nat
        BY SettingIs DEF TrafficTypes
      <3> QED
        BY <3>1
    <2>3. more \in Nat /\ worse \in Nat /\ more + worse = 1
      OBVIOUS
    <2> HIDE DEF more, worse
    <2>4. l.rx + 1 \in Nat /\ l.good + more \in Nat /\ l.bad + worse \in Nat /\ l.lost + gap \in Nat
      BY <1>2, <2>2, <2>3
    <2>5. c \in LocalType
      BY <2>4, LocalHas, Zenon
    <2>6. c.lost = l.lost + gap /\ c.rx = l.rx + 1 /\ c.good = l.good + more /\ c.bad = l.bad + worse
      BY Zenon
    <2>7. (l.good + more) + (l.bad + worse) = l.good + l.bad + 1
      BY <1>2, <2>3
    <2>8. spent' \in [lost : Nat, other : Nat]
      BY <2>1, TypesOf, SpentMore, Zenon
    <2> HIDE DEF c, l
    <2>9. UNCHANGED <<setting, wire, missed, rx, trk, real, phase, stop, quiet, seq, offset, tx>>
      BY <2>1 DEF mainVars, txVars
    <2>10. c.good + c.bad = l.good + l.bad + 1 /\ unit # "cmc" /\ 1 \in {0, 1}
      BY <2>1, <2>6, <2>7
    <2> QED
      BY <2>1, <2>2, <2>5, <2>6, <2>8, <2>9, <2>10, Zenon
  <1> QED
    BY <1>3, <1>4 DEF OtherStep

LEMMA TypesNow ==
  ASSUME TrafficTypes, setting' = setting, offset' \in VLs, seq' \in [VLs -> Nat],
         tx' \in [at : {"loop", "commit", "store", "done"}, seq : Nat],
         wire' \in [Nets -> Seq(Packets)], missed' \in [Nets -> [VLs -> Nat]], rx' \in [Nets -> RxType],
         trk' \in [Nets -> [VLs -> TrackerType]], local' \in [Nets -> LocalType],
         stats' \in [Nets -> StatsType], phase' \in PhaseType, stop' \in BOOLEAN, quiet' \in BOOLEAN,
         spent' \in [lost : Nat, other : Nat], real' \in [Nets -> WitnessType],
         foreign' \in [Nets -> Nat], compared' \in [Nets -> Nat]
  PROVE  TrafficTypes'
  <1>1. /\ VLs' = VLs /\ Nets' = Nets /\ Packets' = Packets /\ WitnessType' = WitnessType
        /\ PhaseType' = PhaseType
    BY SettingStays, Zenon
  <1>2. setting \in Settings
    BY DEF TrafficTypes
  <1> QED
    BY <1>1, <1>2, Zenon DEF TrafficTypes, RxType

(* One step of the TX worker. *)
LEMMA PacketType == ASSUME TrafficTypes, NEW n \in Nets PROVE Packet(n, offset) \in Packets
  BY TypesOf DEF Packet, Packets

LEMMA TypesOfAll ==
  ASSUME TrafficTypes
  PROVE  /\ offset \in VLs /\ seq \in [VLs -> Nat]
         /\ tx \in [at : {"loop", "commit", "store", "done"}, seq : Nat]
         /\ wire \in [Nets -> Seq(Packets)] /\ missed \in [Nets -> [VLs -> Nat]]
         /\ rx \in [Nets -> RxType] /\ trk \in [Nets -> [VLs -> TrackerType]]
         /\ local \in [Nets -> LocalType] /\ stats \in [Nets -> StatsType]
         /\ phase \in PhaseType /\ stop \in BOOLEAN /\ quiet \in BOOLEAN
         /\ spent \in [lost : Nat, other : Nat] /\ real \in [Nets -> WitnessType]
         /\ foreign \in [Nets -> Nat] /\ compared \in [Nets -> Nat]
  BY Zenon DEF TrafficTypes, RxType

LEMMA OffsetType == TrafficTypes => NextOffset \in VLs /\ offset \in VLs /\ setting \in Settings
  BY SettingIs DEF TrafficTypes

LEMMA SendTypes ==
  ASSUME TrafficTypes
  PROVE  /\ [n \in Nets |-> Append(wire[n], Packet(n, offset))] \in [Nets -> Seq(Packets)]
         /\ [n \in Nets |-> [missed[n] EXCEPT ![offset] = 0]] \in [Nets -> [VLs -> Nat]]
  <1>1. ASSUME NEW n \in Nets PROVE Append(wire[n], Packet(n, offset)) \in Seq(Packets)
    BY PacketType, TypesOf, AppendProperties
  <1>2. ASSUME NEW n \in Nets PROVE [missed[n] EXCEPT ![offset] = 0] \in [VLs -> Nat]
    <2>1. missed[n] \in [VLs -> Nat]
      BY TypesOfAll
    <2> QED
      BY <2>1
  <1> QED
    BY <1>1, <1>2

(* A packet that only goes out on network A. *)
LEMMA TwinIs ==
  ASSUME TrafficTypes, TxTwinFull
  PROVE  /\ Nets = {"A", "B"}
         /\ wire' = [wire EXCEPT !["A"] = Append(wire["A"], Packet("A", offset))]
         /\ missed' = [missed EXCEPT !["A"] = [missed["A"] EXCEPT ![offset] = 0],
                                     !["B"] = [missed["B"] EXCEPT ![offset] = @ + 1]]
  <1> DEFINE u == [missed EXCEPT !["A"] = [missed["A"] EXCEPT ![offset] = 0]]
  <1>1. Nets = {"A", "B"} /\ wire' = [wire EXCEPT !["A"] = Append(wire["A"], Packet("A", offset))]
    BY Zenon DEF TxTwinFull, OnlyOnA, Nets
  <1>2. missed' = [u EXCEPT !["B"] = [u["B"] EXCEPT ![offset] = @ + 1]]
    BY Zenon DEF TxTwinFull, OnlyOnA
  <1>3. u["B"] = missed["B"]
    BY <1>1, TypesOfAll
  <1>4. missed' = [u EXCEPT !["B"] = [missed["B"] EXCEPT ![offset] = @ + 1]]
    BY <1>2, <1>3, Zenon
  <1> QED
    BY <1>1, <1>4

LEMMA TxTypes == ASSUME TrafficTypes, TxStep PROVE TrafficTypes'
  <1>1. ASSUME TxQuit PROVE TrafficTypes'
    <2>1. tx' \in [at : {"loop", "commit", "store", "done"}, seq : Nat]
      BY <1>1, TypesOfAll DEF TxQuit
    <2> QED
      BY <1>1, <2>1, TypesOfAll, TypesNow, Zenon DEF TxQuit, rxVars, mainVars
  <1>2. ASSUME TxSend PROVE TrafficTypes'
    <2>1. tx' \in [at : {"loop", "commit", "store", "done"}, seq : Nat]
      BY <1>2, TypesOfAll DEF TxSend
    <2> QED
      BY <1>2, <2>1, SendTypes, TypesOfAll, TypesNow, Zenon DEF TxSend, rxVars, mainVars
  <1>3. ASSUME TxSendFull PROVE TrafficTypes'
    BY <1>3, OffsetType, SpentMore, TypesOfAll, TypesNow, Zenon DEF TxSendFull, rxVars, mainVars
  <1>4. ASSUME TxTwinFull PROVE TrafficTypes'
    <2>1. tx' \in [at : {"loop", "commit", "store", "done"}, seq : Nat]
      BY <1>4, TypesOfAll DEF TxTwinFull
    <2>2. "A" \in Nets /\ "B" \in Nets
      BY <1>4 DEF TxTwinFull, OnlyOnA, Nets
    <2>3. wire' \in [Nets -> Seq(Packets)]
      <3>1. Append(wire["A"], Packet("A", offset)) \in Seq(Packets)
        BY <2>2, PacketType, TypesOf, AppendProperties
      <3>2. wire' = [wire EXCEPT !["A"] = Append(wire["A"], Packet("A", offset))]
        BY <1>4, Zenon DEF TxTwinFull, OnlyOnA
      <3> QED
        BY <3>1, <3>2, TypesOfAll
    <2>4. missed' \in [Nets -> [VLs -> Nat]]
      <3>1. missed' = [missed EXCEPT !["A"] = [missed["A"] EXCEPT ![offset] = 0],
                                     !["B"] = [missed["B"] EXCEPT ![offset] = @ + 1]]
        BY <1>4, TwinIs
      <3>2. /\ missed["A"] \in [VLs -> Nat] /\ missed["B"] \in [VLs -> Nat] /\ offset \in VLs
            /\ missed \in [Nets -> [VLs -> Nat]]
        BY <2>2, TypesOfAll
      <3>3. [missed["A"] EXCEPT ![offset] = 0] \in [VLs -> Nat] /\ [missed["B"] EXCEPT ![offset] = @ + 1] \in [VLs -> Nat]
        BY <3>2
      <3> QED
        BY <2>2, <3>1, <3>2, <3>3
    <2>5. spent' \in [lost : Nat, other : Nat]
      BY <1>4, SpentMore, TypesOfAll, Zenon DEF TxTwinFull, OnlyOnA
    <2> QED
      BY <1>4, <2>1, <2>3, <2>4, <2>5, TypesOfAll, TypesNow, Zenon DEF TxTwinFull, OnlyOnA, rxVars, mainVars
  <1>5. ASSUME TxCommitLoad PROVE TrafficTypes'
    <2>1. tx' \in [at : {"loop", "commit", "store", "done"}, seq : Nat]
      BY <1>5, TypesOfAll DEF TxCommitLoad
    <2> QED
      BY <1>5, <2>1, TypesOfAll, TypesNow, Zenon DEF TxCommitLoad, rxVars, mainVars
  <1>6. ASSUME TxCommitStore PROVE TrafficTypes'
    <2>1. tx' \in [at : {"loop", "commit", "store", "done"}, seq : Nat] /\ seq' \in [VLs -> Nat]
      BY <1>6, TypesOfAll DEF TxCommitStore
    <2> QED
      BY <1>6, <2>1, OffsetType, TypesOfAll, TypesNow, Zenon DEF TxCommitStore, rxVars, mainVars
  <1> QED
    BY <1>1, <1>2, <1>3, <1>4, <1>5, <1>6 DEF TxStep

(* A loss: the packet is gone, and the next one of its VL, if there is one,  *)
(* carries its number.                                                       *)
LEMMA LoseIs ==
  ASSUME TrafficTypes, NEW n \in Nets, Lose(n)
  PROVE  LET p == Head(wire[n])  rest == Tail(wire[n])
         IN  /\ wire[n] # <<>> /\ p \in Packets /\ rest \in Seq(Packets)
             /\ spent' \in [lost : Nat, other : Nat]
             /\ UNCHANGED <<setting, trk, phase, stop, quiet, seq, offset, tx, rx, local, stats, real,
                         foreign, compared>>
             /\ \/ /\ \A i \in DOMAIN rest : rest[i].vl # p.vl
                   /\ wire' = [wire EXCEPT ![n] = rest]
                   /\ missed' = [missed EXCEPT ![n] = [missed[n] EXCEPT ![p.vl] = @ + p.gap + 1]]
                \/ \E j \in 1..Len(rest) :
                     /\ rest[j].vl = p.vl /\ \A i \in 1..j - 1 : rest[i].vl # p.vl
                     /\ wire' = [wire EXCEPT ![n] = Carried(rest, j, p.gap + 1)]
                     /\ missed' = missed
  <1> DEFINE p == Head(wire[n])
             rest == Tail(wire[n])
             later == {i \in DOMAIN rest : rest[i].vl = p.vl}
             j == CHOOSE i \in later : \A k \in later : i <= k
  <1>1. /\ wire[n] # <<>> /\ spent' = [spent EXCEPT !.lost = @ + 1]
        /\ IF later = {}
           THEN /\ missed' = [missed EXCEPT ![n][p.vl] = @ + p.gap + 1]
                /\ wire' = [wire EXCEPT ![n] = rest]
           ELSE /\ wire' = [wire EXCEPT ![n] = [rest EXCEPT ![j].gap = @ + p.gap + 1]]
                /\ UNCHANGED missed
        /\ UNCHANGED <<setting, trk, mainVars>> /\ UNCHANGED txVars /\ UNCHANGED rxVars
    BY Zenon DEF Lose
  <1>2. p \in Packets /\ rest \in Seq(Packets) /\ p.gap \in Nat /\ p.vl \in VLs
    <2>1. p \in Packets /\ rest \in Seq(Packets)
      BY <1>1, TypesOf, HeadTailProperties
    <2> QED
      BY <2>1, PacketIs
  <1>3. spent' \in [lost : Nat, other : Nat]
    BY <1>1, TypesOfAll, SpentMore, Zenon
  <1>4. UNCHANGED <<setting, trk, phase, stop, quiet, seq, offset, tx, rx, local, stats, real,
                         foreign, compared>>
    BY <1>1 DEF mainVars, txVars, rxVars
  <1>5. CASE later = {}
    BY <1>1, <1>2, <1>3, <1>4, <1>5
  <1>6. CASE later # {}
    <2>1. later \subseteq Nat /\ DOMAIN rest = 1..Len(rest) /\ Len(rest) \in Nat
      BY <1>2, LenProperties
    <2>2. \E i \in later : \A k \in later : i <= k
      <3>1. PICK m \in later : m = 0 \/ m - 1 \in Nat \ later
        <4> HIDE DEF later
        <4> QED
          BY <1>6, <2>1, LeastOf
      <3>2. \E i \in later : \A k \in later : ~(<<k, i>> \in Smaller)
        <4> HIDE DEF later
        <4>1. IsWellFoundedOn(Smaller, Nat)
          BY NatLessThanWellFounded DEF OpToRel, Smaller
        <4> QED
          BY <1>6, <2>1, <4>1, WFMin, Zenon
      <3>3. ASSUME NEW i \in later, NEW k \in later, ~(<<k, i>> \in Smaller) PROVE i <= k
        <4> HIDE DEF later
        <4> QED
          BY <2>1, <3>3 DEF Smaller
      <3> HIDE DEF later
      <3> QED
        BY <3>2, <3>3
    <2>3. j \in later /\ \A k \in later : j <= k
      <3> HIDE DEF later
      <3> QED
        BY <2>2
    <2>4. j \in 1..Len(rest) /\ rest[j].vl = p.vl
      BY <2>1, <2>3
    <2> HIDE DEF j
    <2>5. ASSUME NEW i \in 1..j - 1 PROVE rest[i].vl # p.vl
      <3>1. i \in 1..Len(rest) /\ ~(j <= i)
        BY <2>1, <2>4
      <3> QED
        BY <2>1, <2>3, <3>1
    <2>6. rest[j].gap + p.gap + 1 = rest[j].gap + (p.gap + 1)
      <3> DEFINE g == rest[j].gap
                 h == p.gap
      <3>1. g \in Nat /\ h \in Nat
        <4>1. rest[j] \in Packets
          <5> HIDE DEF rest
          <5> QED
            BY <1>2, <2>4, ElementOfSeq
        <4> QED
          BY <1>2, <4>1, PacketIs
      <3> HIDE DEF g, h
      <3>2. g + h + 1 = g + (h + 1)
        BY <3>1
      <3> QED
        BY <3>2 DEF g, h
    <2>7. wire' = [wire EXCEPT ![n] = Carried(rest, j, p.gap + 1)] /\ missed' = missed
      <3>1. wire' = [wire EXCEPT ![n] = [rest EXCEPT ![j].gap = @ + p.gap + 1]] /\ missed' = missed
        BY <1>1, <1>6, Zenon DEF j
      <3> HIDE DEF rest, p
      <3>2. [rest EXCEPT ![j].gap = @ + p.gap + 1] = [rest EXCEPT ![j].gap = @ + (p.gap + 1)]
        BY <2>6, Zenon
      <3> QED
        BY <3>1, <3>2, Zenon DEF Carried
    <2> QED
      BY <1>1, <1>2, <1>3, <1>4, <2>4, <2>5, <2>7
  <1> QED
    BY <1>5, <1>6

(* What is lost by the watermark is a number. *)
LEMMA WatermarkIs ==
  ASSUME TrafficTypes, NEW n \in Nets
  PROVE  Watermark(n) \in Nat
  <1> DEFINE f == [v \in VLs |-> LostOf(trk[n][v])]
  <1>1. f \in [VLs -> Nat]
    <2>1. ASSUME NEW v \in VLs PROVE LostOf(trk[n][v]) \in Nat
      <3>1. trk[n][v].max \in Nat /\ trk[n][v].count \in Nat
        BY TypesOf, TrackerHas
      <3> QED
        BY <3>1 DEF LostOf
    <2> QED
      BY <2>1
  <1>2. IsFiniteSet(VLs)
    BY SettingIs DEF TrafficTypes
  <1>3. DOMAIN f = VLs
    OBVIOUS
  <1> HIDE DEF f
  <1>4. SumFunctionOnSet(f, VLs) \in Nat
    BY <1>1, <1>2, SumNatural
  <1> QED
    BY <1>3, <1>4 DEF f, Watermark, SumFunction

(* The last flush and the reconciliation. *)
LEMMA RxQuitIs ==
  ASSUME TrafficTypes, NEW n \in Nets, RxQuit(n)
  PROVE  \E s \in StatsType :
           /\ stats' = [stats EXCEPT ![n] = s] /\ local' = [local EXCEPT ![n] = Zero]
           /\ rx[n].at = "poll" /\ rx' = [rx EXCEPT ![n].at = "done"]
           /\ UNCHANGED <<setting, wire, missed, trk, phase, stop, quiet, spent, real, seq, offset, tx,
                         foreign, compared>>
           /\ s.good = stats[n].good + local[n].good /\ s.bad = stats[n].bad + local[n].bad
           /\ unit = "cmc" => /\ s.total = stats[n].total + local[n].good + local[n].bad
                              /\ s.lost = Watermark(n)
  <1> DEFINE c == local[n]
             q == stats[n]
             w == Watermark(n)
             verified == IF unit = "cmc" THEN c.good + c.bad ELSE c.rx
             Final(lost) == [total |-> q.total + verified, good |-> q.good + c.good,
                             bad |-> q.bad + c.bad, lost |-> lost]
  <1>1. /\ \E final \in CASE unit = "dtn" -> {FinalDtn(n, inRange) : inRange \in BOOLEAN}
                           [] unit = "vmc" -> {FinalVmc(n)}
                           [] unit = "cmc" -> {FinalCmc(n)} : stats' = [stats EXCEPT ![n] = final]
        /\ local' = [local EXCEPT ![n] = Zero]
        /\ rx[n].at = "poll" /\ rx' = [rx EXCEPT ![n].at = "done"]
        /\ UNCHANGED <<setting, wire, missed, trk, mainVars, spent, real, foreign, compared>>
        /\ UNCHANGED txVars
    BY Zenon DEF RxQuit
  <1>2. UNCHANGED <<setting, wire, missed, trk, phase, stop, quiet, spent, real, seq, offset, tx,
                         foreign, compared>>
    BY <1>1 DEF mainVars, txVars
  <1>3. /\ c.good \in Nat /\ c.bad \in Nat /\ c.rx \in Nat /\ c.lost \in Nat
        /\ q.total \in Nat /\ q.good \in Nat /\ q.bad \in Nat /\ q.lost \in Nat /\ w \in Nat
    BY TypesOf, LocalHas, WatermarkIs DEF StatsType
  <1>4. FinalTotals(n) = Final(q.lost + c.lost)
    BY Zenon DEF FinalTotals
  <1>5. \A x : [Final(q.lost + c.lost) EXCEPT !.lost = x] = Final(x)
    <2> DEFINE a == q.total + verified
               b == q.good + c.good
               d == q.bad + c.bad
               e == q.lost + c.lost
    <2> SUFFICES \A x : [[total |-> a, good |-> b, bad |-> d, lost |-> e] EXCEPT !.lost = x] =
                          [total |-> a, good |-> b, bad |-> d, lost |-> x]
      OBVIOUS
    <2> HIDE DEF a, b, d, e
    <2> QED
      OBVIOUS
  <1>6. \A x \in Nat : Final(x) \in StatsType
    <2> DEFINE a == q.total + verified
               b == q.good + c.good
               d == q.bad + c.bad
    <2>1. a \in Nat /\ b \in Nat /\ d \in Nat
      BY <1>3
    <2> HIDE DEF a, b, d
    <2>2. \A x \in Nat : [total |-> a, good |-> b, bad |-> d, lost |-> x] \in StatsType
      BY <2>1 DEF StatsType
    <2> QED
      BY <2>2 DEF a, b, d
  <1>7. unit \in {"dtn", "vmc", "cmc"}
    BY SettingIs DEF TrafficTypes
  <1>8. CASE unit = "cmc"
    <2>1. stats' = [stats EXCEPT ![n] = FinalCmc(n)]
      BY <1>1, <1>8
    <2>2. FinalCmc(n) = Final(w)
      BY <1>4, <1>5, Zenon DEF FinalCmc
    <2>3. q.total + verified = q.total + c.good + c.bad
      BY <1>3, <1>8
    <2> HIDE DEF c, q, w, verified
    <2>4. Final(w).total = q.total + c.good + c.bad /\ Final(w).good = q.good + c.good
          /\ Final(w).bad = q.bad + c.bad /\ Final(w).lost = w /\ Final(w) \in StatsType
      BY <1>3, <1>6, <2>3
    <2> HIDE DEF Final
    <2> QED
      BY <1>1, <1>2, <2>1, <2>2, <2>4, Zenon DEF c, q, w
  <1>9. CASE unit # "cmc"
    <2>1. \E x \in Nat : stats' = [stats EXCEPT ![n] = Final(x)]
      <3>1. CASE unit = "dtn"
        <4>1. PICK inRange \in BOOLEAN : stats' = [stats EXCEPT ![n] = FinalDtn(n, inRange)]
          BY <1>1, <3>1
        <4> DEFINE x == IF inRange THEN w ELSE 0
        <4>2. FinalTotals(n).lost = q.lost + c.lost
          BY <1>4
        <4>3. FinalDtn(n, inRange) = Final(q.lost + c.lost + x)
          BY <1>4, <1>5, <4>2, Zenon DEF FinalDtn
        <4>4. q.lost + c.lost + x \in Nat
          <5>1. x = w \/ x = 0
            BY Zenon
          <5> HIDE DEF x
          <5> QED
            BY <1>3, <5>1
        <4> HIDE DEF x, Final
        <4> QED
          BY <4>1, <4>3, <4>4
      <3>2. CASE unit = "vmc"
        <4>1. stats' = [stats EXCEPT ![n] = FinalVmc(n)]
          BY <1>1, <3>2
        <4>2. FinalTotals(n).lost = q.lost + c.lost
          BY <1>4
        <4>3. FinalVmc(n) = Final(q.lost + c.lost + w)
          BY <1>4, <1>5, <4>2, Zenon DEF FinalVmc
        <4>4. q.lost + c.lost + w \in Nat
          BY <1>3
        <4> HIDE DEF Final
        <4> QED
          BY <4>1, <4>3, <4>4
      <3> QED
        BY <1>7, <1>9, <3>1, <3>2
    <2>2. \A x : Final(x).good = q.good + c.good /\ Final(x).bad = q.bad + c.bad
      BY Zenon
    <2> HIDE DEF Final
    <2> QED
      BY <1>1, <1>2, <1>6, <1>9, <2>1, <2>2, Zenon DEF c, q
  <1> QED
    BY <1>8, <1>9

LEMMA LoseTypes == ASSUME TrafficTypes, NEW n \in Nets, Lose(n) PROVE TrafficTypes'
  <1> DEFINE p == Head(wire[n])
             rest == Tail(wire[n])
  <1>1. /\ p \in Packets /\ rest \in Seq(Packets) /\ spent' \in [lost : Nat, other : Nat]
        /\ UNCHANGED <<setting, trk, phase, stop, quiet, seq, offset, tx, rx, local, stats, real,
                         foreign, compared>>
        /\ \/ /\ wire' = [wire EXCEPT ![n] = rest]
              /\ missed' = [missed EXCEPT ![n] = [missed[n] EXCEPT ![p.vl] = @ + p.gap + 1]]
           \/ \E j \in 1..Len(rest) : /\ wire' = [wire EXCEPT ![n] = Carried(rest, j, p.gap + 1)]
                                      /\ missed' = missed
    BY LoseIs
  <1>2. p.vl \in VLs /\ p.gap \in Nat /\ p.gap + 1 \in Nat
    BY <1>1, PacketIs
  <1> HIDE DEF p, rest
  <1>3. CASE wire' = [wire EXCEPT ![n] = rest] /\ missed' = [missed EXCEPT ![n] = [missed[n] EXCEPT ![p.vl] = @ + p.gap + 1]]
    <2>1. wire' \in [Nets -> Seq(Packets)]
      BY <1>1, <1>3, TypesOfAll
    <2>2. missed' \in [Nets -> [VLs -> Nat]]
      <3>1. missed[n] \in [VLs -> Nat]
        BY TypesOfAll
      <3>2. [missed[n] EXCEPT ![p.vl] = @ + p.gap + 1] \in [VLs -> Nat]
        BY <1>2, <3>1
      <3> QED
        BY <1>3, <3>2, TypesOfAll
    <2> QED
      BY <1>1, <2>1, <2>2, TypesOfAll, TypesNow, Zenon
  <1>4. ASSUME NEW j \in 1..Len(rest), wire' = [wire EXCEPT ![n] = Carried(rest, j, p.gap + 1)], missed' = missed
        PROVE  TrafficTypes'
    <2>1. Carried(rest, j, p.gap + 1) \in Seq(Packets)
      BY <1>1, <1>2, CarriedType
    <2>2. wire' \in [Nets -> Seq(Packets)]
      BY <1>4, <2>1, TypesOfAll
    <2> QED
      BY <1>1, <1>4, <2>2, TypesOfAll, TypesNow, Zenon
  <1> QED
    BY <1>1, <1>3, <1>4

LEMMA WitnessMore ==
  ASSUME NEW r \in WitnessType, NEW v \in VLs, NEW gap \in Nat
  PROVE  /\ [r EXCEPT !.inner = @ + gap] \in WitnessType
         /\ [r EXCEPT !.lead = @ + gap, !.seen = @ \cup {v}] \in WitnessType
  <1>1. [r EXCEPT !.inner = @ + gap] \in WitnessType
    BY DEF WitnessType
  <1> DEFINE q == [r EXCEPT !.lead = @ + gap]
  <1>2. q \in WitnessType /\ q.seen = r.seen
    BY DEF WitnessType
  <1>3. [r EXCEPT !.lead = @ + gap, !.seen = @ \cup {v}] = [q EXCEPT !.seen = @ \cup {v}]
    BY <1>2, Zenon
  <1> HIDE DEF q
  <1>4. [q EXCEPT !.seen = @ \cup {v}] \in WitnessType
    BY <1>2 DEF WitnessType
  <1> QED
    BY <1>1, <1>3, <1>4

LEMMA WitnessSeen ==
  ASSUME NEW r \in WitnessType, NEW v \in VLs, NEW gap \in Nat
  PROVE  LET q == IF v \in r.seen THEN [r EXCEPT !.inner = @ + gap]
                  ELSE [r EXCEPT !.lead = @ + gap, !.seen = @ \cup {v}]
         IN  /\ q.seen = r.seen \cup {v}
             /\ q.inner = r.inner + (IF v \in r.seen THEN gap ELSE 0)
             /\ q.lead = r.lead + (IF v \in r.seen THEN 0 ELSE gap)
  <1>1. r.inner \in Nat /\ r.lead \in Nat
    BY DEF WitnessType
  <1>2. CASE v \in r.seen
    <2> DEFINE q == [r EXCEPT !.inner = @ + gap]
    <2>1. q.seen = r.seen /\ q.inner = r.inner + gap /\ q.lead = r.lead
      BY DEF WitnessType
    <2> HIDE DEF q
    <2>2. q.seen = r.seen \cup {v} /\ q.inner = r.inner + gap /\ q.lead = r.lead + 0
      BY <1>1, <1>2, <2>1
    <2> QED
      BY <1>2, <2>2, Zenon DEF q
  <1>3. CASE v \notin r.seen
    <2> DEFINE q == [r EXCEPT !.lead = @ + gap, !.seen = @ \cup {v}]
    <2>1. q.seen = r.seen \cup {v} /\ q.inner = r.inner /\ q.lead = r.lead + gap
      BY DEF WitnessType
    <2> HIDE DEF q
    <2>2. q.seen = r.seen \cup {v} /\ q.inner = r.inner + 0 /\ q.lead = r.lead + gap
      BY <1>1, <2>1
    <2> QED
      BY <1>3, <2>2, Zenon DEF q
  <1> QED
    BY <1>2, <1>3

LEMMA MoreOf ==
  ASSUME NEW S, NEW f \in [S -> Nat], NEW n \in S, NEW more \in Nat
  PROVE  /\ [f EXCEPT ![n] = @ + more] \in [S -> Nat] /\ [f EXCEPT ![n] = @ + 1] \in [S -> Nat]
         /\ \A m \in S : [f EXCEPT ![n] = @ + more][m] = f[m] + (IF m = n THEN more ELSE 0)
         /\ \A m \in S : [f EXCEPT ![n] = @ + 1][m] = f[m] + (IF m = n THEN 1 ELSE 0)
  OBVIOUS

LEMMA RxTypes == ASSUME TrafficTypes, NEW n \in Nets, RxStep(n) PROVE TrafficTypes'
  <1>1. ASSUME RxTrack(n) PROVE TrafficTypes'
    <2> DEFINE p == Head(wire[n])
               t == trk[n][p.vl]
               r == real[n]
               s == IF t.init THEN NextExpected(p, t.expected) ELSE p.seq + 1
               g == IF t.init THEN Gap(p, t.expected) ELSE 0
               rnew == IF p.vl \in r.seen THEN [r EXCEPT !.inner = @ + p.gap]
                       ELSE [r EXCEPT !.lead = @ + p.gap, !.seen = @ \cup {p.vl}]
    <2>1. /\ p \in Packets /\ t \in TrackerType /\ s \in Nat /\ r \in WitnessType
          /\ trk' = [trk EXCEPT ![n] = [trk[n] EXCEPT ![p.vl] =
                       [init |-> TRUE, expected |-> s, max |-> t.max, count |-> t.count]]]
          /\ local' = [local EXCEPT ![n] = [local[n] EXCEPT !.lost = @ + g]]
          /\ Gap(p, t.expected) \in Nat
          /\ rx' = [rx EXCEPT ![n] = [at |-> "count", pkt |-> p]]
          /\ wire' = [wire EXCEPT ![n] = Tail(wire[n])] /\ Tail(wire[n]) \in Seq(Packets)
          /\ real' = [real EXCEPT ![n] = rnew]
          /\ UNCHANGED <<setting, missed, stats, phase, stop, quiet, spent, seq, offset, tx, foreign, compared>>
      BY <1>1, RxTrackIs
    <2>2. p.vl \in VLs /\ p.gap \in Nat /\ p.seq \in Nat
      BY <2>1, PacketIs
    <2>3. g \in Nat
      <3>1. g = Gap(p, t.expected) \/ g = 0
        BY Zenon
      <3> HIDE DEF g
      <3> QED
        BY <2>1, <3>1
    <2>4. rnew \in WitnessType
      BY <2>1, <2>2, WitnessMore, Zenon
    <2> HIDE DEF p, t, r, s, g, rnew
    <2>5. wire' \in [Nets -> Seq(Packets)]
      BY <2>1, TypesOfAll
    <2>6. rx' \in [Nets -> RxType]
      BY <2>1, TypesOfAll DEF RxType
    <2>7. trk' \in [Nets -> [VLs -> TrackerType]]
      <3>1. t.max \in Nat /\ t.count \in Nat /\ TRUE \in BOOLEAN
        BY <2>1, TrackerHas
      <3>2. [init |-> TRUE, expected |-> s, max |-> t.max, count |-> t.count] \in TrackerType
        BY <2>1, <3>1, TrackerFields
      <3>3. trk[n] \in [VLs -> TrackerType]
        BY TypesOfAll
      <3> QED
        BY <2>1, <2>2, <3>2, <3>3, TypesOfAll
    <2>8. local' \in [Nets -> LocalType]
      <3>1. local[n] \in LocalType
        BY TypesOf
      <3>2. [local[n] EXCEPT !.lost = @ + g] \in LocalType
        BY <2>3, <3>1 DEF LocalType
      <3> QED
        BY <2>1, <3>2, TypesOfAll
    <2>9. real' \in [Nets -> WitnessType]
      BY <2>1, <2>4, TypesOfAll
    <2> QED
      BY <2>1, <2>5, <2>6, <2>7, <2>8, <2>9, TypesOfAll, TypesNow, Zenon
  <1>2. ASSUME NEW good \in BOOLEAN, RxCount(n, good) PROVE TrafficTypes'
    <2> DEFINE p == rx[n].pkt
               t == trk[n][p.vl]
               e == IF p.seq > t.max THEN p.seq ELSE t.max
               c == IF good THEN [local[n] EXCEPT !.rx = @ + 1, !.good = @ + 1]
                            ELSE [local[n] EXCEPT !.rx = @ + 1, !.bad = @ + 1]
    <2>1. /\ p \in Packets /\ t \in TrackerType /\ c \in LocalType
          /\ FlushIfDue(n, c) /\ rx' = [rx EXCEPT ![n] = Poll] /\ Poll \in [at : {"poll"}, pkt : Packets]
          /\ trk' = [trk EXCEPT ![n] = [trk[n] EXCEPT ![p.vl] =
                       [init |-> t.init, expected |-> t.expected, max |-> e, count |-> t.count + 1]]]
          /\ spent' \in [lost : Nat, other : Nat] /\ compared' = [compared EXCEPT ![n] = @ + 1]
          /\ UNCHANGED <<setting, wire, missed, real, phase, stop, quiet, seq, offset, tx, foreign>>
      BY <1>2, RxCountIs
    <2>2. p.vl \in VLs /\ p.seq \in Nat
      BY <2>1, PacketIs
    <2>3. t.init \in BOOLEAN /\ t.expected \in Nat /\ e \in Nat /\ t.count + 1 \in Nat
      BY <2>1, <2>2, TrackerHas
    <2> HIDE DEF p, t, e, c
    <2>4. rx' \in [Nets -> RxType]
      BY <2>1, TypesOfAll DEF RxType
    <2>5. trk' \in [Nets -> [VLs -> TrackerType]]
      <3>1. [init |-> t.init, expected |-> t.expected, max |-> e, count |-> t.count + 1] \in TrackerType
        BY <2>3, TrackerFields
      <3>2. trk[n] \in [VLs -> TrackerType]
        BY TypesOfAll
      <3> QED
        BY <2>1, <2>2, <3>1, <3>2, TypesOfAll
    <2>6. local' \in [Nets -> LocalType] /\ stats' \in [Nets -> StatsType]
      <3>1. PICK l \in LocalType, s \in StatsType :
              local' = [local EXCEPT ![n] = l] /\ stats' = [stats EXCEPT ![n] = s]
        BY <2>1, FlushIs
      <3> QED
        BY <3>1, TypesOfAll
    <2>7. compared' \in [Nets -> Nat]
      BY <2>1, MoreOf, TypesOfAll
    <2> QED
      BY <2>1, <2>4, <2>5, <2>6, <2>7, TypesOfAll, TypesNow, Zenon
  <1>3. ASSUME OtherStep(n) PROVE TrafficTypes'
    <2>1. PICK c \in LocalType, gap \in Nat, one \in {0, 1} :
            /\ FlushIfDue(n, c) /\ spent' \in [lost : Nat, other : Nat]
            /\ foreign' = [foreign EXCEPT ![n] = @ + gap] /\ compared' = [compared EXCEPT ![n] = @ + one]
            /\ UNCHANGED <<setting, wire, missed, rx, trk, real, phase, stop, quiet, seq, offset, tx>>
      BY <1>3, OtherIs
    <2>3. foreign' \in [Nets -> Nat] /\ compared' \in [Nets -> Nat]
      BY <2>1, MoreOf, TypesOfAll
    <2>2. local' \in [Nets -> LocalType] /\ stats' \in [Nets -> StatsType]
      <3>1. PICK l \in LocalType, s \in StatsType :
              local' = [local EXCEPT ![n] = l] /\ stats' = [stats EXCEPT ![n] = s]
        BY <2>1, FlushIs
      <3> QED
        BY <3>1, TypesOfAll
    <2> QED
      BY <2>1, <2>2, <2>3, TypesOfAll, TypesNow, Zenon
  <1>4. ASSUME RxQuit(n) PROVE TrafficTypes'
    <2>1. PICK s \in StatsType :
            /\ stats' = [stats EXCEPT ![n] = s] /\ local' = [local EXCEPT ![n] = Zero]
            /\ rx' = [rx EXCEPT ![n].at = "done"]
            /\ UNCHANGED <<setting, wire, missed, trk, phase, stop, quiet, spent, real, seq, offset, tx,
                         foreign, compared>>
      BY <1>4, RxQuitIs
    <2>2. Zero \in LocalType
      BY DEF Zero, LocalType
    <2>3. rx' \in [Nets -> RxType]
      <3>1. rx[n] \in RxType
        BY TypesOfAll
      <3>2. [rx[n] EXCEPT !.at = "done"] \in RxType
        BY <3>1 DEF RxType
      <3> QED
        BY <2>1, <3>2, TypesOfAll
    <2>4. stats' \in [Nets -> StatsType] /\ local' \in [Nets -> LocalType]
      BY <2>1, <2>2, TypesOfAll
    <2> QED
      BY <2>1, <2>3, <2>4, TypesOfAll, TypesNow, Zenon
  <1> QED
    BY <1>1, <1>2, <1>3, <1>4 DEF RxStep, OtherStep

-----------------------------------------------------------------------------
(* The steps of the main thread.  What they do to a tracker: nothing, or the *)
(* reset of its fields, or of its mark.                                      *)
Touched(n, v, t) == t \in {trk[n][v], Cleared(trk[n][v]), [trk[n][v] EXCEPT !.init = FALSE]}

LEMMA OneTouched ==
  ASSUME TrafficTypes, NEW a, NEW b, NEW x,
         trk' = [trk EXCEPT ![a] = [trk[a] EXCEPT ![b] = x]],
         a \in Nets /\ b \in VLs => Touched(a, b, x)
  PROVE  /\ trk' \in [Nets -> [VLs -> TrackerType]]
         /\ \A n \in Nets, v \in VLs : Touched(n, v, trk'[n][v])
  <1>1. trk \in [Nets -> [VLs -> TrackerType]]
    BY TypesOfAll
  <1>2. ASSUME NEW n \in Nets, NEW v \in VLs, NEW t, Touched(n, v, t) PROVE t \in TrackerType
    <2>1. trk[n][v] \in TrackerType
      BY <1>1
    <2>2. Cleared(trk[n][v]) \in TrackerType /\ [trk[n][v] EXCEPT !.init = FALSE] \in TrackerType
      BY <2>1, ClearedIs
    <2> QED
      BY <1>2, <2>1, <2>2 DEF Touched
  <1>3. ASSUME NEW n \in Nets, NEW v \in VLs PROVE Touched(n, v, trk'[n][v])
    <2>1. Touched(n, v, trk[n][v])
      BY DEF Touched
    <2>2. trk'[n] = IF n = a THEN [trk[a] EXCEPT ![b] = x] ELSE trk[n]
      BY <1>1
    <2>3. trk'[n][v] = IF n = a /\ v = b THEN x ELSE trk[n][v]
      BY <1>1, <2>2
    <2> QED
      BY <2>1, <2>3, Zenon
  <1>4. trk' = [n \in Nets |-> trk'[n]] /\ \A n \in Nets : trk'[n] = [v \in VLs |-> trk'[n][v]]
    BY <1>1
  <1>5. \A n \in Nets, v \in VLs : trk'[n][v] \in TrackerType
    BY <1>2, <1>3
  <1>6. \A n \in Nets : trk'[n] \in [VLs -> TrackerType]
    <2> DEFINE r == trk'
    <2>1. \A n \in Nets : r[n] = [v \in VLs |-> r[n][v]] /\ \A v \in VLs : r[n][v] \in TrackerType
      BY <1>4, <1>5, Zenon
    <2> HIDE DEF r
    <2>2. \A n \in Nets : r[n] \in [VLs -> TrackerType]
      BY <2>1
    <2> QED
      BY <2>2 DEF r
  <1>7. trk' \in [Nets -> [VLs -> TrackerType]]
    <2> DEFINE r == trk'
    <2>1. r = [n \in Nets |-> r[n]] /\ \A n \in Nets : r[n] \in [VLs -> TrackerType]
      BY <1>4, <1>6, Zenon
    <2> HIDE DEF r
    <2>2. r \in [Nets -> [VLs -> TrackerType]]
      BY <2>1
    <2> QED
      BY <2>2 DEF r
  <1> QED
    BY <1>3, <1>7

LEMMA ResetIs ==
  ASSUME TrafficTypes, ResetStep
  PROVE  /\ setting' = setting /\ offset' = offset /\ tx' = tx /\ wire' = wire /\ missed' = missed
         /\ rx' = rx /\ local' = local /\ spent' = spent /\ real' = real /\ stop' = stop /\ quiet' = quiet
         /\ foreign' = foreign /\ phase.at # "test"
         /\ trk' \in [Nets -> [VLs -> TrackerType]]
         /\ \A n \in Nets, v \in VLs : Touched(n, v, trk'[n][v])
         /\ phase' \in PhaseType /\ phase'.at # "warmup"
         /\ phase'.at = "numbers" => unit = "cmc" \/ phase.at = "numbers"
         /\ seq' \in [VLs -> Nat] /\ (seq' = seq \/ phase.at = "numbers")
         /\ \/ stats' = stats /\ compared' = compared /\ phase'.at # "test"
            \/ stats' = [n \in Nets |-> NoStats] /\ compared' = [n \in Nets |-> 0] /\ phase'.at = "test"
  <1> DEFINE Rest == /\ setting' = setting /\ offset' = offset /\ tx' = tx /\ wire' = wire /\ missed' = missed
                     /\ rx' = rx /\ local' = local /\ spent' = spent /\ real' = real
                     /\ stop' = stop /\ quiet' = quiet /\ foreign' = foreign
  <1>1. /\ trk \in [Nets -> [VLs -> TrackerType]] /\ seq \in [VLs -> Nat]
        /\ \A n \in Nets, v \in VLs : Touched(n, v, trk[n][v])
    BY TypesOfAll DEF Touched
  <1>2. /\ phase.todo \subseteq Trackers
        /\ phase = [at |-> phase.at, todo |-> phase.todo]
    BY TypesOfAll DEF PhaseType
  <1>3. CASE ResetPort
    <2>1. /\ phase.at = "warmup" /\ phase' = [at |-> "fields", todo |-> Trackers] /\ Rest
          /\ UNCHANGED <<seq, trk, stats, compared>>
      BY <1>3, Zenon DEF ResetPort, Running
    <2>2. phase' \in PhaseType /\ phase'.at = "fields"
      BY <2>1 DEF PhaseType
    <2> QED
      BY <1>1, <2>1, <2>2
  <1>4. CASE ResetFields
    <2> DEFINE x == First(phase.todo)
               a == x[1]
               b == x[2]
    <2>1. /\ trk' = [trk EXCEPT ![a] = [trk[a] EXCEPT ![b] = Cleared(trk[a][b])]]
          /\ phase.at = "fields" /\ phase' = [phase EXCEPT !.at = "initialized"] /\ Rest
          /\ UNCHANGED <<seq, stats, compared>>
      BY <1>4, Zenon DEF ResetFields, Running
    <2>2. phase' \in PhaseType /\ phase'.at = "initialized"
      BY <2>1, TypesOfAll DEF PhaseType
    <2>3. Touched(a, b, Cleared(trk[a][b]))
      BY Zenon DEF Touched
    <2> HIDE DEF x, a, b
    <2>4. /\ trk' \in [Nets -> [VLs -> TrackerType]]
          /\ \A n \in Nets, v \in VLs : Touched(n, v, trk'[n][v])
      BY <2>1, <2>3, OneTouched
    <2> QED
      BY <1>1, <2>1, <2>2, <2>4
  <1>5. CASE ResetInitialized
    <2> DEFINE x == First(phase.todo)
               a == x[1]
               b == x[2]
               rest == phase.todo \ {x}
    <2>1. /\ trk' = [trk EXCEPT ![a] = [trk[a] EXCEPT ![b] = [trk[a][b] EXCEPT !.init = FALSE]]]
          /\ phase' = [at |-> CASE rest # {} -> "fields"
                                [] rest = {} /\ unit = "cmc" -> "numbers"
                                [] rest = {} /\ unit # "cmc" -> "stats",
                       todo |-> IF rest = {} /\ unit = "cmc" THEN {"A"} \X VLs ELSE rest]
          /\ Rest /\ UNCHANGED <<seq, stats, compared>> /\ phase.at = "initialized"
      BY <1>5, Zenon DEF ResetInitialized, Running
    <2>2. rest \in SUBSET Trackers /\ {"A"} \X VLs \in SUBSET Trackers
      <3>1. "A" \in Nets
        BY DEF Nets
      <3> QED
        BY <1>2, <3>1 DEF Trackers
    <2>3. Touched(a, b, [trk[a][b] EXCEPT !.init = FALSE])
      BY Zenon DEF Touched
    <2> HIDE DEF x, a, b, rest
    <2>4. /\ phase' \in PhaseType /\ phase'.at \in {"fields", "numbers", "stats"}
          /\ phase'.at = "numbers" => unit = "cmc"
      <3>1. CASE rest # {}
        <4>1. phase' = [at |-> "fields", todo |-> rest]
          BY <2>1, <3>1
        <4> QED
          BY <2>2, <4>1 DEF PhaseType
      <3>2. CASE rest = {} /\ unit = "cmc"
        <4>1. phase' = [at |-> "numbers", todo |-> {"A"} \X VLs]
          BY <2>1, <3>2
        <4> QED
          BY <2>2, <3>2, <4>1 DEF PhaseType
      <3>3. CASE rest = {} /\ unit # "cmc"
        <4>1. phase' = [at |-> "stats", todo |-> rest]
          BY <2>1, <3>3
        <4> QED
          BY <2>2, <4>1 DEF PhaseType
      <3> QED
        BY <3>1, <3>2, <3>3
    <2>5. /\ trk' \in [Nets -> [VLs -> TrackerType]]
          /\ \A n \in Nets, v \in VLs : Touched(n, v, trk'[n][v])
      BY <2>1, <2>3, OneTouched
    <2> QED
      BY <1>1, <2>1, <2>4, <2>5
  <1>6. CASE ResetNumber
    <2> DEFINE x == First(phase.todo)
               rest == phase.todo \ {x}
    <2>1. /\ phase.at = "numbers" /\ seq' = [seq EXCEPT ![x[2]] = 0]
          /\ phase' = [at |-> IF rest = {} THEN "stats" ELSE "numbers", todo |-> rest]
          /\ Rest /\ UNCHANGED <<trk, stats, compared>>
      BY <1>6, Zenon DEF ResetNumber, Running
    <2>2. rest \in SUBSET Trackers
      BY <1>2
    <2> HIDE DEF x, rest
    <2>3. phase' \in PhaseType /\ phase'.at # "warmup" /\ phase'.at # "test"
      BY <2>1, <2>2 DEF PhaseType
    <2>4. seq' \in [VLs -> Nat]
      BY <1>1, <2>1
    <2> QED
      BY <1>1, <2>1, <2>3, <2>4
  <1>7. CASE ResetUnitStats
    <2>1. /\ stats' = [n \in Nets |-> NoStats] /\ compared' = [n \in Nets |-> 0] /\ phase.at = "stats"
          /\ phase' = [phase EXCEPT !.at = "test"] /\ Rest /\ UNCHANGED <<seq, trk>>
      BY <1>7, Zenon DEF ResetUnitStats, Running
    <2>2. phase' \in PhaseType /\ phase'.at = "test"
      BY <2>1, TypesOfAll DEF PhaseType
    <2> QED
      BY <1>1, <2>1, <2>2
  <1> QED
    BY <1>3, <1>4, <1>5, <1>6, <1>7, Zenon DEF ResetStep

LEMMA MainTypes == ASSUME TrafficTypes, ResetStep \/ Quiesce \/ Stop PROVE TrafficTypes'
  <1>1. CASE ResetStep
    <2>1. NoStats \in StatsType
      BY DEF NoStats, StatsType
    <2>2. \/ stats' = stats /\ compared' = compared
          \/ stats' = [m \in Nets |-> NoStats] /\ compared' = [m \in Nets |-> 0]
      BY <1>1, ResetIs, Zenon
    <2>3. stats' \in [Nets -> StatsType]
      BY <2>1, <2>2, TypesOfAll
    <2>4. compared' \in [Nets -> Nat]
      BY <2>2, TypesOfAll
    <2> QED
      BY <1>1, <2>3, <2>4, ResetIs, TypesOfAll, TypesNow, Zenon
  <1>2. CASE Quiesce
    <2>1. quiet' \in BOOLEAN
      BY <1>2, Zenon DEF Quiesce
    <2> QED
      BY <1>2, <2>1, TypesOfAll, TypesNow, Zenon DEF Quiesce, Running
  <1>3. CASE Stop
    <2>1. stop' \in BOOLEAN
      BY <1>3, Zenon DEF Stop
    <2> QED
      BY <1>3, <2>1, TypesOfAll, TypesNow, Zenon DEF Stop, Running
  <1> QED
    BY <1>1, <1>2, <1>3

LEMMA TypesKept == TrafficTypes /\ [TrafficNext]_trafficVars => TrafficTypes'
  <1> SUFFICES ASSUME TrafficTypes, [TrafficNext]_trafficVars PROVE TrafficTypes'
    OBVIOUS
  <1>1. CASE UNCHANGED trafficVars
    BY <1>1, TypesOfAll, TypesNow, Zenon DEF trafficVars
  <1>2. CASE TrafficNext
    <2>1. ASSUME NEW n \in Nets, RxStep(n) PROVE TrafficTypes'
      BY <2>1, RxTypes
    <2>2. ASSUME NEW n \in Nets, Lose(n) PROVE TrafficTypes'
      BY <2>2, LoseTypes
    <2> QED
      BY <1>2, <2>1, <2>2, TxTypes, MainTypes, Zenon DEF TrafficNext
  <1> QED
    BY <1>1, <1>2

-----------------------------------------------------------------------------
(* The inductive invariant.                                                  *)

(* The number the sender uses next for v: the one of a packet that is out    *)
(* but not committed is gone.                                                *)
Sent(v) == seq[v] + (IF tx.at \in {"commit", "store"} /\ v = offset THEN 1 ELSE 0)

(* The numbers run on, as long as the CMC has not begun to reset them. *)
Unreset == unit # "cmc" \/ phase.at = "warmup"
Loaded == Unreset /\ tx.at = "store" => tx.seq = seq[offset]

Expects(n, v, base) ==
  /\ v \notin real[n].seen => base = 0
  /\ trk[n][v].init => v \in real[n].seen /\ trk[n][v].expected = base
Linked(n, v, base) == Chain(wire[n], v, base, Sent(v), missed[n][v]) /\ Expects(n, v, base)
Chained == Unreset => \A n \in Nets : \A v \in VLs : \E base \in Nat : Linked(n, v, base)

(* Before the reset, every VL that was received has its tracker. *)
Begun == phase.at = "warmup" => \A n \in Nets : \A v \in real[n].seen : trk[n][v].init
Numbers == phase.at = "numbers" => unit = "cmc"

(* The packet a worker holds was tracked and is not counted yet. *)
InHand(n, v) == rx[n].at = "count" /\ rx[n].pkt.vl = v
Gone(n, v) == trk[n][v].expected - trk[n][v].count - (IF InHand(n, v) THEN 1 ELSE 0)
Tracked(n, v) ==
  LET t == trk[n][v]
  IN  /\ Gone(n, v) >= 0
      /\ t.init /\ InHand(n, v) => t.expected = rx[n].pkt.seq + 1 /\ t.max <= rx[n].pkt.seq
      /\ t.init /\ ~InHand(n, v) => t.expected = t.max + 1
      /\ ~t.init => t.count = 0 /\ t.max = 0 /\ t.expected = 0 /\ ~InHand(n, v)

Missing(n) == SumFunction([v \in VLs |-> Gone(n, v)])
Verified(n) == stats[n].good + stats[n].bad + local[n].good + local[n].bad
Totalled(n) == stats[n].total + local[n].good + local[n].bad
Exact(n) ==
  /\ \A v \in VLs : Tracked(n, v)
  /\ Missing(n) = real[n].lead + real[n].inner
  /\ Verified(n) = Received(n) /\ Totalled(n) = Received(n)
  /\ rx[n].at = "done" => /\ local[n].good = 0 /\ local[n].bad = 0
                          /\ stats[n].lost = real[n].lead + real[n].inner
Counted == unit = "cmc" /\ phase.at = "warmup" => \A n \in Nets : Exact(n)

TrafficInv == /\ TrafficTypes /\ Loaded /\ Chained /\ Begun /\ Numbers /\ LossExact

LEMMA SentType == ASSUME TrafficTypes, NEW v \in VLs PROVE Sent(v) \in Nat
  <1>1. seq[v] \in Nat
    BY TypesOfAll
  <1> QED
    BY <1>1 DEF Sent

LEMMA ChainStep ==
  ASSUME setting' = setting, Chained, Unreset' => Unreset,
         ASSUME NEW n \in Nets, NEW v \in VLs, NEW base \in Nat, Unreset, Unreset', Linked(n, v, base)
         PROVE  \E b \in Nat : Linked(n, v, b)'
  PROVE  Chained'
  <1>1. VLs' = VLs /\ Nets' = Nets
    BY SettingStays, Zenon
  <1>2. ASSUME Unreset', NEW n \in Nets, NEW v \in VLs PROVE \E b \in Nat : Linked(n, v, b)'
    <2>1. PICK base \in Nat : Linked(n, v, base)
      BY <1>2, Zenon DEF Chained
    <2> QED
      BY <1>2, <2>1, Zenon
  <1> QED
    BY <1>1, <1>2, Zenon DEF Chained

(* The steps that leave the wire and the numbers alone. *)
LEMMA ChainStays ==
  ASSUME Chained, setting' = setting, wire' = wire, missed' = missed, real' = real,
         Unreset' => Unreset, Unreset /\ Unreset' => \A v \in VLs : Sent(v)' = Sent(v),
         \A n \in Nets, v \in VLs : Unreset' /\ trk'[n][v].init =>
            trk[n][v].init /\ trk'[n][v].expected = trk[n][v].expected
  PROVE  Chained'
  <1>1. ASSUME NEW n \in Nets, NEW v \in VLs, NEW base \in Nat, Unreset, Unreset', Linked(n, v, base)
        PROVE  Linked(n, v, base)'
    <2>1. Chain(wire[n], v, base, Sent(v), missed[n][v]) /\ Expects(n, v, base)
      BY <1>1 DEF Linked
    <2>2. Chain(wire'[n], v, base, Sent(v)', missed'[n][v])
      BY <1>1, <2>1, Zenon
    <2>3. Expects(n, v, base)'
      BY <1>1, <2>1, Zenon DEF Expects
    <2> QED
      BY <2>2, <2>3, Zenon DEF Linked
  <1>2. ASSUME NEW n \in Nets, NEW v \in VLs, NEW base \in Nat, Unreset, Unreset', Linked(n, v, base)
        PROVE  \E b \in Nat : Linked(n, v, b)'
    BY <1>1, <1>2
  <1> QED
    BY <1>2, ChainStep

LEMMA ExpectsStays ==
  ASSUME NEW n, NEW v, NEW base, Expects(n, v, base), trk' = trk, real' = real
  PROVE  Expects(n, v, base)'
  BY Zenon DEF Expects

LEMMA ChainTxSend == ASSUME TrafficTypes, Chained, TxSend PROVE Chained'
  <1>1. /\ tx.at = "loop" /\ tx'.at = "commit" /\ seq' = seq /\ offset' = offset /\ setting' = setting
        /\ trk' = trk /\ real' = real /\ phase' = phase
        /\ wire' = [n \in Nets |-> Append(wire[n], Packet(n, offset))]
        /\ missed' = [n \in Nets |-> [missed[n] EXCEPT ![offset] = 0]]
    BY TypesOfAll DEF TxSend, Sending, rxVars, mainVars
  <1>2. ASSUME NEW n \in Nets, NEW v \in VLs, NEW base \in Nat, Linked(n, v, base)
        PROVE  Linked(n, v, base)'
    <2> DEFINE p == Packet(n, offset)
               w == wire[n]
    <2>1. Chain(w, v, base, Sent(v), missed[n][v]) /\ Expects(n, v, base)
      BY <1>2 DEF Linked
    <2>2. w \in Seq(Packets) /\ p \in Packets /\ Sent(v) \in Nat /\ missed[n][v] \in Nat
      BY TypesOf, PacketType, SentType
    <2>3. /\ p.vl = v /\ p.seq = Sent(v) /\ p.gap = missed[n][v] => Chain(Append(w, p), v, base, Sent(v) + 1, 0)
          /\ p.vl # v => Chain(Append(w, p), v, base, Sent(v), missed[n][v])
      <3> HIDE DEF w, p
      <3> QED
        BY <2>1, <2>2, ChainSend
    <2>4. p.vl = offset /\ p.seq = seq[offset] /\ p.gap = missed[n][offset]
      BY DEF Packet
    <2>5. wire'[n] = Append(w, p) /\ missed'[n][v] = IF v = offset THEN 0 ELSE missed[n][v]
      BY <1>1, TypesOfAll
    <2>6. Sent(v)' = IF v = offset THEN Sent(v) + 1 ELSE Sent(v)
      <3>1. seq[v] \in Nat
        BY TypesOfAll
      <3> QED
        BY <1>1, <3>1 DEF Sent
    <2>7. v = offset => Sent(v) = seq[offset]
      <3>1. seq[v] \in Nat
        BY TypesOfAll
      <3> QED
        BY <1>1, <3>1 DEF Sent
    <2> HIDE DEF w, p
    <2>8. Chain(wire'[n], v, base, Sent(v)', missed'[n][v])
      BY <2>3, <2>4, <2>5, <2>6, <2>7, Zenon
    <2>9. Expects(n, v, base)'
      BY <1>1, <2>1, ExpectsStays
    <2> QED
      BY <2>8, <2>9, Zenon DEF Linked
  <1>3. Unreset' => Unreset
    BY <1>1, SettingStays, Zenon DEF Unreset
  <1> QED
    BY <1>1, <1>2, <1>3, ChainStep

LEMMA ChainTwin == ASSUME TrafficTypes, Chained, TxTwinFull PROVE Chained'
  <1>1. /\ tx.at = "loop" /\ tx'.at = "commit" /\ seq' = seq /\ offset' = offset /\ setting' = setting
        /\ trk' = trk /\ real' = real /\ phase' = phase
    BY TypesOfAll DEF TxTwinFull, OnlyOnA, Sending, rxVars, mainVars
  <1>2. /\ Nets = {"A", "B"}
        /\ wire' = [wire EXCEPT !["A"] = Append(wire["A"], Packet("A", offset))]
        /\ missed' = [missed EXCEPT !["A"] = [missed["A"] EXCEPT ![offset] = 0],
                                    !["B"] = [missed["B"] EXCEPT ![offset] = @ + 1]]
    BY TwinIs
  <1>3. /\ wire'["A"] = Append(wire["A"], Packet("A", offset)) /\ wire'["B"] = wire["B"]
        /\ \A v \in VLs : /\ missed'["A"][v] = IF v = offset THEN 0 ELSE missed["A"][v]
                          /\ missed'["B"][v] = IF v = offset THEN missed["B"][v] + 1 ELSE missed["B"][v]
    <2>1. missed["A"] \in [VLs -> Nat] /\ missed["B"] \in [VLs -> Nat] /\ "A" # "B"
      BY <1>2, TypesOfAll
    <2>2. /\ missed'["A"] = [missed["A"] EXCEPT ![offset] = 0]
          /\ missed'["B"] = [missed["B"] EXCEPT ![offset] = @ + 1]
      BY <1>2, TypesOfAll
    <2>3. wire'["A"] = Append(wire["A"], Packet("A", offset)) /\ wire'["B"] = wire["B"]
      BY <1>2, TypesOfAll
    <2> QED
      BY <2>1, <2>2, <2>3
  <1>4. ASSUME NEW v \in VLs
        PROVE  /\ Sent(v)' = IF v = offset THEN Sent(v) + 1 ELSE Sent(v)
               /\ v = offset => Sent(v) = seq[offset]
    <2>1. seq[v] \in Nat
      BY TypesOfAll
    <2> QED
      BY <1>1, <2>1 DEF Sent
  <1>5. ASSUME NEW n \in Nets, NEW v \in VLs, NEW base \in Nat, Linked(n, v, base)
        PROVE  Linked(n, v, base)'
    <2> DEFINE p == Packet(n, offset)
               w == wire[n]
    <2>1. Chain(w, v, base, Sent(v), missed[n][v]) /\ Expects(n, v, base)
      BY <1>5 DEF Linked
    <2>2. w \in Seq(Packets) /\ p \in Packets /\ Sent(v) \in Nat /\ missed[n][v] \in Nat
      BY TypesOf, PacketType, SentType
    <2>3. Expects(n, v, base)'
      BY <1>1, <2>1, ExpectsStays
    <2>4. CASE n = "A"
      <3>1. /\ p.vl = v /\ p.seq = Sent(v) /\ p.gap = missed[n][v] => Chain(Append(w, p), v, base, Sent(v) + 1, 0)
            /\ p.vl # v => Chain(Append(w, p), v, base, Sent(v), missed[n][v])
        <4> HIDE DEF w, p
        <4> QED
          BY <2>1, <2>2, ChainSend
      <3>2. p.vl = offset /\ p.seq = seq[offset] /\ p.gap = missed[n][offset]
        BY DEF Packet
      <3>3. Chain(wire'[n], v, base, Sent(v)', missed'[n][v])
        BY <1>3, <1>4, <2>4, <3>1, <3>2, Zenon
      <3> QED
        BY <2>3, <3>3, Zenon DEF Linked
    <2>5. CASE n = "B"
      <3>1. Chain(w, v, base, Sent(v) + 1, missed[n][v] + 1)
        <4> HIDE DEF w
        <4> QED
          BY <2>1, <2>2, ChainSkips
      <3>2. Chain(wire'[n], v, base, Sent(v)', missed'[n][v])
        BY <1>3, <1>4, <2>1, <2>5, <3>1, Zenon
      <3> QED
        BY <2>3, <3>2, Zenon DEF Linked
    <2> QED
      BY <1>2, <2>4, <2>5
  <1>6. Unreset' => Unreset
    BY <1>1, SettingStays, Zenon DEF Unreset
  <1> QED
    BY <1>1, <1>5, <1>6, ChainStep

LEMMA ChainTxStep == ASSUME TrafficTypes, Chained, Loaded, TxStep PROVE Chained' /\ Loaded'
  <1>1. CASE TxSend
    <2>1. tx'.at = "commit"
      BY <1>1, TypesOfAll DEF TxSend
    <2> QED
      BY <1>1, <2>1, ChainTxSend DEF Loaded
  <1>2. CASE TxTwinFull
    <2>1. tx'.at = "commit"
      BY <1>2, TypesOfAll DEF TxTwinFull
    <2> QED
      BY <1>2, <2>1, ChainTwin DEF Loaded
  <1>3. CASE TxQuit \/ TxSendFull \/ TxCommitLoad \/ TxCommitStore
    <2>1. /\ wire' = wire /\ missed' = missed /\ real' = real /\ trk' = trk /\ phase' = phase /\ setting' = setting
      BY <1>3, Zenon DEF TxQuit, TxSendFull, TxCommitLoad, TxCommitStore, rxVars, mainVars
    <2>2. Unreset' => Unreset
      BY <2>1, SettingStays, Zenon DEF Unreset
    <2>3. ASSUME Unreset PROVE (tx'.at = "store" => tx'.seq = seq'[offset']) /\ \A v \in VLs : Sent(v)' = Sent(v)
      <3>1. CASE TxQuit
        <4>1. tx.at = "loop" /\ tx'.at = "done" /\ seq' = seq /\ offset' = offset
          BY <3>1, TypesOfAll DEF TxQuit
        <4> QED
          BY <4>1 DEF Sent
      <3>2. CASE TxSendFull
        <4>1. tx.at = "loop" /\ tx' = tx /\ seq' = seq
          BY <3>2, TypesOfAll DEF TxSendFull, Sending
        <4> QED
          BY <4>1 DEF Sent
      <3>3. CASE TxCommitLoad
        <4>1. tx.at = "commit" /\ tx' = [at |-> "store", seq |-> seq[offset]] /\ seq' = seq /\ offset' = offset
          BY <3>3, TypesOfAll DEF TxCommitLoad
        <4>2. tx'.at = "store" /\ tx'.seq = seq[offset]
          BY <4>1
        <4> QED
          BY <4>1, <4>2 DEF Sent
      <3>4. CASE TxCommitStore
        <4>1. tx.at = "store" /\ tx'.at = "loop" /\ seq' = [seq EXCEPT ![offset] = tx.seq + 1]
          BY <3>4, TypesOfAll DEF TxCommitStore
        <4>2. tx.seq = seq[offset]
          BY <2>3, <4>1 DEF Loaded
        <4>3. ASSUME NEW v \in VLs PROVE Sent(v)' = Sent(v)
          <5>1. seq[v] \in Nat /\ seq[offset] \in Nat /\ offset \in VLs
            BY TypesOfAll
          <5>2. seq'[v] = IF v = offset THEN seq[v] + 1 ELSE seq[v]
            BY <4>1, <4>2, TypesOfAll
          <5> QED
            BY <4>1, <5>1, <5>2 DEF Sent
        <4> QED
          BY <4>1, <4>3
      <3> QED
        BY <1>3, <3>1, <3>2, <3>3, <3>4
    <2>4. Chained'
      BY <2>1, <2>2, <2>3, ChainStays, Zenon
    <2>5. Loaded'
      BY <2>2, <2>3, Zenon DEF Loaded
    <2> QED
      BY <2>4, <2>5
  <1> QED
    BY <1>1, <1>2, <1>3 DEF TxStep

LEMMA ChainLose == ASSUME TrafficTypes, Chained, NEW n \in Nets, Lose(n) PROVE Chained'
  <1> DEFINE p == Head(wire[n])
             rest == Tail(wire[n])
  <1>1. /\ wire[n] # <<>> /\ p \in Packets /\ rest \in Seq(Packets)
        /\ UNCHANGED <<setting, trk, phase, stop, quiet, seq, offset, tx, rx, local, stats, real,
                         foreign, compared>>
        /\ \/ /\ \A i \in DOMAIN rest : rest[i].vl # p.vl
              /\ wire' = [wire EXCEPT ![n] = rest]
              /\ missed' = [missed EXCEPT ![n] = [missed[n] EXCEPT ![p.vl] = @ + p.gap + 1]]
           \/ \E j \in 1..Len(rest) :
                /\ rest[j].vl = p.vl /\ \A i \in 1..j - 1 : rest[i].vl # p.vl
                /\ wire' = [wire EXCEPT ![n] = Carried(rest, j, p.gap + 1)]
                /\ missed' = missed
    BY LoseIs
  <1>2. p.vl \in VLs /\ p.gap \in Nat /\ p.seq \in Nat /\ p.gap + 1 \in Nat
    BY <1>1, PacketIs
  <1>3. ASSUME NEW m \in Nets, NEW v \in VLs, NEW base \in Nat, Linked(m, v, base)
        PROVE  Linked(m, v, base)'
    <2>1. Chain(wire[m], v, base, Sent(v), missed[m][v]) /\ Expects(m, v, base)
      BY <1>3 DEF Linked
    <2>2. wire[m] \in Seq(Packets) /\ Sent(v) \in Nat /\ missed[m][v] \in Nat
      BY TypesOf, SentType
    <2>3. Expects(m, v, base)'
      BY <1>1, <2>1, ExpectsStays
    <2>4. Sent(v)' = Sent(v)
      BY <1>1, Zenon DEF Sent
    <2>5. SUFFICES Chain(wire'[m], v, base, Sent(v), missed'[m][v])
      BY <2>3, <2>4, Zenon DEF Linked
    <2>6. m = n => /\ p.vl = v => p.seq = base + p.gap /\ Chain(rest, v, p.seq + 1, Sent(v), missed[m][v])
                   /\ p.vl # v => Chain(rest, v, base, Sent(v), missed[m][v])
      BY <1>1, <2>1, <2>2, ChainTakes
    <2>7. (m = n /\ p.vl = v /\ \A i \in DOMAIN rest : rest[i].vl # v) =>
             Chain(rest, v, base, Sent(v), missed[m][v] + p.gap + 1)
      BY <1>1, <2>1, <2>2, ChainLoses
    <2> HIDE DEF p, rest
    <2>8. CASE /\ \A i \in DOMAIN rest : rest[i].vl # p.vl
               /\ wire' = [wire EXCEPT ![n] = rest]
               /\ missed' = [missed EXCEPT ![n] = [missed[n] EXCEPT ![p.vl] = @ + p.gap + 1]]
      <3>1. /\ wire'[m] = IF m = n THEN rest ELSE wire[m]
            /\ missed'[m] = IF m = n THEN [missed[m] EXCEPT ![p.vl] = @ + p.gap + 1] ELSE missed[m]
        BY <2>8, TypesOfAll
      <3>2. missed'[m][v] = IF m = n /\ v = p.vl THEN missed[m][v] + p.gap + 1 ELSE missed[m][v]
        <4>1. missed[m] \in [VLs -> Nat]
          BY TypesOfAll
        <4> QED
          BY <3>1, <4>1
      <3> QED
        BY <2>1, <2>6, <2>7, <2>8, <3>1, <3>2, Zenon
    <2>9. ASSUME NEW j \in 1..Len(rest), rest[j].vl = p.vl, \A i \in 1..j - 1 : rest[i].vl # p.vl,
                 wire' = [wire EXCEPT ![n] = Carried(rest, j, p.gap + 1)], missed' = missed
          PROVE  Chain(wire'[m], v, base, Sent(v), missed'[m][v])
      <3>1. wire'[m] = IF m = n THEN Carried(rest, j, p.gap + 1) ELSE wire[m]
        BY <2>9, TypesOfAll
      <3>2. CASE m # n
        BY <2>1, <2>9, <3>1, <3>2
      <3>3. CASE m = n /\ p.vl = v
        <4>1. p.seq + 1 = base + (p.gap + 1)
          BY <1>2, <2>6, <3>3
        <4>2. Chain(rest, v, base + (p.gap + 1), Sent(v), missed[m][v])
          BY <2>6, <3>3, <4>1, Zenon
        <4>3. Chain(Carried(rest, j, p.gap + 1), v, base, Sent(v), missed[m][v])
          BY <1>1, <1>2, <2>2, <2>9, <3>3, <4>2, ChainCarries
        <4> QED
          BY <2>9, <3>1, <3>3, <4>3
      <3>4. CASE m = n /\ p.vl # v
        <4>1. Chain(Carried(rest, j, p.gap + 1), v, base, Sent(v), missed[m][v])
          BY <1>1, <1>2, <2>2, <2>6, <2>9, <3>4, ChainOfOthers
        <4> QED
          BY <2>9, <3>1, <3>4, <4>1
      <3> QED
        BY <3>2, <3>3, <3>4
    <2> QED
      BY <1>1, <2>8, <2>9
  <1>4. Unreset' => Unreset
    BY <1>1, SettingStays, Zenon DEF Unreset
  <1> QED
    BY <1>1, <1>3, <1>4, ChainStep

LEMMA ChainTrack == ASSUME TrafficTypes, Chained, NEW n \in Nets, RxTrack(n) PROVE Chained'
  <1> DEFINE p == Head(wire[n])
             t == trk[n][p.vl]
             r == real[n]
             s == IF t.init THEN NextExpected(p, t.expected) ELSE p.seq + 1
             tnew == [init |-> TRUE, expected |-> s, max |-> t.max, count |-> t.count]
             rnew == IF p.vl \in r.seen THEN [r EXCEPT !.inner = @ + p.gap]
                     ELSE [r EXCEPT !.lead = @ + p.gap, !.seen = @ \cup {p.vl}]
  <1>1. /\ wire[n] # <<>> /\ p \in Packets /\ t \in TrackerType /\ s \in Nat /\ r \in WitnessType
        /\ trk' = [trk EXCEPT ![n] = [trk[n] EXCEPT ![p.vl] = tnew]]
        /\ wire' = [wire EXCEPT ![n] = Tail(wire[n])] /\ Tail(wire[n]) \in Seq(Packets)
        /\ real' = [real EXCEPT ![n] = rnew]
        /\ UNCHANGED <<setting, missed, stats, phase, stop, quiet, spent, seq, offset, tx, foreign, compared>>
    BY RxTrackIs
  <1>2. p.vl \in VLs /\ p.gap \in Nat /\ p.seq \in Nat
    BY <1>1, PacketIs
  <1>3. rnew.seen = r.seen \cup {p.vl}
    BY <1>1, <1>2, WitnessSeen
  <1>4. tnew.init = TRUE /\ tnew.expected = s
    BY Zenon
  <1>5. ASSUME NEW v \in VLs, NEW base \in Nat, Linked(n, v, base) PROVE \E b \in Nat : Linked(n, v, b)'
    <2>1. Chain(wire[n], v, base, Sent(v), missed[n][v]) /\ Expects(n, v, base)
      BY <1>5 DEF Linked
    <2>2. wire[n] \in Seq(Packets) /\ Sent(v) \in Nat /\ missed[n][v] \in Nat
      BY TypesOf, SentType
    <2>3. /\ p.vl = v => p.seq = base + p.gap /\ Chain(Tail(wire[n]), v, p.seq + 1, Sent(v), missed[n][v])
          /\ p.vl # v => Chain(Tail(wire[n]), v, base, Sent(v), missed[n][v])
      BY <1>1, <2>1, <2>2, ChainTakes
    <2>4. v = p.vl => s = p.seq + 1
      <3> SUFFICES ASSUME v = p.vl PROVE s = p.seq + 1
        OBVIOUS
      <3>1. CASE t.init
        <4>1. s = NextExpected(p, t.expected)
          BY <3>1, Zenon
        <4>2. t.expected = base
          BY <2>1, <3>1 DEF Expects
        <4> HIDE DEF p, t, s
        <4> QED
          BY <1>2, <2>3, <4>1, <4>2 DEF NextExpected
      <3>2. CASE ~t.init
        BY <3>2, Zenon
      <3> QED
        BY <3>1, <3>2, Zenon
    <2>5. Sent(v)' = Sent(v) /\ missed' = missed
      BY <1>1, Zenon DEF Sent
    <2> HIDE DEF p, t, r, s, tnew, rnew
    <2>6. /\ wire'[n] = Tail(wire[n]) /\ real'[n] = rnew
          /\ trk'[n][v] = IF v = p.vl THEN tnew ELSE trk[n][v]
      BY <1>1, <1>2, TypesOfAll
    <2>7. CASE v = p.vl
      <3>3. p.seq + 1 \in Nat
        BY <1>2
      <3>4. PICK b \in Nat : b = p.seq + 1
        BY <3>3
      <3>1. Chain(wire'[n], v, b, Sent(v)', missed'[n][v])
        BY <2>3, <2>5, <2>6, <2>7, <3>4, Zenon
      <3>2. Expects(n, v, b)'
        <4>1. v \in real'[n].seen
          BY <1>3, <2>6, <2>7
        <4>2. trk'[n][v].expected = b
          BY <1>4, <2>4, <2>6, <2>7, <3>4, Zenon
        <4> QED
          BY <4>1, <4>2, Zenon DEF Expects
      <3> QED
        BY <3>1, <3>2, Zenon DEF Linked
    <2>8. CASE v # p.vl
      <3>1. Chain(wire'[n], v, base, Sent(v)', missed'[n][v])
        BY <2>3, <2>5, <2>6, <2>8, Zenon
      <3>2. Expects(n, v, base)'
        <4>1. v \in real'[n].seen <=> v \in real[n].seen
          BY <1>3, <2>6, <2>8, Zenon DEF r
        <4>2. trk'[n][v] = trk[n][v]
          BY <2>6, <2>8, Zenon
        <4> QED
          BY <2>1, <4>1, <4>2, Zenon DEF Expects
      <3> QED
        BY <3>1, <3>2, Zenon DEF Linked
    <2> QED
      BY <2>7, <2>8
  <1> HIDE DEF p, t, r, s, tnew, rnew
  <1>6. ASSUME NEW m \in Nets, m # n, NEW v \in VLs, NEW base \in Nat, Linked(m, v, base) PROVE Linked(m, v, base)'
    <2>1. wire'[m] = wire[m] /\ trk'[m] = trk[m] /\ real'[m] = real[m]
      BY <1>1, <1>6, TypesOfAll
    <2>2. Sent(v)' = Sent(v) /\ missed' = missed
      BY <1>1, Zenon DEF Sent
    <2>3. Expects(m, v, base)'
      BY <1>6, <2>1, Zenon DEF Expects, Linked
    <2> QED
      BY <1>6, <2>1, <2>2, <2>3, Zenon DEF Linked
  <1>7. ASSUME NEW m \in Nets, NEW v \in VLs, NEW base \in Nat, Linked(m, v, base)
        PROVE  \E b \in Nat : Linked(m, v, b)'
    BY <1>5, <1>6, <1>7
  <1>8. Unreset' => Unreset
    BY <1>1, SettingStays, Zenon DEF Unreset
  <1> QED
    BY <1>1, <1>7, <1>8, ChainStep

(* A packet that is taken shows exactly what was lost before it. *)
LEMMA Shows ==
  ASSUME TrafficTypes, Chained, Unreset, Begun, NEW n \in Nets, RxTrack(n)
  PROVE  LET p == Head(wire[n])  t == trk[n][p.vl]  r == real[n]
         IN  /\ t.init => /\ p.vl \in r.seen /\ p.seq = t.expected + p.gap /\ Gap(p, t.expected) = p.gap
                          /\ p.seq >= t.expected
             /\ p.vl \notin r.seen => p.seq = p.gap
             /\ phase.at = "warmup" /\ ~t.init => p.vl \notin r.seen
  <1> DEFINE p == Head(wire[n])
             t == trk[n][p.vl]
             r == real[n]
  <1>1. wire[n] # <<>> /\ p \in Packets /\ t \in TrackerType
    BY RxTrackIs
  <1>2. p.vl \in VLs /\ p.gap \in Nat /\ p.seq \in Nat
    BY <1>1, PacketIs
  <1>3. PICK base \in Nat : Linked(n, p.vl, base)
    BY <1>2, Zenon DEF Chained
  <1>4. Chain(wire[n], p.vl, base, Sent(p.vl), missed[n][p.vl]) /\ Expects(n, p.vl, base)
    BY <1>3, Zenon DEF Linked
  <1>5. wire[n] \in Seq(Packets) /\ Sent(p.vl) \in Nat /\ missed[n][p.vl] \in Nat
    BY <1>2, TypesOf, SentType
  <1>6. p.seq = base + p.gap
    BY <1>1, <1>2, <1>4, <1>5, ChainTakes
  <1>7. (p.vl \notin r.seen => base = 0) /\ (t.init => p.vl \in r.seen /\ t.expected = base)
    BY <1>4, Zenon DEF Expects
  <1>8. phase.at = "warmup" /\ ~t.init => p.vl \notin r.seen
    BY Zenon DEF Begun
  <1> HIDE DEF p, t, r
  <1>9. p.vl \notin r.seen => p.seq = p.gap
    BY <1>2, <1>6, <1>7
  <1>10. t.init => p.seq = t.expected + p.gap /\ Gap(p, t.expected) = p.gap /\ p.seq >= t.expected
    BY <1>2, <1>6, <1>7 DEF Gap
  <1> QED
    BY <1>7, <1>8, <1>9, <1>10 DEF p, t, r

LEMMA LossTrack ==
  ASSUME TrafficTypes, Chained, Begun, LossExact, NEW n \in Nets, RxTrack(n)
  PROVE  LossExact' /\ Begun'
  <1> DEFINE p == Head(wire[n])
             t == trk[n][p.vl]
             r == real[n]
             s == IF t.init THEN NextExpected(p, t.expected) ELSE p.seq + 1
             g == IF t.init THEN Gap(p, t.expected) ELSE 0
             tnew == [init |-> TRUE, expected |-> s, max |-> t.max, count |-> t.count]
             rnew == IF p.vl \in r.seen THEN [r EXCEPT !.inner = @ + p.gap]
                     ELSE [r EXCEPT !.lead = @ + p.gap, !.seen = @ \cup {p.vl}]
  <1>1. /\ rx[n].at = "poll" /\ wire[n] # <<>> /\ p \in Packets /\ t \in TrackerType /\ s \in Nat /\ r \in WitnessType
        /\ trk' = [trk EXCEPT ![n] = [trk[n] EXCEPT ![p.vl] = tnew]]
        /\ local' = [local EXCEPT ![n] = [local[n] EXCEPT !.lost = @ + g]]
        /\ Gap(p, t.expected) \in Nat
        /\ rx' = [rx EXCEPT ![n] = [at |-> "count", pkt |-> p]]
        /\ real' = [real EXCEPT ![n] = rnew]
        /\ UNCHANGED <<setting, missed, stats, phase, stop, quiet, spent, seq, offset, tx, foreign, compared>>
    BY RxTrackIs
  <1>2. p.vl \in VLs /\ p.gap \in Nat /\ p.seq \in Nat
    BY <1>1, PacketIs
  <1>3. rnew.seen = r.seen \cup {p.vl} /\ rnew.inner = r.inner + (IF p.vl \in r.seen THEN p.gap ELSE 0)
    BY <1>1, <1>2, WitnessSeen
  <1>4. tnew.init = TRUE
    BY Zenon
  <1>5. Unreset => /\ g <= (IF p.vl \in r.seen THEN p.gap ELSE 0)
                   /\ phase.at = "warmup" => g = (IF p.vl \in r.seen THEN p.gap ELSE 0)
    <2> SUFFICES ASSUME Unreset
                 PROVE  /\ g <= (IF p.vl \in r.seen THEN p.gap ELSE 0)
                        /\ phase.at = "warmup" => g = (IF p.vl \in r.seen THEN p.gap ELSE 0)
      OBVIOUS
    <2>1. /\ t.init => p.vl \in r.seen /\ Gap(p, t.expected) = p.gap
          /\ phase.at = "warmup" /\ ~t.init => p.vl \notin r.seen
      BY Shows
    <2>2. (t.init => g = Gap(p, t.expected)) /\ (~t.init => g = 0)
      BY Zenon
    <2>3. t.init \/ ~t.init
      BY Zenon
    <2> HIDE DEF p, t, r, g
    <2> QED
      BY <1>2, <2>1, <2>2, <2>3
  <1>6. g \in Nat
    <2>1. g = Gap(p, t.expected) \/ g = 0
      BY Zenon
    <2> HIDE DEF g
    <2> QED
      BY <1>1, <2>1
  <1> HIDE DEF p, t, r, s, g, tnew, rnew
  <1>7. Nets' = Nets /\ unit' = unit /\ phase' = phase /\ stats' = stats
    BY <1>1, SettingStays, Zenon
  <1>8. ASSUME NEW m \in Nets, rx'[m].at # "done"
        PROVE  /\ phase.at = "warmup" => Reported(m)' = real'[m].inner + foreign'[m]
               /\ unit # "cmc" => Reported(m)' <= real'[m].inner + foreign'[m]
    <2>1. CASE m # n
      <3>1. rx'[m] = rx[m] /\ local'[m] = local[m] /\ real'[m] = real[m] /\ foreign'[m] = foreign[m]
        BY <1>1, <2>1, TypesOfAll
      <3>2. Reported(m)' = Reported(m)
        BY <1>7, <3>1, Zenon DEF Reported
      <3>3. /\ phase.at = "warmup" => Reported(m) = real[m].inner + foreign[m]
            /\ unit # "cmc" => Reported(m) <= real[m].inner + foreign[m]
        BY <1>8, <3>1, Zenon DEF LossExact
      <3> QED
        BY <3>1, <3>2, <3>3, Zenon
    <2>2. CASE m = n
      <3>1. real'[n] = rnew /\ local'[n] = [local[n] EXCEPT !.lost = @ + g]
        BY <1>1, TypesOfAll
      <3>2. local[n] \in LocalType /\ stats[n] \in StatsType
        BY TypesOf
      <3>3. local'[n].lost = local[n].lost + g
        BY <3>1, <3>2 DEF LocalType
      <3>4. local[n].lost \in Nat /\ stats[n].lost \in Nat /\ r.inner \in Nat /\ foreign[n] \in Nat
        BY <1>1, <3>2, TypesOf DEF LocalType, StatsType, WitnessType
      <3>9. foreign'[n] = foreign[n]
        BY <1>1
      <3>5. /\ phase.at = "warmup" => stats[n].lost + local[n].lost = r.inner + foreign[n]
            /\ unit # "cmc" => stats[n].lost + local[n].lost <= r.inner + foreign[n]
        BY <1>1, Zenon DEF LossExact, Reported, r
      <3>6. Reported(n)' = stats[n].lost + (local[n].lost + g)
        BY <1>7, <3>3, Zenon DEF Reported
      <3>7. real'[n].inner = r.inner + (IF p.vl \in r.seen THEN p.gap ELSE 0)
        BY <1>3, <3>1
      <3>8. phase.at = "warmup" \/ unit # "cmc" => Unreset
        BY DEF Unreset
      <3> QED
        BY <1>2, <1>5, <1>6, <2>2, <3>4, <3>5, <3>6, <3>7, <3>8, <3>9
    <2> QED
      BY <2>1, <2>2
  <1>9. LossExact'
    BY <1>7, <1>8, Zenon DEF LossExact
  <1>10. ASSUME phase.at = "warmup", NEW m \in Nets, NEW v \in real'[m].seen PROVE trk'[m][v].init
    <2>1. CASE m # n
      <3>1. trk'[m] = trk[m] /\ real'[m] = real[m]
        BY <1>1, <2>1, TypesOfAll
      <3> QED
        BY <1>10, <3>1, Zenon DEF Begun
    <2>2. CASE m = n
      <3>1. real'[n] = rnew /\ trk'[n] = [trk[n] EXCEPT ![p.vl] = tnew] /\ trk[n] \in [VLs -> TrackerType]
        BY <1>1, TypesOfAll
      <3>2. CASE v = p.vl
        <4>1. trk'[n][v] = tnew
          BY <1>2, <3>1, <3>2
        <4> QED
          BY <1>4, <2>2, <4>1, Zenon
      <3>3. CASE v # p.vl
        <4>1. v \in r.seen
          BY <1>3, <1>10, <2>2, <3>1, <3>3
        <4>2. v \in VLs
          BY <1>1, <4>1 DEF WitnessType
        <4>3. trk'[n][v] = trk[n][v]
          BY <3>1, <3>3, <4>2
        <4>4. trk[n][v].init
          BY <1>10, <4>1, Zenon DEF Begun, r
        <4> QED
          BY <2>2, <4>3, <4>4, Zenon
      <3> QED
        BY <3>2, <3>3
    <2> QED
      BY <2>1, <2>2
  <1>11. Begun'
    BY <1>7, <1>10, Zenon DEF Begun
  <1> QED
    BY <1>9, <1>11

(* What is reported grows with what the numbers of other packets showed. *)
Grows(n) == \E gap \in Nat : Reported(n)' = Reported(n) + gap /\ foreign'[n] = foreign[n] + gap

LEMMA SameGrows ==
  ASSUME TrafficTypes, NEW n \in Nets, Reported(n)' = Reported(n), foreign' = foreign
  PROVE  Grows(n)
  <1>1. stats[n].lost \in Nat /\ local[n].lost \in Nat /\ foreign[n] \in Nat
    BY TypesOf DEF StatsType, LocalType
  <1>2. Reported(n) \in Nat
    BY <1>1 DEF Reported
  <1>3. Reported(n)' = Reported(n) + 0 /\ foreign'[n] = foreign[n] + 0 /\ 0 \in Nat
    BY <1>1, <1>2
  <1> QED
    BY <1>3, Zenon DEF Grows

(* LossExact and Begun where the trackers' marks and the witness stay.       *)
LEMMA LossStays ==
  ASSUME TrafficTypes, LossExact, Begun, setting' = setting, phase' = phase, real' = real,
         \A n \in Nets : rx'[n].at # "done" => rx[n].at # "done" /\ Grows(n),
         \A n \in Nets, v \in VLs : trk[n][v].init => trk'[n][v].init,
         \A n \in Nets : real[n].seen \subseteq VLs
  PROVE  LossExact' /\ Begun'
  <1>1. Nets' = Nets /\ unit' = unit
    BY SettingStays, Zenon
  <1>5. ASSUME NEW n \in Nets, rx'[n].at # "done"
        PROVE  /\ phase.at = "warmup" => Reported(n)' = real[n].inner + foreign'[n]
               /\ unit # "cmc" => Reported(n)' <= real[n].inner + foreign'[n]
    <2>1. rx[n].at # "done" /\ Grows(n)
      BY <1>5
    <2>2. PICK gap \in Nat : Reported(n)' = Reported(n) + gap /\ foreign'[n] = foreign[n] + gap
      BY <2>1, Zenon DEF Grows
    <2>3. /\ phase.at = "warmup" => Reported(n) = real[n].inner + foreign[n]
          /\ unit # "cmc" => Reported(n) <= real[n].inner + foreign[n]
      BY <2>1, Zenon DEF LossExact
    <2>4. stats[n].lost \in Nat /\ local[n].lost \in Nat /\ foreign[n] \in Nat /\ real[n].inner \in Nat
      BY TypesOf DEF StatsType, LocalType, WitnessType
    <2>5. Reported(n) \in Nat
      BY <2>4 DEF Reported
    <2> QED
      BY <2>2, <2>3, <2>4, <2>5
  <1>2. LossExact'
    BY <1>1, <1>5, Zenon DEF LossExact
  <1>3. ASSUME phase.at = "warmup", NEW n \in Nets, NEW v \in real[n].seen PROVE trk'[n][v].init
    <2>1. trk[n][v].init
      BY <1>3, Zenon DEF Begun
    <2> QED
      BY <2>1
  <1>4. Begun'
    BY <1>1, <1>3, Zenon DEF Begun
  <1> QED
    BY <1>2, <1>4

LEMMA SeenIs == ASSUME TrafficTypes, NEW n \in Nets PROVE real[n].seen \subseteq VLs
  BY TypesOf DEF WitnessType

LEMMA QueueSteps ==
  ASSUME TrafficTypes, Loaded, Chained, Begun, Numbers, LossExact,
         TxStep \/ Quiesce \/ Stop \/ (\E n \in Nets : Lose(n)) \/ UNCHANGED trafficVars
  PROVE  Loaded' /\ Chained' /\ Begun' /\ Numbers' /\ LossExact'
  <1>1. /\ setting' = setting /\ phase' = phase /\ real' = real /\ rx' = rx /\ trk' = trk
        /\ local' = local /\ stats' = stats /\ foreign' = foreign
    <2>1. CASE TxStep
      BY <2>1, Zenon DEF TxStep, TxQuit, TxSend, TxSendFull, TxTwinFull, OnlyOnA, TxCommitLoad, TxCommitStore,
                         mainVars, rxVars
    <2>2. CASE Quiesce \/ Stop
      BY <2>2, Zenon DEF Quiesce, Stop, Running
    <2>3. CASE \E n \in Nets : Lose(n)
      BY <2>3, LoseIs
    <2>4. CASE UNCHANGED trafficVars
      BY <2>4 DEF trafficVars
    <2> QED
      BY <2>1, <2>2, <2>3, <2>4
  <1>2. \A n \in Nets : Grows(n)
    <2>1. \A n \in Nets : Reported(n)' = Reported(n)
      BY <1>1, Zenon DEF Reported
    <2> QED
      BY <1>1, <2>1, SameGrows
  <1>3. LossExact' /\ Begun'
    BY <1>1, <1>2, LossStays, SeenIs, Zenon
  <1>4. Numbers'
    BY <1>1, SettingStays, Zenon DEF Numbers
  <1>5. Unreset' => Unreset
    BY <1>1, SettingStays, Zenon DEF Unreset
  <1>6. Loaded' /\ Chained'
    <2>1. CASE TxStep
      BY <2>1, ChainTxStep
    <2>2. CASE Quiesce \/ Stop \/ UNCHANGED trafficVars
      <3>1. wire' = wire /\ missed' = missed /\ seq' = seq /\ offset' = offset /\ tx' = tx
        BY <2>2, Zenon DEF Quiesce, Stop, Running, trafficVars
      <3>2. \A v \in VLs : Sent(v)' = Sent(v)
        BY <3>1, Zenon DEF Sent
      <3>3. Chained'
        BY <1>1, <1>5, <3>1, <3>2, ChainStays, Zenon
      <3>4. Loaded'
        BY <1>5, <3>1, Zenon DEF Loaded
      <3> QED
        BY <3>3, <3>4
    <2>3. ASSUME NEW n \in Nets, Lose(n) PROVE Loaded' /\ Chained'
      <3>1. seq' = seq /\ offset' = offset /\ tx' = tx
        BY <2>3, LoseIs
      <3>2. Loaded'
        BY <1>5, <3>1, Zenon DEF Loaded
      <3> QED
        BY <2>3, <3>2, ChainLose
    <2> QED
      BY <2>1, <2>2, <2>3
  <1> QED
    BY <1>3, <1>4, <1>6

LEMMA WorkerSteps ==
  ASSUME TrafficTypes, Loaded, Chained, Begun, Numbers, LossExact, NEW n \in Nets, RxStep(n)
  PROVE  Loaded' /\ Chained' /\ Begun' /\ Numbers' /\ LossExact'
  <1>1. setting' = setting /\ phase' = phase /\ seq' = seq /\ offset' = offset /\ tx' = tx /\ missed' = missed
    BY Zenon DEF RxStep, RxTrack, RxCount, RxOther, RxForeign, RxQuit, mainVars, txVars
  <1>2. Numbers'
    BY <1>1, SettingStays, Zenon DEF Numbers
  <1>3. Unreset' => Unreset
    BY <1>1, SettingStays, Zenon DEF Unreset
  <1>4. Loaded' /\ \A v \in VLs : Sent(v)' = Sent(v)
    BY <1>1, <1>3, Zenon DEF Loaded, Sent
  <1>5. CASE RxTrack(n)
    BY <1>2, <1>4, <1>5, ChainTrack, LossTrack
  <1>6. ASSUME wire' = wire, real' = real,
               \A m \in Nets : rx'[m].at # "done" => rx[m].at # "done" /\ Grows(m),
               \A m \in Nets, v \in VLs : trk'[m][v].init = trk[m][v].init /\ trk'[m][v].expected = trk[m][v].expected
        PROVE  Loaded' /\ Chained' /\ Begun' /\ Numbers' /\ LossExact'
    <2>1. Chained'
      BY <1>1, <1>3, <1>4, <1>6, ChainStays, Zenon
    <2>2. \A m \in Nets, v \in VLs : trk[m][v].init => trk'[m][v].init
      BY <1>6, Zenon
    <2>3. LossExact' /\ Begun'
      BY <1>1, <1>6, <2>2, LossStays, SeenIs, Zenon
    <2> QED
      BY <1>2, <1>4, <2>1, <2>3
  <1>7. ASSUME NEW c \in LocalType, FlushIfDue(n, c), NEW m \in Nets
        PROVE  Reported(m)' = IF m = n THEN stats[n].lost + c.lost ELSE Reported(m)
    <2>1. PICK l \in LocalType, s \in StatsType :
            /\ local' = [local EXCEPT ![n] = l] /\ stats' = [stats EXCEPT ![n] = s]
            /\ s.lost + l.lost = stats[n].lost + c.lost
      BY <1>7, FlushIs
    <2>2. /\ local'[m] = IF m = n THEN l ELSE local[m]
          /\ stats'[m] = IF m = n THEN s ELSE stats[m]
      BY <2>1, TypesOfAll
    <2>3. Reported(m)' = stats'[m].lost + local'[m].lost /\ Reported(m) = stats[m].lost + local[m].lost
      BY Zenon DEF Reported
    <2>4. CASE m = n
      BY <2>1, <2>2, <2>3, <2>4, Zenon
    <2>5. CASE m # n
      BY <2>2, <2>3, <2>5, Zenon
    <2> QED
      BY <2>4, <2>5
  <1>8. ASSUME NEW good \in BOOLEAN, RxCount(n, good)
        PROVE  Loaded' /\ Chained' /\ Begun' /\ Numbers' /\ LossExact'
    <2> DEFINE p == rx[n].pkt
               t == trk[n][p.vl]
               e == IF p.seq > t.max THEN p.seq ELSE t.max
               tnew == [init |-> t.init, expected |-> t.expected, max |-> e, count |-> t.count + 1]
               c == IF good THEN [local[n] EXCEPT !.rx = @ + 1, !.good = @ + 1]
                            ELSE [local[n] EXCEPT !.rx = @ + 1, !.bad = @ + 1]
    <2>1. /\ rx[n].at = "count" /\ p \in Packets /\ t \in TrackerType /\ c \in LocalType
          /\ FlushIfDue(n, c) /\ rx' = [rx EXCEPT ![n] = Poll]
          /\ trk' = [trk EXCEPT ![n] = [trk[n] EXCEPT ![p.vl] = tnew]]
          /\ UNCHANGED <<setting, wire, missed, real, phase, stop, quiet, seq, offset, tx, foreign>>
      BY <1>8, RxCountIs
    <2>2. c.lost = local[n].lost
      <3>1. local[n] \in LocalType
        BY TypesOf
      <3> QED
        BY <3>1, CountedIs, Zenon
    <2>3. p.vl \in VLs
      BY <2>1, PacketIs
    <2>4. tnew.init = t.init /\ tnew.expected = t.expected
      BY Zenon
    <2> HIDE DEF c, tnew
    <2>5. \A m \in Nets : Grows(m)
      <3>1. \A m \in Nets : Reported(m)' = Reported(m)
        BY <1>7, <2>1, <2>2, Zenon DEF Reported
      <3> QED
        BY <2>1, <3>1, SameGrows
    <2>6. \A m \in Nets : rx'[m].at # "done" => rx[m].at # "done"
      BY <2>1, TypesOfAll
    <2>7. ASSUME NEW m \in Nets, NEW v \in VLs
          PROVE  trk'[m][v].init = trk[m][v].init /\ trk'[m][v].expected = trk[m][v].expected
      <3> HIDE DEF p
      <3>1. trk'[m][v] = IF m = n /\ v = p.vl THEN tnew ELSE trk[m][v]
        BY <2>1, <2>3, TypesOfAll
      <3> QED
        BY <2>4, <3>1, Zenon
    <2> QED
      BY <1>6, <2>1, <2>5, <2>6, <2>7, Zenon
  <1>9. ASSUME OtherStep(n)
        PROVE  Loaded' /\ Chained' /\ Begun' /\ Numbers' /\ LossExact'
    <2>1. PICK c \in LocalType, gap \in Nat :
            /\ FlushIfDue(n, c) /\ c.lost = local[n].lost + gap /\ foreign' = [foreign EXCEPT ![n] = @ + gap]
            /\ UNCHANGED <<setting, wire, missed, rx, trk, real, phase, stop, quiet, seq, offset, tx>>
      BY <1>9, OtherIs
    <2>2. ASSUME NEW m \in Nets PROVE Grows(m)
      <3>1. foreign'[m] = foreign[m] + (IF m = n THEN gap ELSE 0) /\ foreign[m] \in Nat
        BY <2>1, MoreOf, TypesOfAll
      <3>2. Reported(m)' = IF m = n THEN stats[n].lost + (local[n].lost + gap) ELSE Reported(m)
        BY <1>7, <2>1, Zenon
      <3>3. stats[m].lost \in Nat /\ local[m].lost \in Nat
        BY TypesOf DEF StatsType, LocalType
      <3>4. CASE m = n
        <4>1. Reported(m)' = Reported(m) + gap /\ foreign'[m] = foreign[m] + gap
          BY <3>1, <3>2, <3>3, <3>4 DEF Reported
        <4> QED
          BY <4>1, Zenon DEF Grows
      <3>5. CASE m # n
        <4>1. Reported(m)' = Reported(m) + 0 /\ foreign'[m] = foreign[m] + 0 /\ 0 \in Nat
          BY <3>1, <3>2, <3>3, <3>5 DEF Reported
        <4> QED
          BY <4>1, Zenon DEF Grows
      <3> QED
        BY <3>4, <3>5
    <2> QED
      BY <1>6, <2>1, <2>2, Zenon
  <1>10. ASSUME RxQuit(n) PROVE Loaded' /\ Chained' /\ Begun' /\ Numbers' /\ LossExact'
    <2>1. PICK s \in StatsType :
            /\ stats' = [stats EXCEPT ![n] = s] /\ local' = [local EXCEPT ![n] = Zero]
            /\ rx' = [rx EXCEPT ![n].at = "done"]
            /\ UNCHANGED <<setting, wire, missed, trk, phase, stop, quiet, spent, real, seq, offset, tx,
                         foreign, compared>>
      BY <1>10, RxQuitIs
    <2>2. ASSUME NEW m \in Nets, rx'[m].at # "done" PROVE rx[m].at # "done" /\ Grows(m)
      <3>1. m # n
        <4>1. rx[n] \in RxType
          BY TypesOf
        <4>2. rx'[n].at = "done"
          BY <2>1, <4>1, TypesOfAll DEF RxType
        <4> QED
          BY <2>2, <4>2
      <3>2. rx'[m] = rx[m] /\ local'[m] = local[m] /\ stats'[m] = stats[m]
        BY <2>1, <3>1, TypesOfAll
      <3>3. Reported(m)' = Reported(m)
        BY <3>2, Zenon DEF Reported
      <3> QED
        BY <2>1, <2>2, <3>2, <3>3, SameGrows
    <2> QED
      BY <1>6, <2>1, <2>2, Zenon
  <1> QED
    BY <1>5, <1>8, <1>9, <1>10 DEF RxStep, OtherStep

LEMMA ResetSteps ==
  ASSUME TrafficTypes, Loaded, Chained, Begun, Numbers, LossExact, ResetStep
  PROVE  Loaded' /\ Chained' /\ Begun' /\ Numbers' /\ LossExact'
  <1>1. /\ setting' = setting /\ offset' = offset /\ tx' = tx /\ wire' = wire /\ missed' = missed
        /\ rx' = rx /\ local' = local /\ real' = real /\ foreign' = foreign
        /\ \A n \in Nets, v \in VLs : Touched(n, v, trk'[n][v])
        /\ phase'.at # "warmup" /\ (phase'.at = "numbers" => unit = "cmc" \/ phase.at = "numbers")
        /\ seq' = seq \/ phase.at = "numbers"
        /\ stats' = stats \/ stats' = [n \in Nets |-> NoStats]
    BY ResetIs
  <1>2. unit' = unit /\ Nets' = Nets
    BY <1>1, SettingStays, Zenon
  <1>3. Begun' /\ Numbers'
    BY <1>1, <1>2, Zenon DEF Begun, Numbers
  <1>4. Unreset' => Unreset /\ unit # "cmc" /\ seq' = seq
    BY <1>1, <1>2, Zenon DEF Unreset, Numbers
  <1>5. Loaded'
    BY <1>1, <1>4, Zenon DEF Loaded
  <1>6. ASSUME Unreset' PROVE \A v \in VLs : Sent(v)' = Sent(v)
    BY <1>1, <1>4, <1>6, Zenon DEF Sent
  <1>7. ASSUME NEW n \in Nets, NEW v \in VLs, Unreset', trk'[n][v].init
        PROVE  trk[n][v].init /\ trk'[n][v].expected = trk[n][v].expected
    <2>1. trk[n][v] \in TrackerType
      BY TypesOf
    <2>2. /\ Cleared(trk[n][v]).init = trk[n][v].init /\ Cleared(trk[n][v]).expected = trk[n][v].expected
          /\ [trk[n][v] EXCEPT !.init = FALSE].init = FALSE
      BY <1>4, <1>7, <2>1, ClearedIs
    <2>3. \/ trk'[n][v] = trk[n][v] \/ trk'[n][v] = Cleared(trk[n][v])
          \/ trk'[n][v] = [trk[n][v] EXCEPT !.init = FALSE]
      BY <1>1 DEF Touched
    <2> QED
      BY <1>7, <2>2, <2>3, Zenon
  <1>8. Chained'
    BY <1>1, <1>4, <1>6, <1>7, ChainStays, Zenon
  <1>9. ASSUME NEW n \in Nets, rx'[n].at # "done", unit # "cmc" PROVE Reported(n)' <= real'[n].inner + foreign'[n]
    <2>1. Reported(n) <= real[n].inner + foreign[n]
      BY <1>1, <1>9, Zenon DEF LossExact
    <2>2. stats[n].lost \in Nat /\ local[n].lost \in Nat /\ real[n].inner \in Nat /\ foreign[n] \in Nat
      BY TypesOf DEF StatsType, LocalType, WitnessType
    <2>3. stats'[n].lost = stats[n].lost \/ stats'[n].lost = 0
      BY <1>1 DEF NoStats
    <2>4. Reported(n)' = stats'[n].lost + local[n].lost
      BY <1>1, Zenon DEF Reported
    <2>5. real'[n] = real[n] /\ foreign'[n] = foreign[n]
      BY <1>1
    <2> QED
      BY <2>1, <2>2, <2>3, <2>4, <2>5 DEF Reported
  <1>10. LossExact'
    BY <1>1, <1>2, <1>9, Zenon DEF LossExact
  <1> QED
    BY <1>3, <1>5, <1>8, <1>10

-----------------------------------------------------------------------------
(* The CMC's final figures.                                                  *)

LEMMA SumStep ==
  ASSUME NEW S, IsFiniteSet(S), NEW f \in [S -> Int], NEW h \in [S -> Int], NEW x \in S,
         \A y \in S \ {x} : h[y] = f[y]
  PROVE  SumFunction(f) \in Int /\ SumFunction(h) = SumFunction(f) + (h[x] - f[x])
  <1>1. DOMAIN f = S /\ DOMAIN h = S
    OBVIOUS
  <1> QED
    BY <1>1, SumChanges DEF SumFunction

LEMMA GoneType ==
  ASSUME TrafficTypes, NEW n \in Nets
  PROVE  /\ [v \in VLs |-> Gone(n, v)] \in [VLs -> Int] /\ [v \in VLs |-> trk[n][v].count] \in [VLs -> Int]
         /\ IsFiniteSet(VLs)
  <1>1. ASSUME NEW v \in VLs PROVE Gone(n, v) \in Int /\ trk[n][v].count \in Int
    <2>1. trk[n][v].expected \in Nat /\ trk[n][v].count \in Nat
      BY TypesOf, TrackerHas
    <2> QED
      BY <2>1 DEF Gone
  <1>2. IsFiniteSet(VLs)
    BY SettingIs DEF TrafficTypes
  <1> QED
    BY <1>1, <1>2

LEMMA ExactStays ==
  ASSUME NEW m \in Nets, Exact(m), setting' = setting, trk'[m] = trk[m], rx'[m] = rx[m],
         stats'[m] = stats[m], local'[m] = local[m], real'[m] = real[m]
  PROVE  Exact(m)'
  <1>1. VLs' = VLs
    BY SettingStays, Zenon
  <1>2. \A v \in VLs : InHand(m, v)' = InHand(m, v) /\ Gone(m, v)' = Gone(m, v)
    BY Zenon DEF InHand, Gone
  <1>3. \A v \in VLs : Tracked(m, v) => Tracked(m, v)'
    BY <1>2, Zenon DEF Tracked
  <1>4. Missing(m)' = Missing(m)
    <2>1. [v \in VLs |-> Gone(m, v)'] = [v \in VLs |-> Gone(m, v)]
      BY <1>2
    <2> QED
      BY <1>1, <2>1, Zenon DEF Missing
  <1>5. Received(m)' = Received(m)
    BY <1>1, Zenon DEF Received
  <1>6. Verified(m)' = Verified(m) /\ Totalled(m)' = Totalled(m)
    BY Zenon DEF Verified, Totalled
  <1> QED
    BY <1>1, <1>3, <1>4, <1>5, <1>6, Zenon DEF Exact

LEMMA ExactTrack ==
  ASSUME TrafficTypes, Chained, Begun, phase.at = "warmup", NEW n \in Nets, RxTrack(n), Exact(n)
  PROVE  Exact(n)'
  <1> DEFINE p == Head(wire[n])
             t == trk[n][p.vl]
             r == real[n]
             s == IF t.init THEN NextExpected(p, t.expected) ELSE p.seq + 1
             g == IF t.init THEN Gap(p, t.expected) ELSE 0
             tnew == [init |-> TRUE, expected |-> s, max |-> t.max, count |-> t.count]
             rnew == IF p.vl \in r.seen THEN [r EXCEPT !.inner = @ + p.gap]
                     ELSE [r EXCEPT !.lead = @ + p.gap, !.seen = @ \cup {p.vl}]
  <1>1. /\ rx[n].at = "poll" /\ p \in Packets /\ t \in TrackerType /\ s \in Nat /\ r \in WitnessType
        /\ trk' = [trk EXCEPT ![n] = [trk[n] EXCEPT ![p.vl] = tnew]]
        /\ local' = [local EXCEPT ![n] = [local[n] EXCEPT !.lost = @ + g]]
        /\ rx' = [rx EXCEPT ![n] = [at |-> "count", pkt |-> p]]
        /\ real' = [real EXCEPT ![n] = rnew]
        /\ UNCHANGED <<setting, missed, stats, phase, stop, quiet, spent, seq, offset, tx, foreign, compared>>
    BY RxTrackIs
  <1>2. p.vl \in VLs /\ p.gap \in Nat /\ p.seq \in Nat
    BY <1>1, PacketIs
  <1>3. /\ rnew.inner = r.inner + (IF p.vl \in r.seen THEN p.gap ELSE 0)
        /\ rnew.lead = r.lead + (IF p.vl \in r.seen THEN 0 ELSE p.gap)
    BY <1>1, <1>2, WitnessSeen
  <1>4. tnew.init = TRUE /\ tnew.expected = s /\ tnew.max = t.max /\ tnew.count = t.count
    BY Zenon
  <1>5. /\ t.init => p.seq = t.expected + p.gap /\ p.seq >= t.expected
        /\ ~t.init => p.seq = p.gap
    <2>1. Unreset
      BY DEF Unreset
    <2> QED
      BY <2>1, Shows, Zenon
  <1>6. t.expected \in Nat /\ t.max \in Nat /\ t.count \in Nat /\ t.init \in BOOLEAN
    BY <1>1, TrackerHas
  <1>7. s = p.seq + 1
    <2>1. t.init => s = NextExpected(p, t.expected)
      BY Zenon
    <2>2. ~t.init => s = p.seq + 1
      BY Zenon
    <2>3. t.init => NextExpected(p, t.expected) = p.seq + 1
      <3> HIDE DEF p, t
      <3> QED
        BY <1>5 DEF NextExpected
    <2> HIDE DEF s
    <2> QED
      BY <2>1, <2>2, <2>3, Zenon
  <1>8. \A v \in VLs : ~InHand(n, v) /\ Gone(n, v) = trk[n][v].expected - trk[n][v].count
    <2> SUFFICES ASSUME NEW v \in VLs PROVE ~InHand(n, v) /\ Gone(n, v) = trk[n][v].expected - trk[n][v].count
      OBVIOUS
    <2>1. ~InHand(n, v)
      BY <1>1 DEF InHand
    <2>2. trk[n][v].expected \in Nat /\ trk[n][v].count \in Nat
      BY TypesOf, TrackerHas
    <2> QED
      BY <2>1, <2>2 DEF Gone
  <1>9. Tracked(n, p.vl)
    BY <1>2, Zenon DEF Exact
  <1>10. /\ t.expected - t.count >= 0
         /\ t.init => t.expected = t.max + 1
         /\ ~t.init => t.count = 0 /\ t.max = 0 /\ t.expected = 0
    BY <1>2, <1>8, <1>9, Zenon DEF Tracked
  <1> DEFINE vl == p.vl
             number == p.seq
             gap == p.gap
  <1>11. PICK b \in VLs, q \in Nat, gp \in Nat : b = p.vl /\ q = p.seq /\ gp = p.gap
    BY <1>2
  <1>12. VLs' = VLs
    BY <1>1, SettingStays, Zenon
  <1> HIDE DEF p, t, r, s, g, tnew, rnew
  <1>13. rx'[n].at = "count" /\ rx'[n].pkt = p /\ real'[n] = rnew /\ stats'[n] = stats[n]
    <2>1. rx'[n] = [at |-> "count", pkt |-> p]
      BY <1>1, TypesOfAll
    <2>2. real'[n] = rnew /\ stats'[n] = stats[n]
      BY <1>1, TypesOfAll
    <2> QED
      BY <2>1, <2>2
  <1>14. \A v \in VLs : trk'[n][v] = IF v = b THEN tnew ELSE trk[n][v]
    BY <1>1, <1>11, TypesOfAll
  <1>15. \A v \in VLs : InHand(n, v)' <=> v = b
    <2>1. rx'[n].pkt.vl = b
      BY <1>11, <1>13, Zenon
    <2> QED
      BY <1>13, <2>1, Zenon DEF InHand
  <1>16. \A v \in VLs : Gone(n, v)' = IF v = b THEN s - t.count - 1 ELSE Gone(n, v)
    <2> SUFFICES ASSUME NEW v \in VLs PROVE Gone(n, v)' = IF v = b THEN s - t.count - 1 ELSE Gone(n, v)
      OBVIOUS
    <2>1. CASE v = b
      <3>1. trk'[n][v].expected = s /\ trk'[n][v].count = t.count /\ InHand(n, v)'
        BY <1>4, <1>14, <1>15, <2>1, Zenon
      <3> QED
        BY <2>1, <3>1, Zenon DEF Gone
    <2>2. CASE v # b
      <3>1. trk'[n][v] = trk[n][v] /\ ~InHand(n, v)' /\ ~InHand(n, v)
        BY <1>8, <1>14, <1>15, <2>2, Zenon
      <3> QED
        BY <2>2, <3>1, Zenon DEF Gone
    <2> QED
      BY <2>1, <2>2
  <1>17. Gone(n, b) = t.expected - t.count
    BY <1>8, <1>11, Zenon DEF t
  <1>18. s - t.count - 1 >= 0 /\ s - t.count - 1 = Gone(n, b) + gp
    BY <1>5, <1>6, <1>7, <1>10, <1>11, <1>17
  <1>19. ASSUME NEW v \in VLs PROVE Tracked(n, v)'
    <2>1. CASE v = b
      <3>1. trk'[n][v] = tnew /\ InHand(n, v)' /\ Gone(n, v)' >= 0
        BY <1>14, <1>15, <1>16, <1>18, <2>1
      <3>2. t.max <= q
        BY <1>5, <1>6, <1>10, <1>11
      <3>3. rx'[n].pkt.seq = q
        BY <1>11, <1>13, Zenon
      <3>4. s = q + 1
        BY <1>7, <1>11
      <3> QED
        BY <1>4, <3>1, <3>2, <3>3, <3>4, Zenon DEF Tracked
    <2>2. CASE v # b
      <3>1. trk'[n][v] = trk[n][v] /\ ~InHand(n, v)' /\ ~InHand(n, v) /\ Gone(n, v)' = Gone(n, v)
        BY <1>8, <1>14, <1>15, <1>16, <2>2, Zenon
      <3>2. Tracked(n, v)
        BY Zenon DEF Exact
      <3> QED
        BY <3>1, <3>2, Zenon DEF Tracked
    <2> QED
      BY <2>1, <2>2
  <1>20. Missing(n)' = Missing(n) + gp /\ Missing(n) \in Int
    <2> DEFINE f == [v \in VLs |-> Gone(n, v)]
               h == [v \in VLs |-> Gone(n, v)']
    <2>1. f \in [VLs -> Int] /\ IsFiniteSet(VLs)
      BY GoneType
    <2>2. f[b] \in Int /\ f[b] = Gone(n, b) /\ h[b] = f[b] + gp
      BY <1>16, <1>18, <2>1
    <2>3. \A v \in VLs \ {b} : h[v] = f[v]
      BY <1>16
    <2>4. h \in [VLs -> Int]
      <3>1. \A v \in VLs : f[v] \in Int
        BY <2>1
      <3>2. \A v \in VLs : h[v] \in Int
        BY <2>2, <2>3, <3>1
      <3> QED
        BY <3>2
    <2>5. Missing(n)' = SumFunction(h) /\ Missing(n) = SumFunction(f)
      BY <1>12, Zenon DEF Missing
    <2> HIDE DEF f, h
    <2>6. SumFunction(f) \in Int /\ SumFunction(h) = SumFunction(f) + (h[b] - f[b])
      BY <2>1, <2>3, <2>4, SumStep
    <2> QED
      BY <2>2, <2>5, <2>6
  <1>21. Received(n)' = Received(n)
    <2>1. \A v \in VLs : trk'[n][v].count = trk[n][v].count
      BY <1>4, <1>11, <1>14, Zenon DEF t
    <2>2. [v \in VLs |-> trk'[n][v].count] = [v \in VLs |-> trk[n][v].count]
      BY <2>1
    <2> QED
      BY <1>12, <2>2, Zenon DEF Received
  <1>22. Verified(n)' = Verified(n) /\ Totalled(n)' = Totalled(n)
    <2>1. local'[n] = [local[n] EXCEPT !.lost = @ + g] /\ local[n] \in LocalType
      BY <1>1, TypesOfAll
    <2>2. local'[n].good = local[n].good /\ local'[n].bad = local[n].bad
      BY <2>1 DEF LocalType
    <2> QED
      BY <1>13, <2>2, Zenon DEF Verified, Totalled
  <1>23. real'[n].lead + real'[n].inner = real[n].lead + real[n].inner + gp
    <2>1. r.lead \in Nat /\ r.inner \in Nat
      BY <1>1 DEF WitnessType
    <2>2. rnew.lead + rnew.inner = r.lead + r.inner + gp
      BY <1>3, <1>11, <2>1
    <2> QED
      BY <1>13, <2>2 DEF r
  <1>24. /\ Missing(n) = real[n].lead + real[n].inner
         /\ Verified(n) = Received(n) /\ Totalled(n) = Received(n)
    BY Zenon DEF Exact
  <1>25. Missing(n)' = real'[n].lead + real'[n].inner
    BY <1>20, <1>23, <1>24
  <1>26. rx'[n].at # "done"
    BY <1>13
  <1> QED
    BY <1>12, <1>19, <1>21, <1>22, <1>24, <1>25, <1>26, Zenon DEF Exact

(* A packet is counted: what is missing stays, and one more is verified. *)
LEMMA ExactCount ==
  ASSUME TrafficTypes, unit = "cmc", NEW n \in Nets, NEW good \in BOOLEAN, RxCount(n, good), Exact(n)
  PROVE  Exact(n)'
  <1> DEFINE p == rx[n].pkt
             t == trk[n][p.vl]
             e == IF p.seq > t.max THEN p.seq ELSE t.max
             tnew == [init |-> t.init, expected |-> t.expected, max |-> e, count |-> t.count + 1]
             c == IF good THEN [local[n] EXCEPT !.rx = @ + 1, !.good = @ + 1]
                          ELSE [local[n] EXCEPT !.rx = @ + 1, !.bad = @ + 1]
  <1>1. /\ rx[n].at = "count" /\ p \in Packets /\ t \in TrackerType /\ c \in LocalType
        /\ FlushIfDue(n, c) /\ rx' = [rx EXCEPT ![n] = Poll]
        /\ trk' = [trk EXCEPT ![n] = [trk[n] EXCEPT ![p.vl] = tnew]]
        /\ UNCHANGED <<setting, wire, missed, real, phase, stop, quiet, seq, offset, tx, foreign>>
    BY RxCountIs
  <1>2. p.vl \in VLs /\ p.seq \in Nat
    BY <1>1, PacketIs
  <1>3. t.expected \in Nat /\ t.max \in Nat /\ t.count \in Nat /\ t.init \in BOOLEAN
    BY <1>1, TrackerHas
  <1>4. tnew.init = t.init /\ tnew.expected = t.expected /\ tnew.max = e /\ tnew.count = t.count + 1
    BY Zenon
  <1>5. c.lost = local[n].lost /\ c.good + c.bad = local[n].good + local[n].bad + 1
    <2>1. local[n] \in LocalType
      BY TypesOf
    <2> QED
      BY <2>1, CountedIs, Zenon
  <1>6. \A v \in VLs : InHand(n, v) <=> v = p.vl
    BY <1>1, Zenon DEF InHand
  <1>7. Tracked(n, p.vl) /\ InHand(n, p.vl)
    BY <1>2, <1>6, Zenon DEF Exact
  <1>8. t.init /\ t.expected = p.seq + 1 /\ t.max <= p.seq /\ Gone(n, p.vl) >= 0
    BY <1>7, Zenon DEF Tracked
  <1>9. Gone(n, p.vl) = t.expected - t.count - 1
    BY <1>7, Zenon DEF Gone
  <1>10. e = p.seq
    <2> HIDE DEF p, t
    <2> QED
      BY <1>2, <1>3, <1>8
  <1>11. PICK b \in VLs, q \in Nat : b = p.vl /\ q = p.seq
    BY <1>2
  <1>12. VLs' = VLs /\ unit' = unit
    BY <1>1, SettingStays, Zenon
  <1> HIDE DEF p, t, tnew, c, e
  <1>13. rx'[n].at = "poll" /\ real'[n] = real[n]
    <2>1. rx'[n] = Poll
      BY <1>1, TypesOfAll
    <2> QED
      BY <1>1, <2>1 DEF Poll
  <1>14. \A v \in VLs : trk'[n][v] = IF v = b THEN tnew ELSE trk[n][v]
    BY <1>1, <1>11, TypesOfAll
  <1>15. \A v \in VLs : ~InHand(n, v)'
    BY <1>13 DEF InHand
  <1>16. t.expected - (t.count + 1) - 0 = t.expected - t.count - 1
    BY <1>3
  <1>17. \A v \in VLs : Gone(n, v)' = Gone(n, v)
    <2> SUFFICES ASSUME NEW v \in VLs PROVE Gone(n, v)' = Gone(n, v)
      OBVIOUS
    <2>1. CASE v = b
      <3>1. trk'[n][v].expected = t.expected /\ trk'[n][v].count = t.count + 1 /\ ~InHand(n, v)'
        BY <1>4, <1>14, <1>15, <2>1, Zenon
      <3>2. Gone(n, v)' = t.expected - (t.count + 1) - 0
        BY <3>1, Zenon DEF Gone
      <3> QED
        BY <1>9, <1>11, <1>16, <2>1, <3>2, Zenon
    <2>2. CASE v # b
      <3>1. trk'[n][v] = trk[n][v] /\ ~InHand(n, v)' /\ ~InHand(n, v)
        BY <1>6, <1>11, <1>14, <1>15, <2>2, Zenon
      <3> QED
        BY <2>2, <3>1, Zenon DEF Gone
    <2> QED
      BY <2>1, <2>2
  <1>18. ASSUME NEW v \in VLs PROVE Tracked(n, v)'
    <2>1. Tracked(n, v)
      BY Zenon DEF Exact
    <2>2. CASE v = b
      <3>1. trk'[n][v] = tnew /\ ~InHand(n, v)'
        BY <1>14, <1>15, <2>2
      <3>2. Gone(n, v)' >= 0
        BY <1>17, <2>1, Zenon DEF Tracked
      <3>3. tnew.expected = tnew.max + 1 /\ tnew.init
        BY <1>4, <1>8, <1>10
      <3> QED
        BY <3>1, <3>2, <3>3, Zenon DEF Tracked
    <2>3. CASE v # b
      <3>1. trk'[n][v] = trk[n][v] /\ ~InHand(n, v)' /\ ~InHand(n, v) /\ Gone(n, v)' = Gone(n, v)
        BY <1>6, <1>11, <1>14, <1>15, <1>17, <2>3, Zenon
      <3> QED
        BY <2>1, <3>1, Zenon DEF Tracked
    <2> QED
      BY <2>2, <2>3
  <1>19. Missing(n)' = Missing(n)
    <2>1. [v \in VLs |-> Gone(n, v)'] = [v \in VLs |-> Gone(n, v)]
      BY <1>17
    <2> QED
      BY <1>12, <2>1, Zenon DEF Missing
  <1>20. Received(n)' = Received(n) + 1 /\ Received(n) \in Int
    <2> DEFINE f == [v \in VLs |-> trk[n][v].count]
               h == [v \in VLs |-> trk'[n][v].count]
    <2>1. f \in [VLs -> Int] /\ IsFiniteSet(VLs)
      BY GoneType
    <2>2. h[b] = f[b] + 1 /\ f[b] \in Int
      <3>1. trk'[n][b].count = t.count + 1 /\ trk[n][b].count = t.count
        BY <1>4, <1>11, <1>14, Zenon DEF t
      <3> QED
        BY <2>1, <3>1
    <2>3. \A v \in VLs \ {b} : h[v] = f[v]
      BY <1>14
    <2>4. h \in [VLs -> Int]
      <3>1. \A v \in VLs : f[v] \in Int
        BY <2>1
      <3>2. \A v \in VLs : h[v] \in Int
        BY <2>2, <2>3, <3>1
      <3> QED
        BY <3>2
    <2>5. Received(n)' = SumFunction(h) /\ Received(n) = SumFunction(f)
      BY <1>12, Zenon DEF Received
    <2> HIDE DEF f, h
    <2>6. SumFunction(f) \in Int /\ SumFunction(h) = SumFunction(f) + (h[b] - f[b])
      BY <2>1, <2>3, <2>4, SumStep
    <2> QED
      BY <2>2, <2>5, <2>6
  <1>21. Verified(n)' = Verified(n) + 1 /\ Totalled(n)' = Totalled(n) + 1
    <2>1. PICK l \in LocalType, s \in StatsType :
            /\ local' = [local EXCEPT ![n] = l] /\ stats' = [stats EXCEPT ![n] = s]
            /\ s.good + l.good = stats[n].good + c.good /\ s.bad + l.bad = stats[n].bad + c.bad
            /\ unit = "cmc" => s.total + l.good + l.bad = stats[n].total + c.good + c.bad
      BY <1>1, FlushIs
    <2>2. local'[n] = l /\ stats'[n] = s
      BY <2>1, TypesOfAll
    <2>3. /\ l.good \in Nat /\ l.bad \in Nat /\ s.good \in Nat /\ s.bad \in Nat /\ s.total \in Nat
          /\ c.good \in Nat /\ c.bad \in Nat
      BY <1>1 DEF LocalType, StatsType
    <2>4. /\ local[n].good \in Nat /\ local[n].bad \in Nat /\ stats[n].good \in Nat /\ stats[n].bad \in Nat
          /\ stats[n].total \in Nat
      BY TypesOf DEF LocalType, StatsType
    <2>8. /\ s.good + l.good = stats[n].good + c.good /\ s.bad + l.bad = stats[n].bad + c.bad
          /\ s.total + l.good + l.bad = stats[n].total + c.good + c.bad
      BY <2>1, Zenon
    <2>9. c.good + c.bad = local[n].good + local[n].bad + 1
      BY <1>5
    <2>5. s.good + s.bad + l.good + l.bad = stats[n].good + stats[n].bad + local[n].good + local[n].bad + 1
      <3>1. s.good + s.bad + l.good + l.bad = (stats[n].good + stats[n].bad) + (c.good + c.bad)
        BY <2>3, <2>4, <2>8
      <3> QED
        BY <2>4, <2>9, <3>1
    <2>6. s.total + l.good + l.bad = stats[n].total + local[n].good + local[n].bad + 1
      BY <2>3, <2>4, <2>8, <2>9
    <2>7. /\ Verified(n)' = s.good + s.bad + l.good + l.bad
          /\ Totalled(n)' = s.total + l.good + l.bad
      BY <2>2, Zenon DEF Verified, Totalled
    <2> QED
      BY <2>5, <2>6, <2>7, Zenon DEF Verified, Totalled
  <1>22. /\ Missing(n) = real[n].lead + real[n].inner
         /\ Verified(n) = Received(n) /\ Totalled(n) = Received(n)
    BY Zenon DEF Exact
  <1>23. rx'[n].at # "done"
    BY <1>13
  <1>24. Missing(n)' = real'[n].lead + real'[n].inner
    BY <1>13, <1>19, <1>22
  <1>25. Verified(n)' = Received(n)' /\ Totalled(n)' = Received(n)'
    BY <1>20, <1>21, <1>22
  <1> QED
    BY <1>12, <1>18, <1>23, <1>24, <1>25, Zenon DEF Exact

(* Other packets leave the trackers and the verified ones alone. *)
LEMMA ExactOther ==
  ASSUME TrafficTypes, unit = "cmc", NEW n \in Nets, OtherStep(n), Exact(n)
  PROVE  Exact(n)'
  <1>1. PICK c \in LocalType :
          /\ FlushIfDue(n, c) /\ c.bad = local[n].bad /\ c.good = local[n].good /\ rx[n].at = "poll"
          /\ UNCHANGED <<setting, wire, missed, rx, trk, real, phase, stop, quiet, seq, offset, tx>>
    BY OtherIs
  <1>2. local[n].good \in Nat /\ local[n].bad \in Nat /\ stats[n].good \in Nat /\ stats[n].bad \in Nat
        /\ stats[n].total \in Nat
    BY TypesOf DEF LocalType, StatsType
  <1>3. c.good = local[n].good
    BY <1>1
  <1>4. PICK l \in LocalType, s \in StatsType :
          /\ local' = [local EXCEPT ![n] = l] /\ stats' = [stats EXCEPT ![n] = s]
          /\ s.good + l.good = stats[n].good + c.good /\ s.bad + l.bad = stats[n].bad + c.bad
          /\ unit = "cmc" => s.total + l.good + l.bad = stats[n].total + c.good + c.bad
    BY <1>1, FlushIs
  <1>5. local'[n] = l /\ stats'[n] = s
    BY <1>4, TypesOfAll
  <1>6. /\ l.good \in Nat /\ l.bad \in Nat /\ s.good \in Nat /\ s.bad \in Nat /\ s.total \in Nat
        /\ c.good \in Nat /\ c.bad \in Nat
    BY DEF LocalType, StatsType
  <1>16. c.bad = local[n].bad
    BY <1>1
  <1>17. /\ s.good + l.good = stats[n].good + local[n].good /\ s.bad + l.bad = stats[n].bad + local[n].bad
         /\ s.total + l.good + l.bad = stats[n].total + local[n].good + local[n].bad
    BY <1>3, <1>4, <1>16, Zenon
  <1>18. /\ s.good \in Nat /\ l.good \in Nat /\ stats[n].good \in Nat /\ local[n].good \in Nat
         /\ s.bad \in Nat /\ l.bad \in Nat /\ stats[n].bad \in Nat /\ local[n].bad \in Nat
    BY <1>2, <1>6, Zenon
  <1>7. s.good + s.bad + l.good + l.bad = stats[n].good + stats[n].bad + local[n].good + local[n].bad
    BY <1>17, <1>18
  <1>8. s.total + l.good + l.bad = stats[n].total + local[n].good + local[n].bad
    BY <1>17
  <1>9. Verified(n)' = Verified(n) /\ Totalled(n)' = Totalled(n)
    BY <1>5, <1>7, <1>8, Zenon DEF Verified, Totalled
  <1>10. VLs' = VLs
    BY <1>1, SettingStays, Zenon
  <1>11. \A v \in VLs : InHand(n, v)' = InHand(n, v) /\ Gone(n, v)' = Gone(n, v)
    BY <1>1, Zenon DEF InHand, Gone
  <1>12. \A v \in VLs : Tracked(n, v) => Tracked(n, v)'
    BY <1>1, <1>11, Zenon DEF Tracked
  <1>13. Missing(n)' = Missing(n)
    <2>1. [v \in VLs |-> Gone(n, v)'] = [v \in VLs |-> Gone(n, v)]
      BY <1>11
    <2> QED
      BY <1>10, <2>1, Zenon DEF Missing
  <1>14. Received(n)' = Received(n)
    BY <1>1, <1>10, Zenon DEF Received
  <1>15. rx'[n].at # "done"
    BY <1>1
  <1> QED
    BY <1>1, <1>9, <1>10, <1>12, <1>13, <1>14, <1>15, Zenon DEF Exact

(* The watermark finds what is missing. *)
LEMMA WatermarkExact ==
  ASSUME TrafficTypes, NEW n \in Nets, rx[n].at = "poll", Exact(n)
  PROVE  Watermark(n) = Missing(n)
  <1>1. ASSUME NEW v \in VLs PROVE LostOf(trk[n][v]) = Gone(n, v)
    <2> DEFINE t == trk[n][v]
    <2>1. t.expected \in Nat /\ t.max \in Nat /\ t.count \in Nat
      BY TypesOf, TrackerHas
    <2>2. ~InHand(n, v)
      BY DEF InHand
    <2>3. Tracked(n, v)
      BY Zenon DEF Exact
    <2>4. Gone(n, v) = t.expected - t.count
      BY <2>1, <2>2 DEF Gone
    <2>5. /\ Gone(n, v) >= 0 /\ (t.init => t.expected = t.max + 1)
          /\ ~t.init => t.count = 0 /\ t.expected = 0
      BY <2>2, <2>3, Zenon DEF Tracked
    <2>6. CASE t.init
      <3>1. LostOf(t) = IF t.max + 1 > t.count THEN t.max + 1 - t.count ELSE 0
        BY <2>6, Zenon DEF LostOf
      <3> HIDE DEF t
      <3>4. t.expected = t.max + 1 /\ Gone(n, v) >= 0
        BY <2>5, <2>6, Zenon
      <3>3. Gone(n, v) = t.max + 1 - t.count
        BY <2>1, <2>4, <3>4
      <3>2. LostOf(t) = t.max + 1 - t.count
        BY <2>1, <3>1, <3>3, <3>4
      <3> QED
        BY <3>2, <3>3, Zenon DEF t
    <2>7. CASE ~t.init
      <3>1. LostOf(t) = 0
        BY <2>7, Zenon DEF LostOf
      <3> HIDE DEF t
      <3>2. Gone(n, v) = 0
        BY <2>4, <2>5, <2>7
      <3> QED
        BY <3>1, <3>2 DEF t
    <2> QED
      BY <2>6, <2>7, Zenon
  <1>2. [v \in VLs |-> LostOf(trk[n][v])] = [v \in VLs |-> Gone(n, v)]
    BY <1>1
  <1> QED
    BY <1>2, Zenon DEF Watermark, Missing

LEMMA ExactQuit ==
  ASSUME TrafficTypes, unit = "cmc", NEW n \in Nets, RxQuit(n), Exact(n)
  PROVE  Exact(n)'
  <1>1. PICK s \in StatsType :
          /\ stats' = [stats EXCEPT ![n] = s] /\ local' = [local EXCEPT ![n] = Zero]
          /\ rx[n].at = "poll" /\ rx' = [rx EXCEPT ![n].at = "done"]
          /\ UNCHANGED <<setting, wire, missed, trk, phase, stop, quiet, spent, real, seq, offset, tx,
                         foreign, compared>>
          /\ s.good = stats[n].good + local[n].good /\ s.bad = stats[n].bad + local[n].bad
          /\ unit = "cmc" => /\ s.total = stats[n].total + local[n].good + local[n].bad
                             /\ s.lost = Watermark(n)
    BY RxQuitIs
  <1>2. stats'[n] = s /\ local'[n] = Zero /\ Zero.good = 0 /\ Zero.bad = 0 /\ rx'[n].at = "done"
    <2>1. stats'[n] = s /\ local'[n] = Zero
      BY <1>1, TypesOfAll
    <2>2. Zero.good = 0 /\ Zero.bad = 0
      BY DEF Zero
    <2>3. rx'[n] = [rx[n] EXCEPT !.at = "done"] /\ rx[n] \in RxType
      BY <1>1, TypesOfAll
    <2>4. rx'[n].at = "done"
      BY <2>3 DEF RxType
    <2> QED
      BY <2>1, <2>2, <2>4
  <1>3. local[n].good \in Nat /\ local[n].bad \in Nat /\ stats[n].good \in Nat /\ stats[n].bad \in Nat
        /\ stats[n].total \in Nat /\ s.good \in Nat /\ s.bad \in Nat /\ s.total \in Nat
    BY TypesOf DEF LocalType, StatsType
  <1>4. s.good + s.bad + 0 + 0 = stats[n].good + stats[n].bad + local[n].good + local[n].bad
    BY <1>1, <1>3
  <1>5. s.total + 0 + 0 = stats[n].total + local[n].good + local[n].bad
    BY <1>1, <1>3
  <1>6. Verified(n)' = Verified(n) /\ Totalled(n)' = Totalled(n)
    BY <1>2, <1>4, <1>5, Zenon DEF Verified, Totalled
  <1>7. VLs' = VLs
    BY <1>1, SettingStays, Zenon
  <1>8. \A v \in VLs : ~InHand(n, v) /\ ~InHand(n, v)'
    BY <1>1, <1>2 DEF InHand
  <1>9. \A v \in VLs : Gone(n, v)' = Gone(n, v)
    BY <1>1, <1>8, Zenon DEF Gone
  <1>10. \A v \in VLs : Tracked(n, v) => Tracked(n, v)'
    BY <1>1, <1>8, <1>9, Zenon DEF Tracked
  <1>11. Missing(n)' = Missing(n)
    <2>1. [v \in VLs |-> Gone(n, v)'] = [v \in VLs |-> Gone(n, v)]
      BY <1>9
    <2> QED
      BY <1>7, <2>1, Zenon DEF Missing
  <1>12. Received(n)' = Received(n)
    BY <1>1, <1>7, Zenon DEF Received
  <1>13. s.lost = real[n].lead + real[n].inner
    BY <1>1, WatermarkExact, Zenon DEF Exact
  <1> QED
    BY <1>1, <1>2, <1>6, <1>7, <1>10, <1>11, <1>12, <1>13, Zenon DEF Exact

LEMMA CountedKept ==
  ASSUME TrafficTypes, Chained, Begun, Counted, [TrafficNext]_trafficVars
  PROVE  Counted'
  <1>1. setting' = setting
    BY SettingKept DEF trafficVars
  <1>2. unit' = unit /\ Nets' = Nets
    BY <1>1, SettingStays, Zenon
  <1> SUFFICES ASSUME unit = "cmc", phase'.at = "warmup", NEW m \in Nets
               PROVE  Exact(m)'
    BY <1>2, Zenon DEF Counted
  <1>3. ~ResetStep
    BY ResetIs
  <1>4. phase' = phase
    BY <1>3, Zenon DEF TrafficNext, trafficVars, TxStep, TxQuit, TxSend, TxSendFull, TxTwinFull, OnlyOnA,
                       TxCommitLoad, TxCommitStore, Quiesce, Stop, RxStep, RxTrack, RxCount, RxOther,
                       RxForeign, RxQuit, Lose, mainVars
  <1>5. Exact(m) /\ phase.at = "warmup"
    BY <1>4, Zenon DEF Counted
  <1>6. CASE TxStep \/ Quiesce \/ Stop \/ (\E n \in Nets : Lose(n)) \/ UNCHANGED trafficVars
    <2>1. trk' = trk /\ rx' = rx /\ stats' = stats /\ local' = local /\ real' = real
      <3>1. CASE TxStep
        BY <3>1, Zenon DEF TxStep, TxQuit, TxSend, TxSendFull, TxTwinFull, OnlyOnA, TxCommitLoad, TxCommitStore,
                           mainVars, rxVars
      <3>2. CASE Quiesce \/ Stop
        BY <3>2, Zenon DEF Quiesce, Stop, Running
      <3>3. CASE \E n \in Nets : Lose(n)
        BY <3>3, LoseIs
      <3>4. CASE UNCHANGED trafficVars
        BY <3>4 DEF trafficVars
      <3> QED
        BY <1>6, <3>1, <3>2, <3>3, <3>4
    <2> QED
      BY <1>1, <1>5, <2>1, ExactStays, Zenon
  <1>7. ASSUME NEW n \in Nets, RxStep(n) PROVE Exact(m)'
    <2>1. CASE m # n
      <3>1. /\ trk'[m] = trk[m] /\ rx'[m] = rx[m] /\ stats'[m] = stats[m] /\ local'[m] = local[m]
            /\ real'[m] = real[m]
        <4>1. ASSUME RxTrack(n)
              PROVE  /\ trk'[m] = trk[m] /\ rx'[m] = rx[m] /\ stats'[m] = stats[m] /\ local'[m] = local[m]
                     /\ real'[m] = real[m]
          <5>1. \E x : trk' = [trk EXCEPT ![n] = x]
            BY <4>1, RxTrackIs, Zenon
          <5>2. \E x : local' = [local EXCEPT ![n] = x]
            BY <4>1, RxTrackIs, Zenon
          <5>3. \E x : rx' = [rx EXCEPT ![n] = x]
            BY <4>1, RxTrackIs, Zenon
          <5>4. \E x : real' = [real EXCEPT ![n] = x]
            BY <4>1, RxTrackIs, Zenon
          <5>5. stats' = stats
            BY <4>1, Zenon DEF RxTrack
          <5> QED
            BY <2>1, <5>1, <5>2, <5>3, <5>4, <5>5, TypesOfAll
        <4>2. ASSUME NEW c \in LocalType, FlushIfDue(n, c) PROVE stats'[m] = stats[m] /\ local'[m] = local[m]
          <5>1. PICK l \in LocalType, s \in StatsType :
                  local' = [local EXCEPT ![n] = l] /\ stats' = [stats EXCEPT ![n] = s]
            BY <4>2, FlushIs
          <5>2. stats \in [Nets -> StatsType] /\ local \in [Nets -> LocalType]
            BY TypesOfAll
          <5>3. stats'[m] = stats[m]
            BY <2>1, <5>1, <5>2, Zenon
          <5>4. local'[m] = local[m]
            BY <2>1, <5>1, <5>2, Zenon
          <5> QED
            BY <5>3, <5>4
        <4>3. ASSUME NEW good \in BOOLEAN, RxCount(n, good)
              PROVE  /\ trk'[m] = trk[m] /\ rx'[m] = rx[m] /\ stats'[m] = stats[m] /\ local'[m] = local[m]
                     /\ real'[m] = real[m]
          <5>1. \E x, z : /\ trk' = [trk EXCEPT ![n] = x] /\ rx' = [rx EXCEPT ![n] = z] /\ real' = real
            BY <4>3, RxCountIs, Zenon
          <5>2. \E c \in LocalType : FlushIfDue(n, c)
            BY <4>3, RxCountIs, Zenon
          <5>3. trk'[m] = trk[m] /\ rx'[m] = rx[m] /\ real'[m] = real[m]
            BY <2>1, <5>1, TypesOfAll
          <5> QED
            BY <4>2, <5>2, <5>3
        <4>4. ASSUME OtherStep(n)
              PROVE  /\ trk'[m] = trk[m] /\ rx'[m] = rx[m] /\ stats'[m] = stats[m] /\ local'[m] = local[m]
                     /\ real'[m] = real[m]
          <5>1. \E c \in LocalType : FlushIfDue(n, c)
            BY <4>4, OtherIs, Zenon
          <5>2. trk' = trk /\ rx' = rx /\ real' = real
            BY <4>4, OtherIs, Zenon
          <5> QED
            BY <4>2, <5>1, <5>2
        <4>5. ASSUME RxQuit(n)
              PROVE  /\ trk'[m] = trk[m] /\ rx'[m] = rx[m] /\ stats'[m] = stats[m] /\ local'[m] = local[m]
                     /\ real'[m] = real[m]
          <5>1. PICK s \in StatsType : stats' = [stats EXCEPT ![n] = s] /\ local' = [local EXCEPT ![n] = Zero]
            BY <4>5, RxQuitIs, Zenon
          <5>2. rx' = [rx EXCEPT ![n].at = "done"] /\ trk' = trk /\ real' = real
            BY <4>5, Zenon DEF RxQuit
          <5> QED
            BY <2>1, <5>1, <5>2, TypesOfAll
        <4> QED
          BY <1>7, <4>1, <4>3, <4>4, <4>5 DEF RxStep, OtherStep
      <3> QED
        BY <1>1, <1>5, <3>1, ExactStays
    <2>2. CASE m = n
      BY <1>5, <1>7, <2>2, ExactTrack, ExactCount, ExactOther, ExactQuit DEF RxStep, OtherStep
    <2> QED
      BY <2>1, <2>2
  <1> QED
    BY <1>3, <1>6, <1>7 DEF TrafficNext

-----------------------------------------------------------------------------
(* The figures of every unit hold what was compared, the local counters      *)
(* included; the reset leaves less than one flush of the packets before it.  *)
Figures(n) ==
  /\ local[n].rx < Flush /\ local[n].good + local[n].bad <= local[n].rx
  /\ rx[n].at = "done" => local[n].good = 0 /\ local[n].bad = 0
  /\ phase.at # "test" => Verified(n) = compared[n]
  /\ Verified(n) < compared[n] + Flush
AllCompared == \A n \in Nets : Figures(n)

LEMMA VerifiedIs ==
  ASSUME TrafficTypes, NEW n \in Nets
  PROVE  /\ local[n].rx \in Nat /\ local[n].good \in Nat /\ local[n].bad \in Nat
         /\ stats[n].good \in Nat /\ stats[n].bad \in Nat /\ compared[n] \in Nat
         /\ Verified(n) \in Nat /\ Flush \in Nat \ {0}
  <1>1. /\ local[n].rx \in Nat /\ local[n].good \in Nat /\ local[n].bad \in Nat
        /\ stats[n].good \in Nat /\ stats[n].bad \in Nat /\ compared[n] \in Nat
    BY TypesOf DEF LocalType, StatsType
  <1>2. Flush \in Nat \ {0}
    BY SettingIs DEF TrafficTypes
  <1> QED
    BY <1>1, <1>2 DEF Verified

LEMMA FiguresStay ==
  ASSUME NEW n \in Nets, Figures(n), local'[n] = local[n], stats'[n] = stats[n], compared'[n] = compared[n],
         rx'[n].at = "done" => rx[n].at = "done", phase' = phase
  PROVE  Figures(n)'
  BY Zenon DEF Figures, Verified

(* A packet is counted, and flushed or not. *)
LEMMA FiguresCount ==
  ASSUME TrafficTypes, NEW n \in Nets, Figures(n), NEW c \in LocalType, FlushIfDue(n, c), NEW one \in {0, 1},
         c.rx = local[n].rx + 1, c.good + c.bad = local[n].good + local[n].bad + one,
         compared'[n] = compared[n] + one, rx'[n].at # "done", phase' = phase
  PROVE  Figures(n)'
  <1>1. PICK l \in LocalType, s \in StatsType :
          /\ local' = [local EXCEPT ![n] = l] /\ stats' = [stats EXCEPT ![n] = s]
          /\ s.good + l.good = stats[n].good + c.good /\ s.bad + l.bad = stats[n].bad + c.bad
          /\ l.rx < Flush /\ (c.good + c.bad <= c.rx => l.good + l.bad <= l.rx)
    BY FlushIs
  <1>2. local'[n] = l /\ stats'[n] = s
    BY <1>1, TypesOfAll
  <1>3. /\ l.good \in Nat /\ l.bad \in Nat /\ s.good \in Nat /\ s.bad \in Nat /\ c.good \in Nat /\ c.bad \in Nat
    BY DEF LocalType, StatsType
  <1>4. /\ local[n].rx \in Nat /\ local[n].good \in Nat /\ local[n].bad \in Nat
        /\ stats[n].good \in Nat /\ stats[n].bad \in Nat /\ compared[n] \in Nat
        /\ Verified(n) \in Nat /\ Flush \in Nat \ {0}
    BY VerifiedIs
  <1>5. /\ local[n].good + local[n].bad <= local[n].rx
        /\ phase.at # "test" => Verified(n) = compared[n]
        /\ Verified(n) < compared[n] + Flush
    BY Zenon DEF Figures
  <1>6. Verified(n)' = s.good + s.bad + l.good + l.bad
    BY <1>2, Zenon DEF Verified
  <1>7. s.good + s.bad + l.good + l.bad = (stats[n].good + stats[n].bad) + (c.good + c.bad)
    <2>1. /\ s.good + l.good = stats[n].good + c.good /\ s.bad + l.bad = stats[n].bad + c.bad
      BY <1>1
    <2>2. s.good + s.bad + l.good + l.bad = (s.good + l.good) + (s.bad + l.bad)
      BY <1>3
    <2>3. (stats[n].good + stats[n].bad) + (c.good + c.bad)
            = (stats[n].good + c.good) + (stats[n].bad + c.bad)
      BY <1>3, <1>4
    <2> QED
      BY <2>1, <2>2, <2>3, Zenon
  <1>8. Verified(n)' = Verified(n) + one
    <2>1. c.good + c.bad = local[n].good + local[n].bad + one
      OBVIOUS
    <2> QED
      BY <1>4, <1>6, <1>7, <2>1 DEF Verified
  <1>9. l.good + l.bad <= l.rx /\ l.rx < Flush
    <2>1. c.good + c.bad <= c.rx
      BY <1>4, <1>5
    <2> QED
      BY <1>1, <2>1
  <1>10. /\ phase.at # "test" => Verified(n)' = compared'[n]
         /\ Verified(n)' < compared'[n] + Flush
    BY <1>4, <1>5, <1>8
  <1> QED
    BY <1>2, <1>9, <1>10, Zenon DEF Figures

LEMMA FiguresTrack == ASSUME TrafficTypes, NEW n \in Nets, Figures(n), RxTrack(n) PROVE Figures(n)'
  <1> DEFINE p == Head(wire[n])
             t == trk[n][p.vl]
             g == IF t.init THEN Gap(p, t.expected) ELSE 0
  <1>1. /\ local' = [local EXCEPT ![n] = [local[n] EXCEPT !.lost = @ + g]]
        /\ rx' = [rx EXCEPT ![n] = [at |-> "count", pkt |-> p]]
        /\ UNCHANGED <<stats, phase, compared>>
    BY RxTrackIs
  <1> HIDE DEF p, t, g
  <1>2. local'[n] = [local[n] EXCEPT !.lost = @ + g] /\ local[n] \in LocalType
    BY <1>1, TypesOfAll
  <1>3. local'[n].rx = local[n].rx /\ local'[n].good = local[n].good /\ local'[n].bad = local[n].bad
    BY <1>2 DEF LocalType
  <1>4. rx'[n].at # "done"
    BY <1>1, TypesOfAll
  <1> QED
    BY <1>1, <1>3, <1>4, Zenon DEF Figures, Verified

LEMMA FiguresQuit == ASSUME TrafficTypes, NEW n \in Nets, Figures(n), RxQuit(n) PROVE Figures(n)'
  <1>1. PICK s \in StatsType :
          /\ stats' = [stats EXCEPT ![n] = s] /\ local' = [local EXCEPT ![n] = Zero]
          /\ s.good = stats[n].good + local[n].good /\ s.bad = stats[n].bad + local[n].bad
          /\ UNCHANGED <<setting, wire, missed, trk, phase, stop, quiet, spent, real, seq, offset, tx,
                         foreign, compared>>
    BY RxQuitIs
  <1>2. stats'[n] = s /\ local'[n] = Zero
    BY <1>1, TypesOfAll
  <1>3. local'[n].rx = 0 /\ local'[n].good = 0 /\ local'[n].bad = 0
    BY <1>2 DEF Zero
  <1>4. /\ local[n].rx \in Nat /\ local[n].good \in Nat /\ local[n].bad \in Nat
        /\ stats[n].good \in Nat /\ stats[n].bad \in Nat /\ compared[n] \in Nat
        /\ Verified(n) \in Nat /\ Flush \in Nat \ {0}
    BY VerifiedIs
  <1>5. s.good + s.bad + 0 + 0 = stats[n].good + stats[n].bad + local[n].good + local[n].bad
    <2>1. s.good = stats[n].good + local[n].good /\ s.bad = stats[n].bad + local[n].bad
      BY <1>1
    <2> QED
      BY <1>4, <2>1
  <1>6. Verified(n)' = Verified(n)
    BY <1>2, <1>3, <1>5, Zenon DEF Verified
  <1>7. /\ local'[n].rx < Flush /\ local'[n].good + local'[n].bad <= local'[n].rx
    BY <1>3, <1>4
  <1>8. compared' = compared /\ phase' = phase
    BY <1>1
  <1> QED
    BY <1>3, <1>6, <1>7, <1>8, Zenon DEF Figures

LEMMA FiguresReset == ASSUME TrafficTypes, NEW n \in Nets, Figures(n), ResetStep PROVE Figures(n)'
  <1>1. /\ rx' = rx /\ local' = local /\ phase.at # "test"
        /\ \/ stats' = stats /\ compared' = compared /\ phase'.at # "test"
           \/ stats' = [m \in Nets |-> NoStats] /\ compared' = [m \in Nets |-> 0] /\ phase'.at = "test"
    BY ResetIs
  <1>2. CASE stats' = stats /\ compared' = compared /\ phase'.at # "test"
    BY <1>1, <1>2, Zenon DEF Figures, Verified
  <1>3. CASE stats' = [m \in Nets |-> NoStats] /\ compared' = [m \in Nets |-> 0] /\ phase'.at = "test"
    <2>1. stats'[n].good = 0 /\ stats'[n].bad = 0 /\ compared'[n] = 0
      BY <1>3 DEF NoStats
    <2>2. /\ local[n].rx \in Nat /\ local[n].good \in Nat /\ local[n].bad \in Nat /\ Flush \in Nat \ {0}
      BY VerifiedIs
    <2>3. local[n].rx < Flush /\ local[n].good + local[n].bad <= local[n].rx
      BY Zenon DEF Figures
    <2>4. 0 + 0 + local[n].good + local[n].bad < 0 + Flush
      BY <2>2, <2>3
    <2>5. Verified(n)' < compared'[n] + Flush
      BY <1>1, <2>1, <2>4, Zenon DEF Verified
    <2> QED
      BY <1>1, <1>3, <2>5, Zenon DEF Figures
  <1> QED
    BY <1>1, <1>2, <1>3

LEMMA ComparedKept == ASSUME TrafficTypes, AllCompared, [TrafficNext]_trafficVars PROVE AllCompared'
  <1>1. Nets' = Nets
    BY SettingKept, SettingStays DEF trafficVars
  <1> SUFFICES ASSUME NEW m \in Nets PROVE Figures(m)'
    BY <1>1, Zenon DEF AllCompared
  <1>2. Figures(m)
    BY DEF AllCompared
  <1>3. CASE ResetStep
    BY <1>2, <1>3, FiguresReset
  <1>4. CASE TxStep \/ Quiesce \/ Stop \/ (\E n \in Nets : Lose(n)) \/ UNCHANGED trafficVars
    <2>1. rx' = rx /\ stats' = stats /\ local' = local /\ compared' = compared /\ phase' = phase
      <3>1. CASE TxStep
        BY <3>1, Zenon DEF TxStep, TxQuit, TxSend, TxSendFull, TxTwinFull, OnlyOnA, TxCommitLoad, TxCommitStore,
                           mainVars, rxVars
      <3>2. CASE Quiesce \/ Stop
        BY <3>2, Zenon DEF Quiesce, Stop, Running
      <3>3. CASE \E n \in Nets : Lose(n)
        BY <3>3, LoseIs
      <3>4. CASE UNCHANGED trafficVars
        BY <3>4 DEF trafficVars
      <3> QED
        BY <1>4, <3>1, <3>2, <3>3, <3>4
    <2> QED
      BY <1>2, <2>1, FiguresStay, Zenon
  <1>5. ASSUME NEW n \in Nets, RxStep(n) PROVE Figures(m)'
    <2>1. phase' = phase
      BY <1>5, Zenon DEF RxStep, RxTrack, RxCount, RxOther, RxForeign, RxQuit, mainVars
    <2>2. ASSUME NEW c \in LocalType, FlushIfDue(n, c), m # n
          PROVE  local'[m] = local[m] /\ stats'[m] = stats[m]
      <3>1. PICK l \in LocalType, s \in StatsType :
              local' = [local EXCEPT ![n] = l] /\ stats' = [stats EXCEPT ![n] = s]
        BY <2>2, FlushIs
      <3>2. local \in [Nets -> LocalType] /\ stats \in [Nets -> StatsType]
        BY TypesOfAll
      <3> QED
        BY <2>2, <3>1, <3>2
    <2>3. CASE RxTrack(n)
      <3>1. CASE m = n
        BY <1>2, <2>3, <3>1, FiguresTrack
      <3>2. CASE m # n
        <4>1. \E x : local' = [local EXCEPT ![n] = x]
          BY <2>3, RxTrackIs, Zenon
        <4>2. \E x : rx' = [rx EXCEPT ![n] = x]
          BY <2>3, RxTrackIs, Zenon
        <4>3. stats' = stats /\ compared' = compared
          BY <2>3, Zenon DEF RxTrack
        <4>4. local'[m] = local[m] /\ rx'[m] = rx[m]
          BY <3>2, <4>1, <4>2, TypesOfAll
        <4> QED
          BY <1>2, <2>1, <4>3, <4>4, FiguresStay, Zenon
      <3> QED
        BY <3>1, <3>2
    <2>4. ASSUME NEW good \in BOOLEAN, RxCount(n, good) PROVE Figures(m)'
      <3> DEFINE c == IF good THEN [local[n] EXCEPT !.rx = @ + 1, !.good = @ + 1]
                              ELSE [local[n] EXCEPT !.rx = @ + 1, !.bad = @ + 1]
      <3>1. /\ c \in LocalType /\ FlushIfDue(n, c) /\ rx' = [rx EXCEPT ![n] = Poll]
            /\ compared' = [compared EXCEPT ![n] = @ + 1]
        BY <2>4, RxCountIs
      <3>2. c.rx = local[n].rx + 1 /\ c.good + c.bad = local[n].good + local[n].bad + 1
        <4>1. local[n] \in LocalType
          BY TypesOf
        <4> QED
          BY <4>1, CountedIs, Zenon
      <3> HIDE DEF c
      <3>3. compared'[m] = compared[m] + (IF m = n THEN 1 ELSE 0) /\ compared[m] \in Nat
        BY <3>1, MoreOf, TypesOfAll
      <3>4. rx'[m] = IF m = n THEN Poll ELSE rx[m]
        BY <3>1, TypesOfAll
      <3>5. CASE m = n
        <4>1. rx'[n].at # "done"
          BY <3>4, <3>5 DEF Poll
        <4>2. compared'[n] = compared[n] + 1 /\ 1 \in {0, 1}
          BY <3>3, <3>5
        <4> QED
          BY <1>2, <2>1, <3>1, <3>2, <3>5, <4>1, <4>2, FiguresCount
      <3>6. CASE m # n
        <4>1. compared'[m] = compared[m] /\ rx'[m] = rx[m]
          BY <3>3, <3>4, <3>6
        <4>2. local'[m] = local[m] /\ stats'[m] = stats[m]
          BY <2>2, <3>1, <3>6
        <4> QED
          BY <1>2, <2>1, <4>1, <4>2, FiguresStay, Zenon
      <3> QED
        BY <3>5, <3>6
    <2>5. ASSUME OtherStep(n) PROVE Figures(m)'
      <3>1. PICK c \in LocalType, one \in {0, 1} :
              /\ FlushIfDue(n, c) /\ c.rx = local[n].rx + 1 /\ rx[n].at = "poll"
              /\ c.good + c.bad = local[n].good + local[n].bad + one
              /\ compared' = [compared EXCEPT ![n] = @ + one] /\ rx' = rx
        BY <2>5, OtherIs
      <3>2. compared'[m] = compared[m] + (IF m = n THEN one ELSE 0) /\ compared[m] \in Nat
        BY <3>1, MoreOf, TypesOfAll
      <3>3. CASE m = n
        <4>1. rx'[n].at # "done"
          BY <3>1
        <4>2. compared'[n] = compared[n] + one
          BY <3>2, <3>3
        <4> QED
          BY <1>2, <2>1, <3>1, <3>3, <4>1, <4>2, FiguresCount
      <3>4. CASE m # n
        <4>1. compared'[m] = compared[m] /\ rx'[m] = rx[m]
          BY <3>1, <3>2, <3>4
        <4>2. local'[m] = local[m] /\ stats'[m] = stats[m]
          BY <2>2, <3>1, <3>4
        <4> QED
          BY <1>2, <2>1, <4>1, <4>2, FiguresStay, Zenon
      <3> QED
        BY <3>3, <3>4
    <2>6. CASE RxQuit(n)
      <3>1. CASE m = n
        BY <1>2, <2>6, <3>1, FiguresQuit
      <3>2. CASE m # n
        <4>1. PICK s \in StatsType : /\ stats' = [stats EXCEPT ![n] = s] /\ local' = [local EXCEPT ![n] = Zero]
                                     /\ rx' = [rx EXCEPT ![n].at = "done"] /\ compared' = compared
          BY <2>6, RxQuitIs, Zenon
        <4>2. local'[m] = local[m] /\ stats'[m] = stats[m] /\ rx'[m] = rx[m]
          BY <3>2, <4>1, TypesOfAll
        <4> QED
          BY <1>2, <2>1, <4>1, <4>2, FiguresStay, Zenon
      <3> QED
        BY <3>1, <3>2
    <2> QED
      BY <1>5, <2>3, <2>4, <2>5, <2>6 DEF RxStep, OtherStep
  <1> QED
    BY <1>3, <1>4, <1>5 DEF TrafficNext

LEMMA ComparedStart == TrafficInit => AllCompared
  <1> SUFFICES ASSUME TrafficInit, NEW n \in Nets PROVE Figures(n)
    BY DEF AllCompared
  <1>1. /\ local[n] = Zero /\ stats[n] = NoStats /\ compared[n] = 0 /\ rx[n] = Poll
    BY DEF TrafficInit
  <1>2. /\ local[n].rx = 0 /\ local[n].good = 0 /\ local[n].bad = 0 /\ stats[n].good = 0 /\ stats[n].bad = 0
    BY <1>1 DEF Zero, NoStats
  <1>3. Flush \in Nat \ {0}
    BY TrafficAssumption
  <1>4. 0 + 0 + 0 + 0 = 0 /\ 0 < Flush /\ 0 + 0 <= 0 /\ 0 < 0 + Flush
    BY <1>3
  <1>5. Verified(n) = 0
    BY <1>2, <1>4, Zenon DEF Verified
  <1> QED
    BY <1>1, <1>2, <1>4, <1>5, Zenon DEF Figures

LEMMA TrafficStart == TrafficInit => TrafficInv /\ Counted
  <1> SUFFICES ASSUME TrafficInit PROVE TrafficInv /\ Counted
    OBVIOUS
  <1>1. TrafficTypes
    BY TypesStart
  <1>2. /\ tx = [at |-> "loop", seq |-> 0] /\ seq = [v \in VLs |-> 0] /\ phase = [at |-> "warmup", todo |-> {}]
        /\ wire = [n \in Nets |-> <<>>] /\ missed = [n \in Nets |-> [v \in VLs |-> 0]]
        /\ rx = [n \in Nets |-> Poll] /\ trk = [n \in Nets |-> [v \in VLs |-> Fresh]]
        /\ local = [n \in Nets |-> Zero] /\ stats = [n \in Nets |-> NoStats]
        /\ real = [n \in Nets |-> [seen |-> {}, lead |-> 0, inner |-> 0]]
        /\ foreign = [n \in Nets |-> 0] /\ compared = [n \in Nets |-> 0]
    BY DEF TrafficInit
  <1>3. tx.at = "loop" /\ phase.at = "warmup"
    BY <1>2
  <1>4. Loaded /\ Numbers
    BY <1>3 DEF Loaded, Numbers
  <1>5. ASSUME NEW n \in Nets
        PROVE  /\ wire[n] = <<>> /\ real[n].seen = {} /\ real[n].inner = 0 /\ real[n].lead = 0
               /\ rx[n].at = "poll" /\ local[n].good = 0 /\ local[n].bad = 0 /\ local[n].lost = 0
               /\ stats[n].total = 0 /\ stats[n].good = 0 /\ stats[n].bad = 0 /\ stats[n].lost = 0
               /\ \A v \in VLs : /\ trk[n][v].init = FALSE /\ trk[n][v].expected = 0 /\ trk[n][v].max = 0
                                 /\ trk[n][v].count = 0 /\ missed[n][v] = 0
    <2>1. wire[n] = <<>> /\ real[n].seen = {} /\ real[n].inner = 0 /\ real[n].lead = 0
      BY <1>2
    <2>2. rx[n].at = "poll"
      BY <1>2 DEF Poll
    <2>3. /\ local[n].good = 0 /\ local[n].bad = 0 /\ local[n].lost = 0
          /\ stats[n].total = 0 /\ stats[n].good = 0 /\ stats[n].bad = 0 /\ stats[n].lost = 0
      BY <1>2 DEF Zero, NoStats
    <2>4. \A v \in VLs : trk[n][v] = Fresh /\ missed[n][v] = 0
      BY <1>2
    <2>5. Fresh.init = FALSE /\ Fresh.expected = 0 /\ Fresh.max = 0 /\ Fresh.count = 0
      BY Zenon DEF Fresh
    <2> QED
      BY <2>1, <2>2, <2>3, <2>4, <2>5, Zenon
  <1>6. ASSUME NEW n \in Nets, NEW v \in VLs PROVE \E base \in Nat : Linked(n, v, base)
    <2>1. Chain(<<>>, v, 0, 0, 0)
      <3> DEFINE d == [i \in 0..0 |-> 0]
      <3>1. Len(<<>>) = 0
        OBVIOUS
      <3>2. d \in [0..0 -> Nat] /\ d[0] = 0 /\ 0 = d[0] + 0
        OBVIOUS
      <3> HIDE DEF d
      <3>3. Due(<<>>, v, d)
        BY <3>1 DEF Due
      <3> QED
        BY <3>1, <3>2, <3>3 DEF Chain
    <2>2. Sent(v) = 0
      BY <1>2, <1>3 DEF Sent
    <2>3. Expects(n, v, 0)
      BY <1>5, Zenon DEF Expects
    <2>4. Linked(n, v, 0)
      BY <1>5, <2>1, <2>2, <2>3, Zenon DEF Linked
    <2> QED
      BY <2>4
  <1>7. Chained
    BY <1>6 DEF Chained
  <1>8. Begun
    BY <1>5 DEF Begun
  <1>9. LossExact
    <2> SUFFICES ASSUME NEW n \in Nets PROVE /\ Reported(n) = real[n].inner + foreign[n]
                                             /\ Reported(n) <= real[n].inner + foreign[n]
      BY Zenon DEF LossExact
    <2>1. stats[n].lost = 0 /\ local[n].lost = 0 /\ real[n].inner = 0 /\ foreign[n] = 0
      <3>1. foreign[n] = 0
        BY <1>2
      <3> QED
        BY <1>5, <3>1, Zenon
    <2> QED
      BY <2>1 DEF Reported
  <1>10. ASSUME NEW n \in Nets PROVE Exact(n)
    <2>1. \A v \in VLs : ~InHand(n, v)
      BY <1>5 DEF InHand
    <2>2. \A v \in VLs : Gone(n, v) = 0
      <3> SUFFICES ASSUME NEW v \in VLs PROVE Gone(n, v) = 0
        OBVIOUS
      <3>1. trk[n][v].expected = 0 /\ trk[n][v].count = 0 /\ ~InHand(n, v)
        BY <1>5, <2>1, Zenon
      <3>2. Gone(n, v) = 0 - 0 - 0
        BY <3>1, Zenon DEF Gone
      <3> QED
        BY <3>2
    <2>3. \A v \in VLs : Tracked(n, v)
      <3> SUFFICES ASSUME NEW v \in VLs PROVE Tracked(n, v)
        OBVIOUS
      <3>1. Gone(n, v) >= 0
        BY <2>2
      <3> QED
        BY <1>5, <2>1, <3>1, Zenon DEF Tracked
    <2>4. IsFiniteSet(VLs)
      BY <1>1, GoneType
    <2>5. Missing(n) = 0
      <3> DEFINE f == [v \in VLs |-> Gone(n, v)]
      <3>1. DOMAIN f = VLs /\ \A v \in VLs : f[v] = 0
        BY <2>2
      <3> HIDE DEF f
      <3>2. SumFunctionOnSet(f, VLs) = 0
        BY <2>4, <3>1, SumOfZeros
      <3> QED
        BY <3>1, <3>2 DEF Missing, SumFunction, f
    <2>6. Received(n) = 0
      <3> DEFINE f == [v \in VLs |-> trk[n][v].count]
      <3>1. DOMAIN f = VLs /\ \A v \in VLs : f[v] = 0
        BY <1>5
      <3> HIDE DEF f
      <3>2. SumFunctionOnSet(f, VLs) = 0
        BY <2>4, <3>1, SumOfZeros
      <3> QED
        BY <3>1, <3>2 DEF Received, SumFunction, f
    <2>8. /\ local[n].good = 0 /\ local[n].bad = 0 /\ stats[n].total = 0 /\ stats[n].good = 0 /\ stats[n].bad = 0
          /\ real[n].lead = 0 /\ real[n].inner = 0 /\ rx[n].at = "poll"
      BY <1>5, Zenon
    <2>7. Verified(n) = 0 /\ Totalled(n) = 0 /\ real[n].lead + real[n].inner = 0 /\ rx[n].at # "done"
      BY <2>8 DEF Verified, Totalled
    <2> QED
      BY <2>3, <2>5, <2>6, <2>7 DEF Exact
  <1>11. Counted
    BY <1>10 DEF Counted
  <1> QED
    BY <1>1, <1>4, <1>7, <1>8, <1>9, <1>11 DEF TrafficInv

LEMMA TrafficKept == TrafficInv /\ Counted /\ [TrafficNext]_trafficVars => TrafficInv' /\ Counted'
  <1> SUFFICES ASSUME TrafficInv, Counted, [TrafficNext]_trafficVars PROVE TrafficInv' /\ Counted'
    OBVIOUS
  <1>1. TrafficTypes /\ Loaded /\ Chained /\ Begun /\ Numbers /\ LossExact
    BY DEF TrafficInv
  <1>2. TrafficTypes'
    BY <1>1, TypesKept
  <1>3. Counted'
    BY <1>1, CountedKept
  <1>4. Loaded' /\ Chained' /\ Begun' /\ Numbers' /\ LossExact'
    <2>1. ASSUME NEW n \in Nets, RxStep(n) PROVE Loaded' /\ Chained' /\ Begun' /\ Numbers' /\ LossExact'
      BY <1>1, <2>1, WorkerSteps
    <2>2. CASE ResetStep
      BY <1>1, <2>2, ResetSteps
    <2>3. CASE TxStep \/ Quiesce \/ Stop \/ (\E n \in Nets : Lose(n)) \/ UNCHANGED trafficVars
      BY <1>1, <2>3, QueueSteps
    <2> QED
      BY <2>1, <2>2, <2>3 DEF TrafficNext
  <1> QED
    BY <1>2, <1>3, <1>4 DEF TrafficInv

(* What is kept: the chains of the numbers, LossExact, and the counts. *)
THEOREM TrafficInductive == TrafficSpec => [](TrafficInv /\ Counted /\ AllCompared)
  <1>1. TrafficInit => TrafficInv /\ Counted /\ AllCompared
    BY TrafficStart, ComparedStart
  <1>2. TrafficInv /\ Counted /\ AllCompared /\ [TrafficNext]_trafficVars
          => TrafficInv' /\ Counted' /\ AllCompared'
    <2> SUFFICES ASSUME TrafficInv, Counted, AllCompared, [TrafficNext]_trafficVars
                 PROVE  TrafficInv' /\ Counted' /\ AllCompared'
      OBVIOUS
    <2>1. TrafficTypes
      BY DEF TrafficInv
    <2> QED
      BY <2>1, TrafficKept, ComparedKept
  <1> QED
    BY <1>1, <1>2, PTL DEF TrafficSpec

(* What the workers of dtn, cmc and vmc report as lost in rx_worker is what   *)
(* was lost between two packets of a VL, and what the numbers of the raw     *)
(* ports' packets showed, for any number of VLs, numbers, losses and packets *)
(* on the way.                                                               *)
THEOREM LossAlwaysExact == TrafficSpec => []LossExact
  <1>1. TrafficInv => LossExact
    BY DEF TrafficInv
  <1> QED
    BY <1>1, TrafficInductive, PTL

(* The final flush of rx_worker hands over every packet whose payload was    *)
(* compared, once, for any size of the local counters: all of them before    *)
(* the reset, and after it less than one flush too many.  For a CMC that is  *)
(* stopped in its warm-up, what it reports as received and as lost is exact. *)
THEOREM FinalFiguresAlwaysExact == TrafficSpec => []FinalFiguresExact
  <1>1. TrafficInv /\ Counted /\ AllCompared => FinalFiguresExact
    <2> SUFFICES ASSUME TrafficTypes, Counted, AllCompared, NEW n \in Nets, rx[n].at = "done"
                 PROVE  /\ phase.at # "test" => stats[n].good + stats[n].bad = compared[n]
                        /\ stats[n].good + stats[n].bad < compared[n] + Flush
                        /\ unit = "cmc" /\ phase.at = "warmup" =>
                             /\ stats[n].total = Received(n) /\ stats[n].good + stats[n].bad = Received(n)
                             /\ stats[n].lost = real[n].lead + real[n].inner
      BY DEF TrafficInv, FinalFiguresExact
    <2>1. /\ local[n].good = 0 /\ local[n].bad = 0 /\ (phase.at # "test" => Verified(n) = compared[n])
          /\ Verified(n) < compared[n] + Flush
      BY Zenon DEF AllCompared, Figures
    <2>2. stats[n].total \in Nat /\ stats[n].good \in Nat /\ stats[n].bad \in Nat
      BY TypesOf DEF StatsType
    <2>3. Verified(n) = stats[n].good + stats[n].bad /\ Totalled(n) = stats[n].total
      BY <2>1, <2>2 DEF Verified, Totalled
    <2>4. ASSUME unit = "cmc", phase.at = "warmup"
          PROVE  /\ stats[n].total = Received(n) /\ stats[n].good + stats[n].bad = Received(n)
                 /\ stats[n].lost = real[n].lead + real[n].inner
      <3>1. Exact(n)
        BY <2>4 DEF Counted
      <3>2. /\ Verified(n) = Received(n) /\ Totalled(n) = Received(n)
            /\ stats[n].lost = real[n].lead + real[n].inner
        BY <3>1, Zenon DEF Exact
      <3> QED
        BY <2>3, <3>2, Zenon
    <2> QED
      BY <2>1, <2>3, <2>4, Zenon
  <1> QED
    BY <1>1, TrafficInductive, PTL
-----------------------------------------------------------------------------
(* The stages of the main threads, and which one may come after which.       *)

DtnStages == {"raw12", "raw13", "rawRx", "rawTx", "ext", "ptpInit", "ptpRaw", "ptp", "ptpStop", "ptpJoin",
              "rawStop", "rawTxJoin", "rawRxJoin", "freePtp", "freeRaw"}
PtpStages == {"ext", "ptpInit", "ptpRaw", "ptp", "ptpStop", "ptpJoin"}
VmcStages == {"poll", "pollStop"}
CommonStages == {"prepare", "eal", "handlers", "ports", "cache", "pool", "queues", "device", "rx", "tx", "loop",
                 "wait", "freeCache", "freePorts", "freeEal"}
Labels(i) == {s \in CommonStages \cup DtnStages \cup VmcStages :
                /\ s \in DtnStages => i.app = "DTN"
                /\ s \in VmcStages => i.app = "VMC"
                /\ s \in PtpStages => ~i.ate}

Pairs == {<<"prepare", "eal">>, <<"eal", "handlers">>, <<"handlers", "ports">>, <<"ports", "cache">>,
          <<"cache", "pool">>, <<"pool", "queues">>, <<"queues", "device">>,
          <<"device", "raw12">>, <<"device", "rx">>, <<"device", "poll">>, <<"poll", "rx">>,
          <<"raw12", "raw13">>, <<"raw13", "rx">>, <<"rx", "tx">>, <<"tx", "rawRx">>, <<"tx", "loop">>,
          <<"rawRx", "rawTx">>, <<"rawTx", "ext">>, <<"rawTx", "loop">>, <<"ext", "ptpInit">>,
          <<"ptpInit", "ptpRaw">>, <<"ptpRaw", "ptp">>, <<"ptp", "loop">>,
          <<"loop", "ptpStop">>, <<"loop", "rawStop">>, <<"loop", "wait">>, <<"loop", "pollStop">>,
          <<"ptpStop", "ptpJoin">>, <<"ptpJoin", "rawStop">>, <<"rawStop", "rawTxJoin">>,
          <<"rawTxJoin", "rawRxJoin">>, <<"rawRxJoin", "wait">>, <<"pollStop", "wait">>,
          <<"wait", "freePtp">>, <<"wait", "freeRaw">>, <<"wait", "freeCache">>, <<"freePtp", "freeRaw">>,
          <<"freeRaw", "freeCache">>, <<"freeCache", "freePorts">>, <<"freePorts", "freeEal">>}
LoopExit(i) == CASE i.app = "DTN" -> (IF i.ate THEN "rawStop" ELSE "ptpStop")
                 [] i.app = "CMC" -> "wait"
                 [] i.app = "VMC" -> "pollStop"
Edge(i, s, t) == <<s, t>> \in Pairs /\ (s = "loop" => t = LoopExit(i))

Has(p, s) == \E k \in DOMAIN p : p[k] = s

(* p goes from s to t and uses only edges. *)
Run(i, p, s, t) ==
  /\ p \in Seq(Labels(i)) /\ Len(p) \in Nat \ {0} /\ p[1] = s /\ p[Len(p)] = t
  /\ \A j \in 1 .. Len(p) - 1 : Edge(i, p[j], p[j + 1])

LEMMA RunJoins ==
  ASSUME NEW i, NEW a, NEW b, NEW s, NEW t, NEW u, NEW v,
         Run(i, a, s, t), Run(i, b, u, v), Edge(i, t, u)
  PROVE  /\ Run(i, a \o b, s, v)
         /\ \A x : Has(b, x) => Has(a \o b, x)
  <1> DEFINE S == Labels(i)
             c == a \o b
  <1>1. /\ a \in Seq(S) /\ b \in Seq(S) /\ Len(a) \in Nat \ {0} /\ Len(b) \in Nat \ {0}
        /\ a[1] = s /\ a[Len(a)] = t /\ b[1] = u /\ b[Len(b)] = v
        /\ \A j \in 1 .. Len(a) - 1 : Edge(i, a[j], a[j + 1])
        /\ \A j \in 1 .. Len(b) - 1 : Edge(i, b[j], b[j + 1])
    BY Zenon DEF Run
  <1>2. /\ c \in Seq(S) /\ Len(c) = Len(a) + Len(b)
        /\ \A k \in 1 .. Len(a) + Len(b) : c[k] = IF k <= Len(a) THEN a[k] ELSE b[k - Len(a)]
    BY <1>1, ConcatProperties, Zenon
  <1>3. DOMAIN c = 1 .. Len(c) /\ DOMAIN b = 1 .. Len(b)
    BY <1>1, <1>2, LenProperties
  <1> HIDE DEF S, c
  <1>4. ASSUME NEW j \in 1 .. Len(c) - 1 PROVE Edge(i, c[j], c[j + 1])
    <2>1. CASE j < Len(a)
      <3>1. c[j] = a[j] /\ c[j + 1] = a[j + 1] /\ j \in 1 .. Len(a) - 1
        BY <1>1, <1>2, <2>1
      <3> QED
        BY <1>1, <3>1, Zenon
    <2>2. CASE j = Len(a)
      <3>1. c[j] = a[Len(a)] /\ c[j + 1] = b[(j + 1) - Len(a)]
        <4>1. j \in 1 .. Len(a) + Len(b) /\ j + 1 \in 1 .. Len(a) + Len(b) /\ j <= Len(a) /\ ~(j + 1 <= Len(a))
          BY <1>1, <1>2, <2>2
        <4> QED
          BY <1>2, <2>2, <4>1, Zenon
      <3>2. (j + 1) - Len(a) = 1
        BY <1>1, <2>2
      <3> QED
        BY <1>1, <3>1, <3>2, Zenon
    <2>3. CASE j > Len(a)
      <3>1. PICK k \in Int : k = j - Len(a)
        <4>1. j \in Int /\ Len(a) \in Int
          BY <1>1, <1>2
        <4> QED
          BY <4>1
      <3>2. c[j] = b[k] /\ c[j + 1] = b[k + 1] /\ k \in 1 .. Len(b) - 1
        BY <1>1, <1>2, <2>3, <3>1
      <3> QED
        BY <1>1, <3>2, Zenon
    <2> QED
      BY <1>1, <2>1, <2>2, <2>3
  <1>5. c[1] = s /\ c[Len(c)] = v /\ Len(c) \in Nat \ {0}
    BY <1>1, <1>2
  <1>6. ASSUME NEW x, NEW k \in DOMAIN b, b[k] = x PROVE \E l \in DOMAIN c : c[l] = x
    <2>1. k \in 1 .. Len(b)
      BY <1>3
    <2>2. k + Len(a) \in 1 .. Len(c) /\ c[k + Len(a)] = b[k]
      BY <1>1, <1>2, <2>1
    <2> QED
      BY <1>3, <1>6, <2>2
  <1> QED
    BY <1>2, <1>4, <1>5, <1>6, Zenon DEF Run, Has, S, c

(* The pieces of the programs. *)
LEMMA RunPrepare == ASSUME NEW i PROVE Run(i, <<"prepare">>, "prepare", "prepare")
  <1>1. <<"prepare">> \in Seq(Labels(i))
    BY DEF Labels, CommonStages, DtnStages, VmcStages, PtpStages
  <1> QED
    BY <1>1 DEF Run

LEMMA RunSetUp ==
  ASSUME NEW i
  PROVE  Run(i, <<"eal", "handlers", "ports", "cache", "pool", "queues", "device">>, "eal", "device")
  <1> DEFINE p == <<"eal", "handlers", "ports", "cache", "pool", "queues", "device">>
  <1>1. p \in Seq(Labels(i))
    BY DEF Labels, CommonStages, DtnStages, VmcStages, PtpStages
  <1>2. \A j \in 1 .. 6 : Edge(i, p[j], p[j + 1])
    BY DEF Edge, Pairs
  <1> QED
    BY <1>1, <1>2 DEF Run

LEMMA RunSetUpVmc ==
  ASSUME NEW i, i.app = "VMC"
  PROVE  Run(i, <<"eal", "handlers", "ports", "cache", "pool", "queues", "device", "poll">>, "eal", "poll")
  <1> DEFINE p == <<"eal", "handlers", "ports", "cache", "pool", "queues", "device", "poll">>
  <1>1. p \in Seq(Labels(i))
    BY DEF Labels, CommonStages, DtnStages, VmcStages, PtpStages
  <1>2. \A j \in 1 .. 7 : Edge(i, p[j], p[j + 1])
    BY DEF Edge, Pairs
  <1> QED
    BY <1>1, <1>2 DEF Run

LEMMA RunStart == ASSUME NEW i PROVE Run(i, <<"rx", "tx">>, "rx", "tx")
  <1>1. <<"rx", "tx">> \in Seq(Labels(i))
    BY DEF Labels, CommonStages, DtnStages, VmcStages, PtpStages
  <1>2. Edge(i, "rx", "tx")
    BY DEF Edge, Pairs
  <1> QED
    BY <1>1, <1>2 DEF Run

LEMMA RunStartDtn ==
  ASSUME NEW i, i.app = "DTN"
  PROVE  Run(i, <<"raw12", "raw13", "rx", "tx", "rawRx", "rawTx">>, "raw12", "rawTx")
  <1> DEFINE p == <<"raw12", "raw13", "rx", "tx", "rawRx", "rawTx">>
  <1>1. p \in Seq(Labels(i))
    BY DEF Labels, CommonStages, DtnStages, VmcStages, PtpStages
  <1>2. \A j \in 1 .. 5 : Edge(i, p[j], p[j + 1])
    BY DEF Edge, Pairs
  <1> QED
    BY <1>1, <1>2 DEF Run

LEMMA RunServices ==
  ASSUME NEW i, i.app = "DTN", ~i.ate
  PROVE  Run(i, <<"ext", "ptpInit", "ptpRaw", "ptp">>, "ext", "ptp")
  <1> DEFINE p == <<"ext", "ptpInit", "ptpRaw", "ptp">>
  <1>1. p \in Seq(Labels(i))
    BY DEF Labels, CommonStages, DtnStages, VmcStages, PtpStages
  <1>2. \A j \in 1 .. 3 : Edge(i, p[j], p[j + 1])
    BY DEF Edge, Pairs
  <1> QED
    BY <1>1, <1>2 DEF Run

LEMMA RunLoop == ASSUME NEW i PROVE Run(i, <<"loop">>, "loop", "loop")
  <1>1. <<"loop">> \in Seq(Labels(i))
    BY DEF Labels, CommonStages, DtnStages, VmcStages, PtpStages
  <1> QED
    BY <1>1 DEF Run

LEMMA RunPtpStop ==
  ASSUME NEW i, i.app = "DTN", ~i.ate
  PROVE  Run(i, <<"ptpStop", "ptpJoin">>, "ptpStop", "ptpJoin")
  <1>1. <<"ptpStop", "ptpJoin">> \in Seq(Labels(i))
    BY DEF Labels, CommonStages, DtnStages, VmcStages, PtpStages
  <1>2. Edge(i, "ptpStop", "ptpJoin")
    BY DEF Edge, Pairs
  <1> QED
    BY <1>1, <1>2 DEF Run

LEMMA RunRawStop ==
  ASSUME NEW i, i.app = "DTN"
  PROVE  Run(i, <<"rawStop", "rawTxJoin", "rawRxJoin", "wait">>, "rawStop", "wait")
  <1> DEFINE p == <<"rawStop", "rawTxJoin", "rawRxJoin", "wait">>
  <1>1. p \in Seq(Labels(i))
    BY DEF Labels, CommonStages, DtnStages, VmcStages, PtpStages
  <1>2. \A j \in 1 .. 3 : Edge(i, p[j], p[j + 1])
    BY DEF Edge, Pairs
  <1> QED
    BY <1>1, <1>2 DEF Run

LEMMA RunFreePtp ==
  ASSUME NEW i, i.app = "DTN"
  PROVE  Run(i, <<"freePtp">>, "freePtp", "freePtp")
  <1>1. <<"freePtp">> \in Seq(Labels(i))
    BY DEF Labels, CommonStages, DtnStages, VmcStages, PtpStages
  <1> QED
    BY <1>1 DEF Run

LEMMA RunFreeDtn ==
  ASSUME NEW i, i.app = "DTN"
  PROVE  Run(i, <<"freeRaw", "freeCache", "freePorts", "freeEal">>, "freeRaw", "freeEal")
  <1> DEFINE p == <<"freeRaw", "freeCache", "freePorts", "freeEal">>
  <1>1. p \in Seq(Labels(i))
    BY DEF Labels, CommonStages, DtnStages, VmcStages, PtpStages
  <1>2. \A j \in 1 .. 3 : Edge(i, p[j], p[j + 1])
    BY DEF Edge, Pairs
  <1> QED
    BY <1>1, <1>2 DEF Run

LEMMA RunStopCmc ==
  ASSUME NEW i PROVE Run(i, <<"wait", "freeCache", "freePorts", "freeEal">>, "wait", "freeEal")
  <1> DEFINE p == <<"wait", "freeCache", "freePorts", "freeEal">>
  <1>1. p \in Seq(Labels(i))
    BY DEF Labels, CommonStages, DtnStages, VmcStages, PtpStages
  <1>2. \A j \in 1 .. 3 : Edge(i, p[j], p[j + 1])
    BY DEF Edge, Pairs
  <1> QED
    BY <1>1, <1>2 DEF Run

LEMMA RunStopVmc ==
  ASSUME NEW i, i.app = "VMC"
  PROVE  Run(i, <<"pollStop", "wait", "freeCache", "freePorts", "freeEal">>, "pollStop", "freeEal")
  <1> DEFINE p == <<"pollStop", "wait", "freeCache", "freePorts", "freeEal">>
  <1>1. p \in Seq(Labels(i))
    BY DEF Labels, CommonStages, DtnStages, VmcStages, PtpStages
  <1>2. \A j \in 1 .. 4 : Edge(i, p[j], p[j + 1])
    BY DEF Edge, Pairs
  <1> QED
    BY <1>1, <1>2 DEF Run

(* Every program goes from "prepare" to "freeEal", past "freeCache". *)
LEMMA ProgramDtn ==
  ASSUME NEW i, i.app = "DTN", i.ate \in BOOLEAN
  PROVE  Run(i, Program(i), "prepare", "freeEal") /\ Has(Program(i), "freeCache")
  <1> DEFINE start == PrepareDtn \o SetUpDtn \o StartDtn
             free == <<"freeRaw", "freeCache", "freePorts", "freeEal">>
  <1>1. Run(i, start, "prepare", "rawTx")
    <2>1. Edge(i, "prepare", "eal") /\ Edge(i, "device", "raw12")
      BY DEF Edge, Pairs
    <2>2. Run(i, PrepareDtn \o SetUpDtn, "prepare", "device")
      BY <2>1, RunPrepare, RunSetUp, RunJoins, Zenon DEF PrepareDtn, SetUpDtn
    <2> QED
      BY <2>1, <2>2, RunStartDtn, RunJoins, Zenon DEF StartDtn
  <1>2. Has(free, "freeCache")
    BY DEF Has
  <1>3. Run(i, free, "freeRaw", "freeEal")
    BY RunFreeDtn
  <1> HIDE DEF start, free
  <1>4. CASE i.ate
    <2>1. Edge(i, "rawTx", "loop") /\ Edge(i, "loop", "rawStop") /\ Edge(i, "wait", "freeRaw")
      BY <1>4 DEF Edge, Pairs, LoopExit
    <2>2. StopDtn(i.ate) = <<>> \o <<"rawStop", "rawTxJoin", "rawRxJoin", "wait">> \o <<>> \o free
      BY <1>4, Zenon DEF StopDtn, free
    <2>3. ServicesDtn(i.ate) = <<>>
      BY <1>4, Zenon DEF ServicesDtn
    <2>4. /\ start \in Seq(Labels(i))
          /\ <<"rawStop", "rawTxJoin", "rawRxJoin", "wait">> \in Seq(Labels(i))
      BY <1>1, RunRawStop, Zenon DEF Run
    <2>5. start \o ServicesDtn(i.ate) = start
      BY <2>3, <2>4, ConcatEmptySeq, Zenon
    <2>6. StopDtn(i.ate) = <<"rawStop", "rawTxJoin", "rawRxJoin", "wait">> \o free
      BY <2>2, <2>4, ConcatEmptySeq, Zenon
    <2>7. Run(i, StopDtn(i.ate), "rawStop", "freeEal") /\ Has(StopDtn(i.ate), "freeCache")
      BY <1>2, <1>3, <2>1, <2>6, RunRawStop, RunJoins, Zenon
    <2>8. Run(i, start \o ServicesDtn(i.ate) \o <<"loop">>, "prepare", "loop")
      BY <1>1, <2>1, <2>5, RunLoop, RunJoins, Zenon
    <2>9. Program(i) = start \o ServicesDtn(i.ate) \o <<"loop">> \o StopDtn(i.ate)
      BY DEF Program, start
    <2> QED
      BY <2>1, <2>7, <2>8, <2>9, RunJoins, Zenon
  <1>5. CASE ~i.ate
    <2>1. /\ Edge(i, "rawTx", "ext") /\ Edge(i, "ptp", "loop") /\ Edge(i, "loop", "ptpStop")
          /\ Edge(i, "ptpJoin", "rawStop") /\ Edge(i, "wait", "freePtp") /\ Edge(i, "freePtp", "freeRaw")
      BY <1>5 DEF Edge, Pairs, LoopExit
    <2>2. StopDtn(i.ate) = <<"ptpStop", "ptpJoin">> \o <<"rawStop", "rawTxJoin", "rawRxJoin", "wait">>
                           \o <<"freePtp">> \o free
      BY <1>5, Zenon DEF StopDtn, free
    <2>3. ServicesDtn(i.ate) = <<"ext", "ptpInit", "ptpRaw", "ptp">>
      BY <1>5, Zenon DEF ServicesDtn
    <2>4. Run(i, <<"ptpStop", "ptpJoin">> \o <<"rawStop", "rawTxJoin", "rawRxJoin", "wait">>, "ptpStop", "wait")
      BY <1>5, <2>1, RunPtpStop, RunRawStop, RunJoins, Zenon
    <2>5. Run(i, <<"ptpStop", "ptpJoin">> \o <<"rawStop", "rawTxJoin", "rawRxJoin", "wait">> \o <<"freePtp">>,
              "ptpStop", "freePtp")
      BY <2>1, <2>4, RunFreePtp, RunJoins, Zenon
    <2>6. Run(i, StopDtn(i.ate), "ptpStop", "freeEal") /\ Has(StopDtn(i.ate), "freeCache")
      BY <1>2, <1>3, <2>1, <2>2, <2>5, RunJoins, Zenon
    <2>7. Run(i, start \o ServicesDtn(i.ate), "prepare", "ptp")
      BY <1>1, <1>5, <2>1, <2>3, RunServices, RunJoins, Zenon
    <2>8. Run(i, start \o ServicesDtn(i.ate) \o <<"loop">>, "prepare", "loop")
      BY <2>1, <2>7, RunLoop, RunJoins, Zenon
    <2>9. Program(i) = start \o ServicesDtn(i.ate) \o <<"loop">> \o StopDtn(i.ate)
      BY DEF Program, start
    <2> QED
      BY <2>1, <2>6, <2>8, <2>9, RunJoins, Zenon
  <1> QED
    BY <1>4, <1>5

LEMMA ProgramCmc ==
  ASSUME NEW i, i.app = "CMC"
  PROVE  Run(i, Program(i), "prepare", "freeEal") /\ Has(Program(i), "freeCache")
  <1>1. /\ Edge(i, "prepare", "eal") /\ Edge(i, "device", "rx") /\ Edge(i, "tx", "loop")
        /\ Edge(i, "loop", "wait")
    BY DEF Edge, Pairs, LoopExit
  <1>2. Has(StopCmc, "freeCache")
    BY DEF Has, StopCmc
  <1>3. Run(i, PrepareCmc \o SetUpCmc, "prepare", "device")
    BY <1>1, RunPrepare, RunSetUp, RunJoins, Zenon DEF PrepareCmc, SetUpCmc
  <1>4. Run(i, PrepareCmc \o SetUpCmc \o StartCmc, "prepare", "tx")
    BY <1>1, <1>3, RunStart, RunJoins, Zenon DEF StartCmc
  <1>5. Run(i, PrepareCmc \o SetUpCmc \o StartCmc \o <<"loop">>, "prepare", "loop")
    BY <1>1, <1>4, RunLoop, RunJoins, Zenon
  <1>6. Run(i, StopCmc, "wait", "freeEal")
    BY RunStopCmc DEF StopCmc
  <1>7. Program(i) = PrepareCmc \o SetUpCmc \o StartCmc \o <<"loop">> \o StopCmc
    BY DEF Program
  <1> QED
    BY <1>1, <1>2, <1>5, <1>6, <1>7, RunJoins, Zenon

LEMMA ProgramVmc ==
  ASSUME NEW i, i.app = "VMC"
  PROVE  Run(i, Program(i), "prepare", "freeEal") /\ Has(Program(i), "freeCache")
  <1>1. /\ Edge(i, "prepare", "eal") /\ Edge(i, "poll", "rx") /\ Edge(i, "tx", "loop")
        /\ Edge(i, "loop", "pollStop")
    BY DEF Edge, Pairs, LoopExit
  <1>2. Has(StopVmc, "freeCache")
    BY DEF Has, StopVmc
  <1>3. Run(i, PrepareVmc \o SetUpVmc, "prepare", "poll")
    BY <1>1, RunPrepare, RunSetUpVmc, RunJoins, Zenon DEF PrepareVmc, SetUpVmc
  <1>4. Run(i, PrepareVmc \o SetUpVmc \o StartVmc, "prepare", "tx")
    BY <1>1, <1>3, RunStart, RunJoins, Zenon DEF StartVmc
  <1>5. Run(i, PrepareVmc \o SetUpVmc \o StartVmc \o <<"loop">>, "prepare", "loop")
    BY <1>1, <1>4, RunLoop, RunJoins, Zenon
  <1>6. Run(i, StopVmc, "pollStop", "freeEal")
    BY RunStopVmc DEF StopVmc
  <1>7. Program(i) = PrepareVmc \o SetUpVmc \o StartVmc \o <<"loop">> \o StopVmc
    BY DEF Program
  <1> QED
    BY <1>1, <1>2, <1>5, <1>6, <1>7, RunJoins, Zenon

LEMMA InstanceIs ==
  ASSUME NEW i \in Instances
  PROVE  i.app \in {"DTN", "CMC", "VMC"} /\ i.ate \in BOOLEAN /\ i.lcores \in Nat /\ i.signals \in Nat
  BY LifecycleAssumption

LEMMA ProgramIs ==
  ASSUME NEW i \in Instances
  PROVE  Run(i, Program(i), "prepare", "freeEal") /\ Has(Program(i), "freeCache")
  BY InstanceIs, ProgramDtn, ProgramCmc, ProgramVmc

(* The stage after a stage. *)
LEMMA StageIs ==
  ASSUME inst \in Instances
  PROVE  /\ "prepare" \in Stages /\ "freeCache" \in Stages /\ Stages \subseteq Labels(inst)
         /\ \A s \in Stages : \/ Edge(inst, s, After(s)) /\ After(s) \in Stages
                              \/ s = "freeEal" /\ After(s) = "end"
  <1> DEFINE p == Program(inst)
  <1>1. /\ p \in Seq(Labels(inst)) /\ Len(p) \in Nat \ {0} /\ p[1] = "prepare" /\ p[Len(p)] = "freeEal"
        /\ \A j \in 1 .. Len(p) - 1 : Edge(inst, p[j], p[j + 1])
        /\ \E k \in DOMAIN p : p[k] = "freeCache"
    BY ProgramIs, Zenon DEF Run, Has
  <1>2. DOMAIN p = 1 .. Len(p) /\ \A k \in DOMAIN p : p[k] \in Labels(inst)
    BY <1>1, LenProperties, ElementOfSeq
  <1>3. Stages = {p[k] : k \in DOMAIN p}
    BY Zenon DEF Stages, Following
  <1>4. \A s \in Stages : After(s) = LET k == CHOOSE j \in DOMAIN p : p[j] = s
                                     IN IF k = Len(p) THEN "end" ELSE p[k + 1]
    BY <1>3, Zenon DEF After, Following
  <1> HIDE DEF p
  <1>5. ASSUME NEW s \in Stages
        PROVE  \/ Edge(inst, s, After(s)) /\ After(s) \in Stages
               \/ s = "freeEal" /\ After(s) = "end"
    <2> DEFINE k == CHOOSE j \in DOMAIN p : p[j] = s
    <2>1. k \in DOMAIN p /\ p[k] = s
      BY <1>3, Zenon
    <2>2. After(s) = IF k = Len(p) THEN "end" ELSE p[k + 1]
      BY <1>4, Zenon
    <2> HIDE DEF k
    <2>3. CASE k = Len(p)
      BY <1>1, <2>1, <2>2, <2>3, Zenon
    <2>4. CASE k # Len(p)
      <3>1. k \in 1 .. Len(p) - 1 /\ k + 1 \in DOMAIN p
        BY <1>1, <1>2, <2>1, <2>4
      <3>2. After(s) = p[k + 1]
        BY <2>2, <2>4, Zenon
      <3> QED
        BY <1>1, <1>3, <2>1, <3>1, <3>2, Zenon
    <2> QED
      BY <2>3, <2>4
  <1>6. "prepare" \in Stages
    <2>1. 1 \in DOMAIN p
      BY <1>1, <1>2
    <2> QED
      BY <1>1, <1>3, <2>1, Zenon
  <1> QED
    BY <1>1, <1>2, <1>3, <1>5, <1>6, Zenon

-----------------------------------------------------------------------------
(* The inductive invariant of the life of an application.                    *)

Freeing == {"freePtp", "freeRaw", "freeCache", "freePorts", "freeEal"}

(* The stages at which w has been waited for. *)
Past(w) == CASE w \in {"rx", "tx", "ext", "ptp"} -> Freeing
             [] w = "rawTx" -> Freeing \cup {"wait", "rawRxJoin"}
             [] w \in {"rawRx", "ptpPoll"} -> Freeing \cup {"wait"}
             [] w = "ptpRaw" -> Freeing \cup {"wait", "rawRxJoin", "rawTxJoin", "rawStop"}

(* What can be freed when the main thread arrives at s. *)
MayBeFreed(s) == CASE s \in {"wait", "freePtp"} -> {"rings"}
                   [] s = "freeRaw" -> {"rings", "ptp"}
                   [] s = "freeCache" -> {"rings", "ptp", "raw"}
                   [] s = "freePorts" -> {"rings", "ptp", "raw", "cache"}
                   [] s = "freeEal" -> {"rings", "ptp", "raw", "cache", "ports"}
                   [] OTHER -> {}

BeforePtp == {"prepare", "eal", "handlers", "ports", "cache", "pool", "queues", "device", "raw12", "raw13",
              "rx", "tx", "rawRx", "rawTx", "ext", "ptpInit", "ptpRaw"}

Living(w) == wk[w] \in {"created", "running"}
GoneInv == \A w \in Workers : main \in Past(w) /\ Living(w) => w \in abandoned \cup unseen
FreedInv == main # "end" => freed \subseteq MayBeFreed(main)
LcoreInv == \A w \in OnLcores : wk[w] # "created"
PtpInv == app = "DTN" =>
  /\ wk["ptpRaw"] # "none" => ptp \in {"running", "stopping"} /\ ~inst.ate
  /\ main \in BeforePtp => wk["ptpRaw"] = "none"
  /\ main = "ptpJoin" => ptp # "running"

LifeInv == TypeOK /\ GoneInv /\ FreedInv /\ LcoreInv /\ PtpInv

LEMMA WorkersAre ==
  ASSUME inst \in Instances
  PROVE  /\ Workers \subseteq AllWorkers
         /\ \A w \in Workers : /\ w \in {"rawRx", "rawTx", "ptpRaw"} => app = "DTN"
                               /\ w = "ptpPoll" => app = "VMC"
                               /\ w \in {"rx", "tx", "ext", "ptp"} <=> w \in OnLcores
         /\ {"rx", "tx"} \subseteq OnLcores /\ OnLcores \subseteq Workers
         /\ app = "DTN" => {"ext", "ptp"} \subseteq OnLcores /\ {"rawRx", "rawTx", "ptpRaw"} \subseteq Workers
         /\ app = "VMC" => "ptpPoll" \in Workers
  <1>1. app \in {"DTN", "CMC", "VMC"}
    BY InstanceIs DEF app
  <1>2. CASE app = "DTN"
    BY <1>2 DEF Workers, OnLcores, Threads, AllWorkers
  <1>3. CASE app = "CMC"
    BY <1>3 DEF Workers, OnLcores, Threads, AllWorkers
  <1>4. CASE app = "VMC"
    BY <1>4 DEF Workers, OnLcores, Threads, AllWorkers
  <1> QED
    BY <1>1, <1>2, <1>3, <1>4

LEMMA InUse == TypeOK /\ GoneInv /\ FreedInv => NoUseAfterFree
  <1> SUFFICES ASSUME TypeOK, GoneInv, FreedInv, main # "end", NEW w \in Workers, w \notin abandoned \cup unseen,
                      wk[w] = "running"
               PROVE  Uses(w) \cap freed = {}
    BY DEF NoUseAfterFree, Alive
  <1>1. main \notin Past(w)
    BY DEF GoneInv, Living
  <1>2. freed \subseteq MayBeFreed(main)
    BY DEF FreedInv
  <1>3. w \in AllWorkers
    BY WorkersAre DEF TypeOK
  <1>4. Uses(w) \cap MayBeFreed(main) = {}
    <2>1. CASE w \in {"rx", "tx", "ext", "ptp"}
      <3>1. main \notin Freeing
        BY <1>1, <2>1 DEF Past
      <3>2. MayBeFreed(main) \subseteq {"rings"}
        BY <3>1 DEF MayBeFreed, Freeing
      <3>3. "rings" \notin Uses(w)
        BY <2>1 DEF Uses
      <3> QED
        BY <3>2, <3>3
    <2>2. CASE w = "rawTx"
      <3>1. Uses(w) = {"raw"} /\ main \notin Freeing
        BY <1>1, <2>2 DEF Past, Uses
      <3> QED
        BY <3>1 DEF MayBeFreed, Freeing
    <2>3. CASE w = "rawRx"
      <3>1. main \notin Freeing \cup {"wait"}
        BY <1>1, <2>3 DEF Past
      <3> QED
        BY <3>1 DEF MayBeFreed, Freeing
    <2>4. CASE w = "ptpRaw"
      <3>1. Uses(w) = {"ptp"} /\ main \notin Freeing
        BY <1>1, <2>4 DEF Past, Uses
      <3> QED
        BY <3>1 DEF MayBeFreed, Freeing
    <2>5. CASE w = "ptpPoll"
      <3>1. main \notin Freeing \cup {"wait"}
        BY <1>1, <2>5 DEF Past
      <3> QED
        BY <3>1 DEF MayBeFreed, Freeing
    <2> QED
      BY <1>3, <2>1, <2>2, <2>3, <2>4, <2>5 DEF AllWorkers
  <1> QED
    BY <1>2, <1>4

-----------------------------------------------------------------------------
(* Where the main thread goes.                                               *)

LEMMA SetsStay ==
  ASSUME inst' = inst
  PROVE  app' = app /\ OnLcores' = OnLcores /\ Workers' = Workers /\ Stages' = Stages
  BY Zenon DEF app, OnLcores, Threads, Workers, Stages

LEMMA Entering ==
  ASSUME TypeOK, NEW s, NEW t, Edge(inst, s, t), s \in Labels(inst), NEW w \in Workers, t \in Past(w)
  PROVE  \/ s \in Past(w)
         \/ w \in OnLcores /\ s = "wait"
         \/ w = "rawTx" /\ s = "rawTxJoin"
         \/ w = "rawRx" /\ s = "rawRxJoin"
         \/ w = "ptpPoll" /\ s = "pollStop"
         \/ w = "ptpRaw" /\ (s = "ptpJoin" \/ (s = "loop" /\ inst.ate))
  <1>1. inst \in Instances
    BY Zenon DEF TypeOK
  <1>2. /\ s \in DtnStages => app = "DTN"
        /\ s \in VmcStages => app = "VMC"
        /\ s = "loop" => t = LoopExit(inst)
        /\ <<s, t>> \in Pairs
    BY DEF Labels, app, Edge
  <1>6. /\ w \in {"rawRx", "rawTx", "ptpRaw"} => app = "DTN"
        /\ w = "ptpPoll" => app = "VMC"
        /\ w \in {"rx", "tx", "ext", "ptp"} => w \in OnLcores
        /\ w \in AllWorkers
    <2>1. /\ Workers \subseteq AllWorkers
          /\ \A x \in Workers : /\ x \in {"rawRx", "rawTx", "ptpRaw"} => app = "DTN"
                                /\ x = "ptpPoll" => app = "VMC"
                                /\ x \in {"rx", "tx", "ext", "ptp"} <=> x \in OnLcores
      BY <1>1, WorkersAre, Zenon
    <2> QED
      BY <2>1, Zenon
  <1>3. CASE w \in {"rx", "tx", "ext", "ptp"}
    <2>1. w \in OnLcores
      BY <1>3, <1>6
    <2>2. t \in Freeing
      BY <1>3 DEF Past
    <2>3. s \in Freeing \cup {"wait"}
      BY <1>2, <2>2 DEF Pairs, Freeing
    <2> QED
      BY <1>3, <2>1, <2>3 DEF Past
  <1>4. CASE w \in {"rawTx", "rawRx", "ptpRaw"}
    <2>1. app = "DTN"
      BY <1>4, <1>6
    <2>2. s \notin VmcStages /\ (s = "loop" => t = IF inst.ate THEN "rawStop" ELSE "ptpStop")
      BY <1>2, <2>1 DEF LoopExit, app
    <2>3. CASE w = "rawTx"
      <3>1. t \in Freeing \cup {"wait", "rawRxJoin"}
        BY <2>3 DEF Past
      <3>2. s \in Freeing \cup {"wait", "rawRxJoin", "rawTxJoin"}
        BY <1>2, <2>2, <3>1 DEF Freeing, VmcStages, Pairs
      <3> QED
        BY <2>3, <3>2 DEF Past
    <2>4. CASE w = "rawRx"
      <3>1. t \in Freeing \cup {"wait"}
        BY <2>4 DEF Past
      <3>2. s \in Freeing \cup {"wait", "rawRxJoin"}
        BY <1>2, <2>2, <3>1 DEF Freeing, VmcStages, Pairs
      <3> QED
        BY <2>4, <3>2 DEF Past
    <2>5. CASE w = "ptpRaw"
      <3>1. t \in Freeing \cup {"wait", "rawRxJoin", "rawTxJoin", "rawStop"}
        BY <2>5 DEF Past
      <3>2. \/ s \in Freeing \cup {"wait", "rawRxJoin", "rawTxJoin", "rawStop", "ptpJoin"}
            \/ s = "loop" /\ t \in {"rawStop", "wait"}
        <4> HIDE <2>2
        <4>1. s \notin VmcStages
          BY <2>2
        <4> QED
          BY <1>2, <3>1, <4>1 DEF Freeing, VmcStages, Pairs
      <3>3. CASE s = "loop"
        <4>1. inst.ate
          BY <2>2, <3>2, <3>3 DEF Freeing
        <4> QED
          BY <2>5, <3>3, <4>1
      <3>4. CASE s = "ptpJoin"
        BY <2>5, <3>4
      <3>5. CASE s \in Freeing \cup {"wait", "rawRxJoin", "rawTxJoin", "rawStop"}
        <4>1. s \in Past(w)
          BY <2>5, <3>5 DEF Past
        <4> QED
          BY <4>1
      <3> QED
        BY <3>2, <3>3, <3>4, <3>5
    <2> QED
      BY <1>4, <2>3, <2>4, <2>5
  <1>5. CASE w = "ptpPoll"
    <2>1. app = "VMC"
      BY <1>5, <1>6
    <2>2. s \notin DtnStages /\ (s = "loop" => t = "pollStop")
      BY <1>2, <2>1 DEF LoopExit, app
    <2> QED
      BY <1>2, <1>5, <2>2 DEF Past, Freeing, DtnStages, Pairs
  <1> QED
    BY <1>3, <1>4, <1>5, <1>6 DEF AllWorkers

-----------------------------------------------------------------------------
(* The steps, sorted by what they mean for the invariant.                    *)

Gates == {"wait", "rawTxJoin", "rawRxJoin", "ptpJoin", "pollStop"}
StartStages == {"rx", "tx", "rawRx", "rawTx", "ext", "ptpRaw", "ptp", "poll"}

(* What the main thread gives back at a stage. *)
Added(s) == CASE s = "rawRxJoin" -> {"rings"}
              [] s = "freePtp" -> {"ptp"}
              [] s = "freeRaw" -> {"raw", "rings"}
              [] s = "freeCache" -> {"cache"}
              [] s = "freePorts" -> {"ports"}
              [] s = "freeEal" -> {"eal"}
              [] OTHER -> {}

(* Whom the main thread may leave behind at a stage. *)
LeftAt(s) == CASE s = "rawTxJoin" -> {"rawTx"}
               [] s = "rawRxJoin" -> {"rawRx"}
               [] OTHER -> {}

Walking ==
  /\ main \in Stages /\ main' = After(main) /\ freed' \subseteq freed \cup Added(main)
  /\ abandoned' = abandoned
Passing ==
  /\ Walking /\ main \notin Gates /\ wk' = wk /\ unseen' = unseen
  /\ \/ ptp' = ptp /\ main # "ptpStop"
     \/ main = "ptpInit" /\ ptp' \in {"none", "initialised"}
     \/ main = "ptpRaw" /\ ptp' = "running"
     \/ main = "ptpStop" /\ ptp' = IF ptp = "running" THEN "stopping" ELSE ptp
Starting(w, v) ==
  /\ Walking /\ main \in StartStages /\ unseen' = unseen
  /\ v \in {"created", "running", "ended"} /\ wk' = [wk EXCEPT ![w] = v]
  /\ v = "created" => w \notin OnLcores
  /\ IF w = "ptpRaw" THEN main = "ptpRaw" /\ ptp' = "running" ELSE ptp' = ptp /\ main # "ptpRaw"
Waiting ==
  /\ Walking /\ main \in Gates /\ wk' = wk /\ ptp' = ptp
  /\ unseen \subseteq unseen' /\ unseen' \subseteq unseen \cup LeftAt(main)
  /\ main = "wait" => \A w \in OnLcores : wk[w] # "running"
  /\ main = "rawTxJoin" => (Living("rawTx") => "rawTx" \in unseen')
  /\ main = "rawRxJoin" => (Living("rawRx") => "rawRx" \in unseen')
  /\ main = "ptpJoin" => (ptp = "stopping" => wk["ptpRaw"] \in {"none", "ended"})
  /\ main = "pollStop" => wk["ptpPoll"] \in {"none", "ended"}
Staying == main' = main /\ freed' = freed /\ abandoned' = abandoned /\ unseen' = unseen
Idle == Staying /\ wk' = wk /\ (ptp' = ptp \/ (main = "pollStop" /\ ptp' = "stopping"))
Working(w) ==
  /\ Staying /\ ptp' = ptp
  /\ \/ wk[w] = "created" /\ wk' = [wk EXCEPT ![w] = "running"]
     \/ wk[w] = "running" /\ wk' = [wk EXCEPT ![w] = "ended"]
Failing ==
  /\ main \in {"pool", "queues", "device", "rx", "tx"} /\ GiveUp
  /\ freed' = freed /\ unseen' = unseen /\ wk' = wk /\ ptp' = ptp
Over ==
  /\ main' = "end" \/ (main = "loop" /\ main' = "hung")
  /\ freed' = freed /\ abandoned' = abandoned /\ unseen' = unseen /\ wk' = wk /\ ptp' = ptp

StepIs ==
  /\ inst' = inst
  /\ \/ Passing \/ Waiting \/ Idle \/ Failing \/ Over
     \/ \E w \in Workers : (\E v \in {"created", "running", "ended"} : Starting(w, v)) \/ Working(w)

LEMMA StageOf ==
  ASSUME TypeOK, NEW s, main = s, s \notin {"hung", "end"}
  PROVE  /\ s \in Stages /\ s \in Labels(inst) /\ inst \in Instances
         /\ s \in DtnStages => app = "DTN"
         /\ s \in VmcStages => app = "VMC"
         /\ s \in PtpStages => ~inst.ate
  <1>1. main \in Stages \cup {"hung", "end"} /\ inst \in Instances
    BY Zenon DEF TypeOK
  <1>2. Stages \subseteq Labels(inst)
    BY <1>1, StageIs
  <1>3. s \in Labels(inst)
    BY <1>1, <1>2
  <1> QED
    BY <1>1, <1>3 DEF Labels, app

LEMMA WorkerOf ==
  ASSUME TypeOK
  PROVE  /\ {"rx", "tx"} \subseteq Workers
         /\ app = "DTN" => {"ext", "ptp", "rawRx", "rawTx", "ptpRaw"} \subseteq Workers
         /\ app = "VMC" => "ptpPoll" \in Workers
         /\ \A w \in {"rawRx", "rawTx", "ptpRaw", "ptpPoll"} : w \notin OnLcores
  <1>1. inst \in Instances
    BY Zenon DEF TypeOK
  <1>2. /\ {"rx", "tx"} \subseteq Workers
        /\ app = "DTN" => {"ext", "ptp", "rawRx", "rawTx", "ptpRaw"} \subseteq Workers
        /\ app = "VMC" => "ptpPoll" \in Workers
    BY <1>1, WorkersAre
  <1>3. OnLcores \subseteq {"rx", "tx", "ext", "ptp"}
    BY DEF OnLcores
  <1> QED
    BY <1>2, <1>3

(* A step that only moves on. *)
MovesOn(s) ==
  /\ main = s /\ main' = After(main) /\ inst' = inst /\ wk' = wk
  /\ abandoned' = abandoned /\ unseen' = unseen

LEMMA MovingOn ==
  ASSUME TypeOK, NEW s, s \notin {"hung", "end"} \cup Gates, MovesOn(s), freed' \subseteq freed \cup Added(s),
         \/ ptp' = ptp /\ s # "ptpStop"
         \/ s = "ptpInit" /\ ptp' \in {"none", "initialised"}
         \/ s = "ptpStop" /\ ptp' = IF ptp = "running" THEN "stopping" ELSE ptp
  PROVE  StepIs
  <1>1. main \in Stages
    BY StageOf DEF MovesOn
  <1>2. Walking
    BY <1>1 DEF MovesOn, Walking
  <1> QED
    BY <1>2 DEF StepIs, Passing, MovesOn

LEMMA PassingSteps ==
  ASSUME TypeOK,
         \/ Prepare \/ InstallHandlers \/ FindPorts \/ FillCache \/ InitRawPort12 \/ InitRawPorts \/ PtpInit
         \/ LeaveLoop \/ PtpStop \/ RawStop \/ PtpCleanup \/ RawCleanup
         \/ Free("freeCache", {"cache"}) \/ Free("freePorts", {"ports"}) \/ EalCleanup
  PROVE  StepIs
  <1>1. CASE Prepare \/ InstallHandlers \/ FindPorts \/ FillCache \/ InitRawPort12 \/ InitRawPorts \/ LeaveLoop \/ RawStop
    <2>1. \E s \in {"prepare", "handlers", "ports", "cache", "raw12", "raw13", "loop", "rawStop"} : MovesOn(s)
      BY <1>1 DEF Prepare, InstallHandlers, FindPorts, FillCache, InitRawPort12, InitRawPorts, LeaveLoop, RawStop,
                     MovesOn, At, envVars, setVars, endVars
    <2>2. freed' = freed /\ ptp' = ptp
      BY <1>1 DEF Prepare, InstallHandlers, FindPorts, FillCache, InitRawPort12, InitRawPorts, LeaveLoop, RawStop,
                     envVars, setVars, endVars
    <2> QED
      BY <2>1, <2>2, MovingOn DEF Gates
  <1>2. CASE PtpInit
    <2>1. MovesOn("ptpInit") /\ freed' = freed /\ ptp' \in {"none", "initialised"}
      BY <1>2 DEF PtpInit, MovesOn, At, envVars, endVars
    <2> QED
      BY <2>1, MovingOn DEF Gates
  <1>3. CASE PtpStop
    <2>1. MovesOn("ptpStop") /\ freed' = freed /\ ptp' = IF ptp = "running" THEN "stopping" ELSE ptp
      BY <1>3 DEF PtpStop, MovesOn, At, envVars, endVars
    <2> QED
      BY <2>1, MovingOn DEF Gates
  <1>4. ASSUME NEW s \in {"freePtp", "freeRaw", "freeCache", "freePorts", "freeEal"}, NEW things \in SUBSET Added(s),
               Free(s, things)
        PROVE  StepIs
    <2>1. MovesOn(s) /\ freed' \subseteq freed \cup Added(s) /\ ptp' = ptp
      BY <1>4 DEF Free, MovesOn, At, envVars, setVars
    <2> QED
      BY <2>1, MovingOn DEF Gates
  <1>5. CASE PtpCleanup \/ RawCleanup \/ Free("freeCache", {"cache"}) \/ Free("freePorts", {"ports"}) \/ EalCleanup
    BY <1>4, <1>5 DEF PtpCleanup, RawCleanup, EalCleanup, Added
  <1> QED
    BY <1>1, <1>2, <1>3, <1>5

(* A step that may fail. *)
LEMMA FailingSteps ==
  ASSUME TypeOK, NEW s \in {"pool", "queues", "device"}, InitEal \/ MayFail(s)
  PROVE  StepIs
  <1>1. CASE InitEal
    <2>1. /\ main = "eal" /\ (main' = After(main) \/ main' = "end") /\ inst' = inst
          /\ abandoned' = abandoned /\ unseen' = unseen /\ wk' = wk /\ freed' = freed /\ ptp' = ptp
      BY <1>1 DEF InitEal, envVars, setVars, endVars
    <2>2. main \in Stages
      BY <2>1, StageOf
    <2> QED
      BY <2>1, <2>2 DEF StepIs, Passing, Walking, Over, Gates
  <1>2. CASE MayFail(s)
    <2>1. inst' = inst /\ unseen' = unseen /\ wk' = wk /\ freed' = freed /\ ptp' = ptp
      BY <1>2 DEF MayFail, envVars, setVars
    <2>2. CASE At(s) /\ UNCHANGED abandoned
      <3>1. main = s /\ main' = After(main) /\ abandoned' = abandoned
        BY <2>2 DEF At
      <3>2. main \in Stages
        BY <3>1, StageOf
      <3> QED
        BY <2>1, <3>1, <3>2 DEF StepIs, Passing, Walking, Gates
    <2>3. CASE main = s /\ GiveUp
      BY <2>1, <2>3, Zenon DEF StepIs, Failing
    <2> QED
      BY <1>2, <2>2, <2>3 DEF MayFail
  <1> QED
    BY <1>1, <1>2

(* A step that launches a worker, or not. *)
LEMMA LaunchSteps ==
  ASSUME TypeOK, NEW w \in {"rx", "tx"}, Launch(w)
  PROVE  StepIs
  <1>1. inst' = inst /\ unseen' = unseen /\ freed' = freed /\ ptp' = ptp
    BY DEF Launch, envVars, setVars
  <1>2. CASE At(w) /\ NoLcore(w) /\ UNCHANGED abandoned
    <2>1. main = w /\ main' = After(main) /\ abandoned' = abandoned /\ wk' = wk
      BY <1>2 DEF At, NoLcore
    <2>2. main \in Stages
      BY <2>1, StageOf
    <2> QED
      BY <1>1, <2>1, <2>2 DEF StepIs, Passing, Walking, Gates
  <1>3. CASE At(w) /\ Launched(w) /\ UNCHANGED abandoned
    <2>1. main = w /\ main' = After(main) /\ abandoned' = abandoned
      BY <1>3 DEF At
    <2>2. PICK v \in {"running", "ended"} : wk' = [wk EXCEPT ![w] = v]
      BY <1>3 DEF Launched
    <2>3. main \in Stages
      BY <2>1, StageOf
    <2>4. Starting(w, v)
      BY <1>1, <2>1, <2>2, <2>3 DEF Starting, Walking, StartStages
    <2>5. w \in Workers
      BY WorkerOf
    <2> QED
      BY <1>1, <2>4, <2>5 DEF StepIs
  <1>4. CASE main = w /\ GiveUp /\ UNCHANGED wk
    BY <1>1, <1>4, Zenon DEF StepIs, Failing
  <1> QED
    BY <1>2, <1>3, <1>4 DEF Launch

LEMMA StartSteps ==
  ASSUME TypeOK,
         \/ StartRawRx \/ StartRawTx \/ StartExtTx \/ PtpStartRaw \/ PtpStartLcore \/ PollInit
  PROVE  StepIs
  <1>1. ASSUME NEW w \in {"rawRx", "rawTx"}, StartRaw(w) PROVE StepIs
    <2>1. /\ main = w /\ main' = After(main) /\ inst' = inst /\ abandoned' = abandoned /\ unseen' = unseen
          /\ freed' = freed /\ ptp' = ptp /\ (wk' = wk \/ wk' = [wk EXCEPT ![w] = "created"])
      BY <1>1 DEF StartRaw, At, envVars, endVars
    <2>2. main \in Stages /\ app = "DTN"
      BY <2>1, StageOf DEF DtnStages
    <2>3. w \in Workers /\ w \notin OnLcores
      BY <2>2, WorkerOf
    <2>4. CASE wk' = wk
      BY <2>1, <2>2, <2>4 DEF StepIs, Passing, Walking, Gates
    <2>5. CASE wk' = [wk EXCEPT ![w] = "created"]
      <3>1. Starting(w, "created")
        BY <2>1, <2>2, <2>3, <2>5 DEF Starting, Walking, StartStages
      <3> QED
        BY <2>1, <2>3, <3>1 DEF StepIs
    <2> QED
      BY <2>1, <2>4, <2>5
  <1>2. CASE StartExtTx
    <2>1. /\ main = "ext" /\ main' = After(main) /\ inst' = inst /\ abandoned' = abandoned /\ unseen' = unseen
          /\ freed' = freed /\ ptp' = ptp
      BY <1>2 DEF StartExtTx, At, envVars, setVars, endVars
    <2>2. main \in Stages /\ "ext" \in Workers
      BY <2>1, StageOf, WorkerOf DEF DtnStages
    <2>3. CASE wk' = wk
      BY <2>1, <2>2, <2>3 DEF StepIs, Passing, Walking, Gates
    <2>4. CASE Launched("ext")
      <3>1. PICK v \in {"running", "ended"} : wk' = [wk EXCEPT !["ext"] = v]
        BY <2>4 DEF Launched
      <3>2. Starting("ext", v)
        BY <2>1, <2>2, <3>1 DEF Starting, Walking, StartStages
      <3> QED
        BY <2>1, <2>2, <3>2 DEF StepIs
    <2> QED
      BY <1>2, <2>3, <2>4 DEF StartExtTx
  <1>3. CASE PtpStartRaw
    <2>1. /\ main = "ptpRaw" /\ main' = After(main) /\ inst' = inst /\ abandoned' = abandoned /\ unseen' = unseen
          /\ freed' = freed
      BY <1>3 DEF PtpStartRaw, At, envVars, endVars
    <2>2. main \in Stages /\ "ptpRaw" \in Workers /\ "ptpRaw" \notin OnLcores
      BY <2>1, StageOf, WorkerOf DEF DtnStages
    <2>3. CASE wk' = wk /\ (ptp' = ptp \/ ptp' = "running")
      BY <2>1, <2>2, <2>3 DEF StepIs, Passing, Walking, Gates
    <2>4. CASE wk' = [wk EXCEPT !["ptpRaw"] = "created"] /\ ptp' = "running"
      <3>1. Starting("ptpRaw", "created")
        BY <2>1, <2>2, <2>4 DEF Starting, Walking, StartStages
      <3> QED
        BY <2>1, <2>2, <3>1 DEF StepIs
    <2> QED
      BY <1>3, <2>3, <2>4 DEF PtpStartRaw
  <1>4. CASE PtpStartLcore
    <2>1. /\ main = "ptp" /\ main' = After(main) /\ inst' = inst /\ abandoned' = abandoned /\ unseen' = unseen
          /\ freed' = freed /\ ptp' = ptp /\ (wk' = wk \/ wk' = [wk EXCEPT !["ptp"] = "running"])
      BY <1>4 DEF PtpStartLcore, At, envVars, setVars, endVars
    <2>2. main \in Stages /\ "ptp" \in Workers
      BY <2>1, StageOf, WorkerOf DEF DtnStages
    <2>3. CASE wk' = wk
      BY <2>1, <2>2, <2>3 DEF StepIs, Passing, Walking, Gates
    <2>4. CASE wk' = [wk EXCEPT !["ptp"] = "running"]
      <3>1. Starting("ptp", "running")
        BY <2>1, <2>2, <2>4 DEF Starting, Walking, StartStages
      <3> QED
        BY <2>1, <2>2, <3>1 DEF StepIs
    <2> QED
      BY <2>1, <2>3, <2>4
  <1>5. CASE PollInit
    <2>1. /\ main = "poll" /\ main' = After(main) /\ inst' = inst /\ abandoned' = abandoned /\ unseen' = unseen
          /\ freed' = freed /\ ptp' = ptp /\ (wk' = wk \/ wk' = [wk EXCEPT !["ptpPoll"] = "created"])
      BY <1>5 DEF PollInit, At, envVars, setVars, endVars
    <2>2. main \in Stages /\ "ptpPoll" \in Workers /\ "ptpPoll" \notin OnLcores
      BY <2>1, StageOf, WorkerOf DEF VmcStages
    <2>3. CASE wk' = wk
      BY <2>1, <2>2, <2>3 DEF StepIs, Passing, Walking, Gates
    <2>4. CASE wk' = [wk EXCEPT !["ptpPoll"] = "created"]
      <3>1. Starting("ptpPoll", "created")
        BY <2>1, <2>2, <2>4 DEF Starting, Walking, StartStages
      <3> QED
        BY <2>1, <2>2, <3>1 DEF StepIs
    <2> QED
      BY <2>1, <2>3, <2>4
  <1> QED
    BY <1>1, <1>2, <1>3, <1>4, <1>5 DEF StartRawRx, StartRawTx

(* A step that waits for workers. *)
LEMMA WaitingSteps ==
  ASSUME TypeOK, PtpJoin \/ PollStop \/ RawTxJoin \/ RawRxJoin \/ Wait
  PROVE  StepIs
  <1>1. ASSUME NEW s \in Gates, At(s), inst' = inst, freed' \subseteq freed \cup Added(s),
               abandoned' = abandoned, unseen \subseteq unseen', unseen' \subseteq unseen \cup LeftAt(s), wk' = wk, ptp' = ptp,
               /\ s = "wait" => \A w \in OnLcores : wk[w] # "running"
               /\ s = "rawTxJoin" => (Living("rawTx") => "rawTx" \in unseen')
               /\ s = "rawRxJoin" => (Living("rawRx") => "rawRx" \in unseen')
               /\ s = "ptpJoin" => (ptp = "stopping" => wk["ptpRaw"] \in {"none", "ended"})
               /\ s = "pollStop" => wk["ptpPoll"] \in {"none", "ended"}
        PROVE  StepIs
    <2>1. main = s /\ main' = After(main)
      BY <1>1 DEF At
    <2>2. main \in Stages
      BY <2>1, StageOf DEF Gates
    <2>3. Walking
      BY <1>1, <2>1, <2>2, Zenon DEF Walking
    <2>4. Waiting
      BY <1>1, <2>1, <2>3, Zenon DEF Waiting
    <2> QED
      BY <1>1, <2>4, Zenon DEF StepIs
  <1>2. CASE PtpJoin
    <2>1. /\ At("ptpJoin") /\ inst' = inst /\ freed' = freed /\ abandoned' = abandoned /\ unseen' = unseen
          /\ wk' = wk /\ ptp' = ptp /\ (ptp = "stopping" => wk["ptpRaw"] \in {"none", "ended"})
      BY <1>2 DEF PtpJoin, envVars, setVars, endVars
    <2> QED
      BY <1>1, <2>1 DEF Gates
  <1>3. CASE PollStop
    <2>1. main = "pollStop" /\ inst' = inst /\ freed' = freed /\ abandoned' = abandoned /\ unseen' = unseen /\ wk' = wk
      BY <1>3 DEF PollStop, envVars, endVars
    <2>2. CASE ptp' = "stopping" /\ UNCHANGED main
      BY <2>1, <2>2 DEF StepIs, Idle, Staying
    <2>3. CASE wk["ptpPoll"] \in {"none", "ended"} /\ At("pollStop") /\ UNCHANGED ptp
      BY <1>1, <2>1, <2>3 DEF Gates
    <2> QED
      BY <1>3, <2>2, <2>3 DEF PollStop
  <1>4. CASE RawTxJoin
    <2>1. /\ At("rawTxJoin") /\ inst' = inst /\ freed' = freed /\ abandoned' = abandoned /\ wk' = wk /\ ptp' = ptp
          /\ unseen \subseteq unseen' /\ unseen' \subseteq unseen \cup LeftAt("rawTxJoin")
          /\ (Living("rawTx") => "rawTx" \in unseen')
      BY <1>4 DEF RawTxJoin, Joined, Living, LeftAt, envVars, setVars
    <2> QED
      BY <1>1, <2>1 DEF Gates
  <1>5. CASE RawRxJoin
    <2>1. /\ At("rawRxJoin") /\ inst' = inst /\ abandoned' = abandoned /\ wk' = wk /\ ptp' = ptp
          /\ unseen \subseteq unseen' /\ unseen' \subseteq unseen \cup LeftAt("rawRxJoin")
          /\ (Living("rawRx") => "rawRx" \in unseen')
      BY <1>5 DEF RawRxJoin, Joined, Living, LeftAt, envVars, setVars
    <2>2. freed' \subseteq freed \cup Added("rawRxJoin")
      BY <1>5 DEF RawRxJoin, Added
    <2> QED
      BY <1>1, <2>1, <2>2 DEF Gates
  <1>6. CASE Wait
    <2>1. /\ At("wait") /\ inst' = inst /\ freed' = freed /\ abandoned' = abandoned /\ unseen' = unseen
          /\ wk' = wk /\ ptp' = ptp /\ \A w \in OnLcores : wk[w] # "running"
      BY <1>6 DEF Wait, envVars, setVars, endVars
    <2> QED
      BY <1>1, <2>1 DEF Gates
  <1> QED
    BY <1>2, <1>3, <1>4, <1>5, <1>6

(* The loop, the signals and the workers. *)
LEMMA OtherSteps ==
  ASSUME TypeOK,
         \/ \E n \in 1 .. 2 : Pass(n)
         \/ Hang \/ HandoverDone \/ SignalKills \/ SignalHandler \/ MmmsSignalHandler
         \/ \E w \in AllWorkers : WorkerStep(w)
         \/ UNCHANGED vars
  PROVE  StepIs
  <1>1. CASE (\E n \in 1 .. 2 : Pass(n)) \/ HandoverDone \/ SignalHandler \/ MmmsSignalHandler \/ UNCHANGED vars
    <2>1. inst' = inst /\ Staying /\ wk' = wk /\ ptp' = ptp
      BY <1>1 DEF Pass, HandoverDone, SignalHandler, MmmsSignalHandler, Staying, envVars, setVars, endVars, vars
    <2> QED
      BY <2>1, Zenon DEF StepIs, Idle
  <1>2. CASE Hang \/ SignalKills
    <2>1. inst' = inst /\ Over
      BY <1>2 DEF Hang, InLoop, SignalKills, Over, envVars, setVars, endVars
    <2> QED
      BY <2>1, Zenon DEF StepIs
  <1>3. ASSUME NEW w \in AllWorkers, WorkerStep(w) PROVE StepIs
    <2>1. w \in Workers /\ inst' = inst /\ Working(w)
      BY <1>3 DEF WorkerStep, ThreadRuns, WorkerEnds, Working, Staying, envVars, setVars, endVars
    <2> QED
      BY <2>1, Zenon DEF StepIs
  <1> QED
    BY <1>1, <1>2, <1>3

LEMMA NextIs == TypeOK /\ [Next]_vars => StepIs
  <1> SUFFICES ASSUME TypeOK, [Next]_vars PROVE StepIs
    OBVIOUS
  <1>1. CASE SetUpStep
    BY <1>1, PassingSteps, FailingSteps
       DEF SetUpStep, InitEalDtn, InitEalCmc, InitEalVmc, FindPortsDtn, FindPortsCmc, FindPortsVmc,
           FillCacheDtn, FillCacheCmc, FillCacheVmc, CreatePoolDtn, CreatePoolCmc, CreatePoolVmc,
           SetUpQueuesDtn, SetUpQueuesCmc, SetUpQueuesVmc, StartDeviceDtn, StartDeviceCmc, StartDeviceVmc
  <1>2. CASE StartStep
    BY <1>2, PassingSteps, LaunchSteps, StartSteps
       DEF StartStep, LaunchRxDtn, LaunchRxCmc, LaunchRxVmc, LaunchTxDtn, LaunchTxCmc, LaunchTxVmc
  <1>3. CASE StopStep
    BY <1>3, PassingSteps, WaitingSteps
       DEF StopStep, CacheCleanupDtn, CacheCleanupCmc, CacheCleanupVmc,
           PortsCleanupDtn, PortsCleanupCmc, PortsCleanupVmc
  <1>4. CASE LoopStep
    BY <1>4, OtherSteps DEF LoopStep, PrintStats, ResetStats
  <1> QED
    BY <1>1, <1>2, <1>3, <1>4, OtherSteps DEF Next, MainStep

-----------------------------------------------------------------------------
(* What every step keeps.                                                    *)

LEMMA Moves ==
  ASSUME TypeOK, Walking
  PROVE  Edge(inst, main, main') \/ (main = "freeEal" /\ main' = "end")
  <1>1. inst \in Instances
    BY Zenon DEF TypeOK
  <1> QED
    BY <1>1, StageIs, Zenon DEF Walking

(* Nobody alive is passed over unnoticed. *)
LEMMA GoneKept == LifeInv /\ StepIs => GoneInv'
  <1> SUFFICES ASSUME LifeInv, StepIs, NEW w \in Workers', main' \in Past(w), Living(w)'
               PROVE  w \in abandoned' \cup unseen'
    BY DEF GoneInv
  <1>1. TypeOK /\ GoneInv /\ LcoreInv /\ PtpInv
    BY Zenon DEF LifeInv
  <1>2. w \in Workers /\ inst' = inst
    BY SetsStay, Zenon DEF StepIs
  <1>3. wk'[w] \in {"created", "running"}
    BY DEF Living
  <1>4. main' \notin {"hung", "end"} /\ main' \notin StartStages
    <2>1. w \in AllWorkers
      BY <1>1, <1>2, WorkersAre, Zenon DEF TypeOK
    <2> QED
      BY <2>1 DEF Past, Freeing, AllWorkers, StartStages
  <1>5. ASSUME Walking
        PROVE  \/ main \in Past(w)
               \/ w \in OnLcores /\ main = "wait"
               \/ w = "rawTx" /\ main = "rawTxJoin"
               \/ w = "rawRx" /\ main = "rawRxJoin"
               \/ w = "ptpPoll" /\ main = "pollStop"
               \/ w = "ptpRaw" /\ (main = "ptpJoin" \/ (main = "loop" /\ inst.ate))
    <2>1. Edge(inst, main, main')
      BY <1>1, <1>4, <1>5, Moves
    <2>2. main \in Labels(inst)
      BY <1>1, <1>5, StageIs DEF Walking, TypeOK
    <2>3. PICK s, t : s = main /\ t = main'
      OBVIOUS
    <2> QED
      BY <1>1, <1>2, <2>1, <2>2, <2>3, Entering, Zenon
  <1>6. CASE Passing
    <2>1. wk[w] \in {"created", "running"} /\ main \notin Gates /\ Walking /\ abandoned' = abandoned /\ unseen' = unseen
      BY <1>3, <1>6, Zenon DEF Passing, Walking
    <2>2. CASE main \in Past(w)
      BY <1>1, <1>2, <2>1, <2>2, Zenon DEF GoneInv, Living
    <2>3. ~(w = "ptpRaw" /\ inst.ate)
      BY <1>1, <1>2, <2>1, WorkersAre DEF PtpInv, TypeOK
    <2> QED
      BY <1>5, <2>1, <2>2, <2>3 DEF Gates
  <1>7. CASE Waiting
    <2>1. wk[w] \in {"created", "running"} /\ Walking /\ abandoned' = abandoned /\ unseen \subseteq unseen'
      BY <1>3, <1>7, Zenon DEF Waiting, Walking
    <2>2. CASE main \in Past(w)
      BY <1>1, <1>2, <2>1, <2>2 DEF GoneInv, Living
    <2>3. ~(w \in OnLcores /\ main = "wait")
      BY <1>1, <1>7, <2>1 DEF LcoreInv, Waiting
    <2>4. ~(w = "ptpPoll" /\ main = "pollStop")
      BY <1>7, <2>1 DEF Waiting
    <2>5. ~(w = "ptpRaw" /\ main = "ptpJoin")
      <3>1. app = "DTN" \/ w # "ptpRaw"
        BY <1>1, <1>2, WorkersAre DEF TypeOK
      <3> QED
        BY <1>1, <1>7, <2>1, <3>1 DEF PtpInv, Waiting
    <2>6. main \in Gates
      BY <1>7 DEF Waiting
    <2>7. CASE w = "rawTx" /\ main = "rawTxJoin"
      BY <1>7, <2>1, <2>7 DEF Waiting, Living
    <2>8. CASE w = "rawRx" /\ main = "rawRxJoin"
      BY <1>7, <2>1, <2>8 DEF Waiting, Living
    <2> QED
      BY <1>5, <2>1, <2>2, <2>3, <2>4, <2>5, <2>6, <2>7, <2>8 DEF Gates
  <1>8. CASE Idle
    BY <1>1, <1>2, <1>3, <1>8 DEF Idle, Staying, GoneInv, Living
  <1>9. CASE Failing
    BY <1>2, <1>3, <1>9 DEF Failing, GiveUp
  <1>10. CASE Over
    BY <1>4, <1>10 DEF Over
  <1>11. ASSUME NEW x \in Workers, NEW v \in {"created", "running", "ended"}, Starting(x, v)
         PROVE  w \in abandoned' \cup unseen'
    <2>1. Walking /\ main \in StartStages
      BY <1>11, Zenon DEF Starting
    <2>2. main \notin Past(w)
      <3>1. w \in AllWorkers
        BY <1>1, <1>2, WorkersAre, Zenon DEF TypeOK
      <3> QED
        BY <2>1, <3>1 DEF Past, Freeing, AllWorkers, StartStages
    <2> QED
      BY <1>5, <2>1, <2>2 DEF StartStages
  <1>12. ASSUME NEW x \in Workers, Working(x) PROVE w \in abandoned' \cup unseen'
    <2>1. main' = main /\ abandoned' = abandoned /\ unseen' = unseen
      BY <1>12 DEF Working, Staying
    <2>2. wk[w] \in {"created", "running"}
      <3>1. wk \in [Workers -> {"none", "created", "running", "ended"}]
        BY <1>1, Zenon DEF TypeOK
      <3> QED
        BY <1>2, <1>3, <1>12, <3>1 DEF Working
    <2> QED
      BY <1>1, <1>2, <2>1, <2>2 DEF GoneInv, Living
  <1> QED
    BY <1>6, <1>7, <1>8, <1>9, <1>10, <1>11, <1>12, Zenon DEF StepIs

(* What is freed at a stage is what the stages before it free. *)
LEMMA FreedKept == LifeInv /\ StepIs => FreedInv'
  <1> SUFFICES ASSUME LifeInv, StepIs, main' # "end" PROVE freed' \subseteq MayBeFreed(main')
    BY DEF FreedInv
  <1>1. TypeOK /\ (main # "end" => freed \subseteq MayBeFreed(main))
    BY Zenon DEF LifeInv, FreedInv
  <1>2. CASE Walking
    <2>1. <<main, main'>> \in Pairs
      BY <1>1, <1>2, Moves DEF Edge
    <2>2. MayBeFreed(main) \cup Added(main) \subseteq MayBeFreed(main')
      BY <2>1 DEF Pairs, MayBeFreed, Added
    <2>3. main # "end"
      BY <2>1 DEF Pairs
    <2> QED
      BY <1>1, <1>2, <2>2, <2>3 DEF Walking
  <1>3. CASE Staying
    BY <1>1, <1>3 DEF Staying
  <1>4. CASE Failing
    BY <1>1, <1>4 DEF Failing, GiveUp, MayBeFreed
  <1>5. CASE Over
    BY <1>1, <1>5 DEF Over, MayBeFreed
  <1> QED
    BY <1>2, <1>3, <1>4, <1>5, Zenon DEF StepIs, Passing, Waiting, Idle, Starting, Working

(* A worker on an lcore runs as soon as it is launched. *)
LEMMA LcoreKept == LifeInv /\ StepIs => LcoreInv'
  <1> SUFFICES ASSUME LifeInv, StepIs, NEW w \in OnLcores' PROVE wk'[w] # "created"
    BY DEF LcoreInv
  <1>1. wk \in [Workers -> {"none", "created", "running", "ended"}]
    BY Zenon DEF LifeInv, TypeOK
  <1>2. w \in OnLcores /\ wk[w] # "created" /\ w \in Workers
    BY SetsStay, Zenon DEF StepIs, LifeInv, LcoreInv, Workers
  <1>3. CASE wk' = wk
    BY <1>2, <1>3
  <1>4. ASSUME NEW x \in Workers, NEW v \in {"created", "running", "ended"}, Starting(x, v)
        PROVE  wk'[w] # "created"
    BY <1>1, <1>2, <1>4 DEF Starting
  <1>5. ASSUME NEW x \in Workers, Working(x) PROVE wk'[w] # "created"
    BY <1>1, <1>2, <1>5 DEF Working
  <1> QED
    BY <1>3, <1>4, <1>5, Zenon DEF StepIs, Passing, Waiting, Idle, Failing, Over

(* The PTP thread exists only while PTP runs or stops. *)
LEMMA PtpKept == LifeInv /\ StepIs => PtpInv'
  <1> SUFFICES ASSUME LifeInv, StepIs, app' = "DTN"
               PROVE  /\ wk'["ptpRaw"] # "none" => ptp' \in {"running", "stopping"} /\ ~inst'.ate
                      /\ main' \in BeforePtp => wk'["ptpRaw"] = "none"
                      /\ main' = "ptpJoin" => ptp' # "running"
    BY DEF PtpInv
  <1>1. /\ TypeOK /\ inst' = inst /\ app = "DTN"
        /\ wk["ptpRaw"] # "none" => ptp \in {"running", "stopping"} /\ ~inst.ate
        /\ main \in BeforePtp => wk["ptpRaw"] = "none"
        /\ main = "ptpJoin" => ptp # "running"
    BY SetsStay, Zenon DEF LifeInv, PtpInv, StepIs
  <1>2. wk \in [Workers -> {"none", "created", "running", "ended"}] /\ "ptpRaw" \in Workers
    <2>1. "ptpRaw" \in Workers
      BY <1>1, WorkerOf
    <2> QED
      BY <1>1, <2>1, Zenon DEF TypeOK
  <1>3. ASSUME Walking
        PROVE  /\ main' \in BeforePtp => main \in BeforePtp
               /\ main' = "ptpJoin" => main = "ptpStop"
               /\ main = "ptpRaw" => main' \notin BeforePtp /\ main' # "ptpJoin" /\ ~inst.ate
               /\ main # "pollStop"
    <2>1. Edge(inst, main, main') \/ (main = "freeEal" /\ main' = "end")
      BY <1>1, <1>3, Moves
    <2>2. <<main, main'>> \in Pairs \/ (main = "freeEal" /\ main' = "end")
      BY <2>1 DEF Edge
    <2>3. main \in Labels(inst)
      BY <1>1, <1>3, StageIs DEF Walking, TypeOK
    <2>4. main # "pollStop" /\ main # "poll"
      BY <1>1, <2>3 DEF Labels, VmcStages, app
    <2>5. main = "ptpRaw" => ~inst.ate
      BY <2>3 DEF Labels, PtpStages
    <2>6. /\ main' \in BeforePtp => main \in BeforePtp
          /\ main' = "ptpJoin" => main = "ptpStop"
          /\ main = "ptpRaw" => main' \notin BeforePtp /\ main' # "ptpJoin"
      BY <2>2, <2>4 DEF Pairs, BeforePtp
    <2> QED
      BY <2>4, <2>5, <2>6
  <1>4. CASE Passing
    <2>1. Walking /\ wk' = wk
      BY <1>4, Zenon DEF Passing
    <2>2. CASE ptp' = ptp /\ main # "ptpStop"
      BY <1>1, <1>3, <2>1, <2>2
    <2>3. CASE main = "ptpInit" /\ ptp' \in {"none", "initialised"}
      BY <1>1, <1>3, <2>1, <2>3 DEF BeforePtp
    <2>4. CASE main = "ptpRaw" /\ ptp' = "running"
      BY <1>1, <1>3, <2>1, <2>4 DEF BeforePtp
    <2>5. CASE main = "ptpStop" /\ ptp' = IF ptp = "running" THEN "stopping" ELSE ptp
      BY <1>1, <1>3, <2>1, <2>5 DEF BeforePtp
    <2> QED
      BY <1>4, <2>2, <2>3, <2>4, <2>5, Zenon DEF Passing
  <1>5. CASE Waiting
    BY <1>1, <1>3, <1>5 DEF Waiting, Gates
  <1>6. CASE Idle
    <2>1. main # "pollStop"
      BY <1>1, StageOf DEF VmcStages
    <2> QED
      BY <1>1, <1>6, <2>1 DEF Idle, Staying
  <1>7. CASE Failing
    BY <1>1, <1>7 DEF Failing, GiveUp, BeforePtp
  <1>8. CASE Over
    BY <1>1, <1>8 DEF Over, BeforePtp
  <1>9. ASSUME NEW x \in Workers, NEW v \in {"created", "running", "ended"}, Starting(x, v)
        PROVE  /\ wk'["ptpRaw"] # "none" => ptp' \in {"running", "stopping"} /\ ~inst'.ate
               /\ main' \in BeforePtp => wk'["ptpRaw"] = "none"
               /\ main' = "ptpJoin" => ptp' # "running"
    <2>1. Walking /\ wk' = [wk EXCEPT ![x] = v] /\ main \in StartStages
      BY <1>9, Zenon DEF Starting
    <2>2. CASE x = "ptpRaw"
      <3>1. main = "ptpRaw" /\ ptp' = "running"
        BY <1>9, <2>2 DEF Starting
      <3> QED
        BY <1>1, <1>3, <2>1, <3>1
    <2>3. CASE x # "ptpRaw"
      <3>1. wk'["ptpRaw"] = wk["ptpRaw"] /\ ptp' = ptp
        BY <1>2, <1>9, <2>1, <2>3 DEF Starting
      <3> QED
        BY <1>1, <1>3, <2>1, <3>1 DEF StartStages
    <2> QED
      BY <2>2, <2>3
  <1>10. ASSUME NEW x \in Workers, Working(x)
         PROVE  /\ wk'["ptpRaw"] # "none" => ptp' \in {"running", "stopping"} /\ ~inst'.ate
                /\ main' \in BeforePtp => wk'["ptpRaw"] = "none"
                /\ main' = "ptpJoin" => ptp' # "running"
    <2>1. main' = main /\ ptp' = ptp
      BY <1>10 DEF Working, Staying
    <2>2. \/ wk'["ptpRaw"] = wk["ptpRaw"]
          \/ wk["ptpRaw"] # "none"
      BY <1>2, <1>10 DEF Working
    <2> QED
      BY <1>1, <2>1, <2>2
  <1> QED
    BY <1>4, <1>5, <1>6, <1>7, <1>8, <1>9, <1>10, Zenon DEF StepIs

(* Types: the variables of the environment, the settings, and the others. *)
LEMMA EnvKept ==
  ASSUME TypeOK, [Next]_vars
  PROVE  handlers' \in BOOLEAN /\ calm' \in BOOLEAN /\ quit' \in BOOLEAN /\ sent' \in 0 .. inst.signals
  <1>1. /\ handlers \in BOOLEAN /\ calm \in BOOLEAN /\ quit \in BOOLEAN /\ sent \in 0 .. inst.signals
        /\ inst.signals \in Nat
    BY InstanceIs DEF TypeOK
  <1>2. CASE handlers' = handlers /\ calm' = calm /\ quit' = quit /\ sent' = sent
    BY <1>1, <1>2
  <1>3. CASE InstallHandlers \/ HandoverDone
    BY <1>1, <1>3 DEF InstallHandlers, HandoverDone
  <1>4. ASSUME sent' = sent + 1, sent < inst.signals PROVE sent' \in 0 .. inst.signals
    BY <1>1, <1>4
  <1>5. CASE SignalKills \/ SignalHandler \/ MmmsSignalHandler
    BY <1>1, <1>4, <1>5 DEF SignalKills, SignalHandler, MmmsSignalHandler
  <1>6. CASE SetUpStep
    BY <1>2, <1>3, <1>6
       DEF SetUpStep, Prepare, InitEal, InitEalDtn, InitEalCmc, InitEalVmc, FindPorts, FindPortsDtn, FindPortsCmc,
           FindPortsVmc, FillCache, FillCacheDtn, FillCacheCmc, FillCacheVmc, MayFail, CreatePoolDtn, CreatePoolCmc,
           CreatePoolVmc, SetUpQueuesDtn, SetUpQueuesCmc, SetUpQueuesVmc, StartDeviceDtn, StartDeviceCmc,
           StartDeviceVmc, InitRawPort12, InitRawPorts, envVars
  <1>7. CASE StartStep
    BY <1>2, <1>7
       DEF StartStep, Launch, LaunchRxDtn, LaunchRxCmc, LaunchRxVmc, LaunchTxDtn, LaunchTxCmc, LaunchTxVmc,
           StartRaw, StartRawRx, StartRawTx, StartExtTx, PtpInit, PtpStartRaw, PtpStartLcore, PollInit, envVars
  <1>8. CASE StopStep
    BY <1>2, <1>8
       DEF StopStep, LeaveLoop, PtpStop, PtpJoin, PollStop, RawStop, RawTxJoin, RawRxJoin, Wait, PtpCleanup,
           RawCleanup, CacheCleanupDtn, CacheCleanupCmc, CacheCleanupVmc, PortsCleanupDtn, PortsCleanupCmc,
           PortsCleanupVmc, EalCleanup, Free, envVars
  <1>9. CASE LoopStep \/ UNCHANGED vars \/ (\E w \in AllWorkers : WorkerStep(w))
    BY <1>2, <1>9 DEF LoopStep, PrintStats, ResetStats, Pass, Hang, vars, WorkerStep, ThreadRuns, WorkerEnds, envVars
  <1> QED
    BY <1>3, <1>5, <1>6, <1>7, <1>8, <1>9 DEF Next, MainStep

LEMMA RawType ==
  ASSUME TypeOK, NEW port \in RawPorts, InitRawPort(port)
  PROVE  raw' \in [locks : SUBSET RawPorts, usable : BOOLEAN, stop : BOOLEAN]
  <1>1. raw \in [locks : SUBSET RawPorts, usable : BOOLEAN, stop : BOOLEAN]
    BY Zenon DEF TypeOK
  <1>2. PICK locked, usable \in BOOLEAN :
          raw' = [raw EXCEPT !.locks = IF locked THEN @ \cup {port} ELSE @, !.usable = usable]
    BY Zenon DEF InitRawPort
  <1> QED
    BY <1>1, <1>2

LEMMA SettingSteps ==
  ASSUME [Next]_vars
  PROVE  \/ lcore' = lcore /\ cached' = cached /\ raw' = raw /\ passes' = passes
         \/ FindPorts \/ FillCache \/ InitRawPort12 \/ InitRawPorts \/ StartRawRx \/ StartRawTx \/ RawStop
         \/ PrintStats \/ ResetStats
  <1>1. CASE SetUpStep
    BY <1>1
       DEF SetUpStep, Prepare, InitEal, InitEalDtn, InitEalCmc, InitEalVmc, InstallHandlers, FindPortsDtn,
           FindPortsCmc, FindPortsVmc, FillCacheDtn, FillCacheCmc, FillCacheVmc, MayFail, CreatePoolDtn,
           CreatePoolCmc, CreatePoolVmc, SetUpQueuesDtn, SetUpQueuesCmc, SetUpQueuesVmc, StartDeviceDtn,
           StartDeviceCmc, StartDeviceVmc, setVars
  <1>2. CASE StartStep
    BY <1>2
       DEF StartStep, Launch, LaunchRxDtn, LaunchRxCmc, LaunchRxVmc, LaunchTxDtn, LaunchTxCmc, LaunchTxVmc,
           StartExtTx, PtpInit, PtpStartRaw, PtpStartLcore, PollInit, setVars
  <1>3. CASE StopStep
    BY <1>3
       DEF StopStep, LeaveLoop, PtpStop, PtpJoin, PollStop, RawTxJoin, RawRxJoin, Wait, PtpCleanup, RawCleanup,
           CacheCleanupDtn, CacheCleanupCmc, CacheCleanupVmc, PortsCleanupDtn, PortsCleanupCmc, PortsCleanupVmc,
           EalCleanup, Free, setVars
  <1>4. CASE LoopStep
    BY <1>4 DEF LoopStep, Hang, setVars
  <1>5. CASE HandoverDone \/ SignalKills \/ SignalHandler \/ MmmsSignalHandler
    BY <1>5 DEF HandoverDone, SignalKills, SignalHandler, MmmsSignalHandler, setVars
  <1>6. CASE UNCHANGED vars \/ (\E w \in AllWorkers : WorkerStep(w))
    BY <1>6 DEF vars, WorkerStep, ThreadRuns, WorkerEnds, setVars
  <1> QED
    BY <1>1, <1>2, <1>3, <1>4, <1>5, <1>6, Zenon DEF Next, MainStep

LEMMA SettingsKept ==
  ASSUME TypeOK, [Next]_vars
  PROVE  /\ lcore' \in [OnLcores -> 0 .. inst.lcores] /\ cached' \in BOOLEAN
         /\ raw' \in [locks : SUBSET RawPorts, usable : BOOLEAN, stop : BOOLEAN]
         /\ passes' \in 0 .. 2
  <1>1. /\ lcore \in [OnLcores -> 0 .. inst.lcores] /\ cached \in BOOLEAN
        /\ raw \in [locks : SUBSET RawPorts, usable : BOOLEAN, stop : BOOLEAN] /\ passes \in 0 .. 2
    BY Zenon DEF TypeOK
  <1>2. lcore' = lcore \/ lcore' \in [OnLcores -> 0 .. inst.lcores]
    <2>1. CASE FindPorts
      <3>1. app \in {"DTN", "CMC", "VMC"}
        BY InstanceIs DEF TypeOK, app
      <3>2. LcoresDtn \cup LcoresCmc \cup LcoresVmc \subseteq [OnLcores -> 0 .. inst.lcores]
        BY Zenon DEF LcoresDtn, LcoresCmc, LcoresVmc, AssignInOrder
      <3> QED
        BY <2>1, <3>1, <3>2 DEF FindPorts
    <2>2. CASE ~FindPorts
      BY <2>2, SettingSteps
         DEF FillCache, InitRawPort12, InitRawPorts, StartRawRx, StartRawTx, StartRaw, RawStop, PrintStats,
             ResetStats, Pass
    <2> QED
      BY <2>1, <2>2
  <1>3. cached' \in BOOLEAN
    BY <1>1, SettingSteps
       DEF FindPorts, FillCache, InitRawPort12, InitRawPorts, StartRawRx, StartRawTx, StartRaw, RawStop, PrintStats,
           ResetStats, Pass
  <1>4. raw' \in [locks : SUBSET RawPorts, usable : BOOLEAN, stop : BOOLEAN]
    <2>1. CASE InitRawPort12 \/ InitRawPorts
      <3>1. raw' = raw \/ InitRawPort(12) \/ InitRawPort(13)
        BY <2>1, Zenon DEF InitRawPort12, InitRawPorts
      <3> QED
        BY <1>1, <3>1, RawType DEF RawPorts
    <2>2. CASE ~(InitRawPort12 \/ InitRawPorts)
      <3>1. raw' = raw \/ raw' = [raw EXCEPT !.usable = FALSE] \/ raw' = [raw EXCEPT !.stop = raw.usable]
        BY <2>2, SettingSteps, Zenon
           DEF FindPorts, FillCache, StartRawRx, StartRawTx, StartRaw, RawStop, PrintStats, ResetStats, Pass
      <3> QED
        BY <1>1, <3>1
    <2> QED
      BY <2>1, <2>2
  <1>5. passes' \in 0 .. 2
    <2>1. passes' = passes \/ passes' = 1 \/ passes' = 2
      BY SettingSteps
         DEF FindPorts, FillCache, InitRawPort12, InitRawPorts, StartRawRx, StartRawTx, StartRaw, RawStop,
             PrintStats, ResetStats, Pass
    <2> QED
      BY <1>1, <2>1
  <1> QED
    BY <1>2, <1>1, <1>3, <1>4, <1>5

LEMMA StateKept ==
  ASSUME TypeOK, StepIs
  PROVE  /\ main' \in Stages \cup {"hung", "end"}
         /\ ptp' \in {"none", "initialised", "running", "stopping"}
         /\ wk' \in [Workers -> {"none", "created", "running", "ended"}]
         /\ abandoned' \subseteq Workers
  <1>1. /\ main \in Stages \cup {"hung", "end"} /\ inst \in Instances
        /\ ptp \in {"none", "initialised", "running", "stopping"}
        /\ wk \in [Workers -> {"none", "created", "running", "ended"}] /\ abandoned \subseteq Workers
    BY Zenon DEF TypeOK
  <1>2. ASSUME Walking PROVE main' \in Stages \cup {"hung", "end"} /\ abandoned' = abandoned
    BY <1>1, <1>2, StageIs, Zenon DEF Walking
  <1>3. CASE Passing
    BY <1>1, <1>2, <1>3 DEF Passing
  <1>4. CASE Waiting
    BY <1>1, <1>2, <1>4 DEF Waiting
  <1>5. CASE Idle
    BY <1>1, <1>5 DEF Idle, Staying
  <1>6. CASE Failing
    <2>1. "freeCache" \in Stages
      BY <1>1, StageIs
    <2> QED
      BY <1>1, <1>6, <2>1 DEF Failing, GiveUp
  <1>7. CASE Over
    BY <1>1, <1>7 DEF Over
  <1>8. ASSUME NEW w \in Workers, NEW v \in {"created", "running", "ended"}, Starting(w, v)
        PROVE  /\ main' \in Stages \cup {"hung", "end"}
               /\ ptp' \in {"none", "initialised", "running", "stopping"}
               /\ wk' \in [Workers -> {"none", "created", "running", "ended"}]
               /\ abandoned' \subseteq Workers
    <2>1. Walking /\ (ptp' = "running" \/ ptp' = ptp) /\ wk' = [wk EXCEPT ![w] = v]
      BY <1>8 DEF Starting
    <2> QED
      BY <1>1, <1>2, <2>1
  <1>9. ASSUME NEW w \in Workers, Working(w)
        PROVE  /\ main' \in Stages \cup {"hung", "end"}
               /\ ptp' \in {"none", "initialised", "running", "stopping"}
               /\ wk' \in [Workers -> {"none", "created", "running", "ended"}]
               /\ abandoned' \subseteq Workers
    BY <1>1, <1>9 DEF Working, Staying
  <1> QED
    BY <1>3, <1>4, <1>5, <1>6, <1>7, <1>8, <1>9, Zenon DEF StepIs

LEMMA FreedAre ==
  ASSUME LifeInv, [Next]_vars
  PROVE  freed' \subseteq {"eal", "ports", "cache", "raw", "rings", "ptp"} /\ unseen' \subseteq Workers
  <1>1. /\ TypeOK /\ freed \subseteq {"eal", "ports", "cache", "raw", "rings", "ptp"} /\ unseen \subseteq Workers
    BY Zenon DEF LifeInv, TypeOK
  <1>2. StepIs
    BY <1>1, NextIs
  <1>3. freed' \subseteq {"eal", "ports", "cache", "raw", "rings", "ptp"}
    <2>1. freed' = freed \/ freed' \subseteq freed \cup Added(main)
      BY <1>2, Zenon DEF StepIs, Passing, Waiting, Idle, Failing, Over, Starting, Working, Walking, Staying
    <2>2. Added(main) \subseteq {"eal", "ports", "cache", "raw", "rings", "ptp"}
      BY DEF Added
    <2> QED
      BY <1>1, <2>1, <2>2
  <1>4. unseen' \subseteq Workers
    <2>1. CASE Waiting
      <3>1. LeftAt(main) \subseteq Workers
        <4>1. CASE main \in {"rawTxJoin", "rawRxJoin"}
          <5>1. app = "DTN"
            BY <1>1, <4>1, StageOf DEF DtnStages
          <5> QED
            BY <1>1, <5>1, WorkerOf DEF LeftAt
        <4> QED
          BY <4>1 DEF LeftAt
      <3> QED
        BY <1>1, <2>1, <3>1 DEF Waiting
    <2>2. CASE unseen' = unseen
      BY <1>1, <2>2
    <2> QED
      BY <1>2, <2>1, <2>2, Zenon DEF StepIs, Passing, Idle, Failing, Over, Starting, Working, Staying
  <1> QED
    BY <1>3, <1>4

LEMMA LifeKept == LifeInv /\ [Next]_vars => LifeInv'
  <1> SUFFICES ASSUME LifeInv, [Next]_vars PROVE LifeInv'
    OBVIOUS
  <1>1. TypeOK
    BY Zenon DEF LifeInv
  <1>2. StepIs
    BY <1>1, NextIs
  <1>3. inst' = inst /\ inst \in Instances
    BY <1>1, <1>2, Zenon DEF StepIs, TypeOK
  <1>4. TypeOK'
    BY <1>1, <1>2, <1>3, SetsStay, EnvKept, SettingsKept, StateKept, FreedAre, Zenon DEF TypeOK
  <1> QED
    BY <1>2, <1>4, GoneKept, FreedKept, LcoreKept, PtpKept, Zenon DEF LifeInv

LEMMA LifeStart == Init => LifeInv
  <1> SUFFICES ASSUME Init PROVE LifeInv
    OBVIOUS
  <1>1. inst \in Instances /\ main = "prepare" /\ freed = {} /\ abandoned = {} /\ unseen = {}
    BY DEF Init
  <1>2. wk = [w \in Workers |-> "none"] /\ lcore = [w \in OnLcores |-> 0]
    BY DEF Init
  <1>3. inst.lcores \in Nat /\ inst.signals \in Nat /\ "prepare" \in Stages
    BY <1>1, InstanceIs, StageIs
  <1>4. TypeOK
    <2>1. lcore \in [OnLcores -> 0 .. inst.lcores] /\ sent \in 0 .. inst.signals /\ passes \in 0 .. 2
      BY <1>2, <1>3 DEF Init
    <2>2. raw \in [locks : SUBSET RawPorts, usable : BOOLEAN, stop : BOOLEAN]
      BY DEF Init
    <2>3. wk \in [Workers -> {"none", "created", "running", "ended"}]
      BY <1>2
    <2>4. main \in Stages \cup {"hung", "end"}
      BY <1>1, <1>3
    <2>5. /\ handlers \in BOOLEAN /\ calm \in BOOLEAN /\ quit \in BOOLEAN /\ cached \in BOOLEAN
          /\ ptp \in {"none", "initialised", "running", "stopping"}
      BY DEF Init
    <2>6. /\ freed \subseteq {"eal", "ports", "cache", "raw", "rings", "ptp"}
          /\ abandoned \subseteq Workers /\ unseen \subseteq Workers
      BY <1>1
    <2> QED
      BY <1>1, <2>1, <2>2, <2>3, <2>4, <2>5, <2>6, Zenon DEF TypeOK
  <1>5. GoneInv
    BY <1>2 DEF GoneInv, Living
  <1>6. FreedInv
    BY <1>1 DEF FreedInv
  <1>7. LcoreInv
    BY <1>2 DEF LcoreInv, Workers
  <1>8. PtpInv
    <2> SUFFICES ASSUME app = "DTN" PROVE wk["ptpRaw"] = "none" /\ main # "ptpJoin"
      BY DEF PtpInv
    <2>1. "ptpRaw" \in Workers
      BY <1>4, WorkerOf
    <2> QED
      BY <1>1, <1>2, <2>1
  <1> QED
    BY <1>4, <1>5, <1>6, <1>7, <1>8 DEF LifeInv

(* The invariant of an application's life, for every application, number of *)
(* lcores and number of signals.                                            *)
THEOREM LifeInductive == Spec => []LifeInv
  <1>1. Init => LifeInv
    BY LifeStart
  <1>2. LifeInv /\ [Next]_vars => LifeInv'
    BY LifeKept
  <1> QED
    BY <1>1, <1>2, PTL DEF Spec

(* The types. *)
THEOREM LifeTypeCorrect == Spec => []TypeOK
  <1>1. LifeInv => TypeOK
    BY Zenon DEF LifeInv
  <1> QED
    BY <1>1, LifeInductive, PTL

(* While the process lives nothing is freed that a running worker uses,     *)
(* except for the workers a failed start-up leaves behind and the raw       *)
(* threads nobody waits for.                                                *)
THEOREM NothingUsedAfterFree == Spec => []NoUseAfterFree
  <1>1. LifeInv => NoUseAfterFree
    BY InUse, Zenon DEF LifeInv
  <1> QED
    BY <1>1, LifeInductive, PTL
=============================================================================
