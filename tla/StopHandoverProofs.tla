-------------------------- MODULE StopHandoverProofs --------------------------
(* Proofs about the stop of a CMC test, for every number and size of files,  *)
(* every size of the sequence space and every number of losses below it:     *)
(* gaps are counted exactly, files are faithful, and an application that was *)
(* done early enough is not killed.                                          *)
EXTENDS StopHandover, SequenceTheorems, TLAPS

One(held) == IF held THEN 1 ELSE 0
OnWire == One(wire # 0)
Listening == state \in {"armed", "receiving"}

\* What is known of the packets before the trigger is armed, and that nobody listens
\* to them then.
ArmedInv ==
  /\ state # "idle" => triggered /\ quiet
  /\ main.at \in {"trigger", "arm"} => state = "idle" /\ quiet
  /\ main.at \in {"arm", "check", "expire", "isDone"} => triggered
  /\ state = "idle" => rx.at # "handle" /\ hist.last = 0
  /\ ~triggered => sent = 0
  /\ triggered => quiet
  /\ dep.at = "idle" => ~quiet

\* The packets from the one handled last to the one sent last: all that the handler
\* does not get are lost.
StreamInv ==
  /\ wire # 0 => wire = sent
  /\ rx.at = "handle" =>
       /\ rx.pkt \in 1 .. sent /\ (wire # 0 => rx.pkt < sent)
       /\ sent - rx.pkt <= budget.lost + OnWire
       /\ hist.last < rx.pkt
       /\ hist.last # 0 => rx.pkt - hist.last <= budget.lost + 1
  /\ rx.at # "handle" /\ Listening /\ hist.last # 0 =>
       /\ hist.last <= sent /\ (wire # 0 => hist.last < sent)
       /\ sent - hist.last <= budget.lost + OnWire
  /\ hist.last <= sent

NumberInv ==
  /\ expected = 0 <=> hist.last = 0
  /\ hist.last # 0 => expected = NextSeq(SeqNo(hist.last))

\* The open file has all that belongs to it so far; the closed ones are whole.
Unspoilt == corrupted = 0 /\ ~hist.short
OpenInv ==
  Unspoilt /\ current # NoFile /\ Alive =>
    /\ hist.last \in 1 .. StreamLength - 1
    /\ current \notin refused /\ current <= FileOf(hist.last)
    /\ \A g \in AllFiles : current < g /\ g <= FileOf(hist.last) => g \in refused
    /\ Range(disk[current]) = {i \in Belonging(current) : i <= hist.last}
    /\ current \notin hist.finished
ClosedInv ==
  Unspoilt => \A f \in hist.finished : hist.last # 0 /\ f <= FileOf(hist.last)

\* How long the stop has taken.
TimeInv ==
  /\ dep.at = "idle" => ticks.stop = 0 /\ dep.polls = 0
  /\ dep.at = "wait" => ticks.stop = dep.polls /\ dep.polls < Polls
  /\ dep.at = "poll" => ticks.stop = dep.polls + 1 /\ dep.polls < Polls
  /\ dep.at = "kill" => ticks.stop = Polls
  /\ ticks.stop >= ticks.armed \/ ticks.stop = Horizon
  /\ state # "idle" => dep.at # "idle"

\* The handover is over early enough to sleep and to join the workers.
Early == hist.over # -1 /\ hist.over <= Polls - Drain - 2
Ended == state \in {"done", "timeout"} /\ rx.at # "handle"
By(n) == ticks.stop <= hist.over + n
EndInv ==
  /\ main.at = "expire" => ticks.stop > Polls - Drain - 2
  /\ hist.over <= ticks.stop
  /\ main.at = "drain" => main.ticks < Drain
  /\ Alive /\ Early =>
       /\ quit \/ Ended
       /\ main.at = "loop" => (main.ticks = 0 /\ By(1)) \/ By(0)
       /\ main.at \in {"trigger", "arm", "expire"} => By(0)
       /\ main.at \in {"check", "isDone"} => By(0) \/ (Ended /\ By(1))
       /\ main.at = "drain" => By(1 + main.ticks)
       /\ main.at = "join" => By(1 + Drain)

IInv ==
  /\ TypeOK /\ ArmedInv /\ StreamInv /\ NumberInv /\ GapsExact
  /\ OpenInv /\ ClosedInv /\ FilesFaithful /\ TimeInv /\ EndInv /\ KilledOnlyWhenLate

-----------------------------------------------------------------------------
(* Numbers: division with a symbolic divisor.                                *)

LEMMA QuotientOf ==
  ASSUME NEW d \in Nat \ {0}, NEW n \in Nat
  PROVE  /\ n % d \in 0 .. d - 1 /\ n \div d \in Nat
         /\ n = d * (n \div d) + (n % d)
OBVIOUS

LEMMA QuotientIs ==
  ASSUME NEW d \in Nat \ {0}, NEW q \in Int, NEW r \in 0 .. d - 1, NEW n \in Nat, n = d * q + r
  PROVE  n \div d = q /\ n % d = r
OBVIOUS

LEMMA QuotientOfMultiple ==
  ASSUME NEW d \in Nat \ {0}, NEW q \in Int, NEW n \in Nat, n = d * q
  PROVE  n \div d = q /\ n % d = 0
OBVIOUS

LEMMA NextQuotient ==
  ASSUME NEW d \in Nat \ {0}, NEW n \in Nat
  PROVE  /\ n % d = d - 1 => (n + 1) % d = 0 /\ (n + 1) \div d = (n \div d) + 1
         /\ n % d # d - 1 => (n + 1) % d = (n % d) + 1 /\ (n + 1) \div d = n \div d
<1>1. PICK q \in Nat, r \in 0 .. d - 1 : q = n \div d /\ r = n % d /\ n = d * q + r
  BY QuotientOf
<1> DEFINE m == n + 1
           p == q + 1
           u == r + 1
<1>2. m \in Nat /\ p \in Int /\ u \in Int /\ m = n + 1 /\ p = q + 1 /\ u = r + 1
  BY <1>1
<1> HIDE DEF m, p, u
<1>3. CASE r = d - 1
  <2>1. m = d * p
    BY <1>1, <1>2, <1>3
  <2>2. m \div d = p /\ m % d = 0
    BY <1>2, <2>1, QuotientOfMultiple
  <2> QED
    BY <1>1, <1>2, <1>3, <2>2
<1>4. CASE r # d - 1
  <2>1. m = d * q + u /\ u \in 0 .. d - 1
    BY <1>1, <1>2, <1>4
  <2>2. m \div d = q /\ m % d = u
    BY <1>2, <2>1, QuotientIs
  <2> QED
    BY <1>1, <1>2, <1>4, <2>2
<1> QED
  BY <1>1, <1>3, <1>4

LEMMA QuotientMonotone ==
  ASSUME NEW d \in Nat \ {0}, NEW m \in Nat, NEW n \in Nat, m <= n
  PROVE  m \div d <= n \div d
<1>1. PICK p \in Nat, r \in 0 .. d - 1 : p = m \div d /\ m = d * p + r
  BY QuotientOf
<1>2. PICK q \in Nat, u \in 0 .. d - 1 : q = n \div d /\ n = d * q + u
  BY QuotientOf
<1>3. SUFFICES ASSUME q + 1 <= p PROVE FALSE
  BY <1>1, <1>2
<1>4. d * (q + 1) <= d * p /\ d * (q + 1) = d * q + d
  BY <1>3
<1> QED
  BY <1>1, <1>2, <1>4

\* Less than a whole round apart and the same number: the same.
LEMMA SameNumber ==
  ASSUME NEW d \in Nat \ {0}, NEW m \in Nat, NEW n \in Nat, m <= n, n - m < d, m % d = n % d
  PROVE  m = n
<1>1. PICK p \in Nat, r \in 0 .. d - 1 : r = m % d /\ m = d * p + r
  BY QuotientOf
<1>2. PICK q \in Nat, u \in 0 .. d - 1 : u = n % d /\ n = d * q + u
  BY QuotientOf
<1>3. r = u /\ d * q - d * p < d /\ d * q - d * p >= 0
  BY <1>1, <1>2
<1>4. CASE q >= p + 1
  <2>1. d * q >= d * (p + 1) /\ d * (p + 1) = d * p + d
    BY <1>4
  <2> QED
    BY <1>3, <2>1
<1>5. CASE p >= q + 1
  <2>1. d * p >= d * (q + 1) /\ d * (q + 1) = d * q + d
    BY <1>5
  <2> QED
    BY <1>3, <2>1
<1> QED
  BY <1>1, <1>2, <1>3, <1>4, <1>5

LEMMA Parameters ==
  /\ Files \in Nat \ {0} /\ Parts \in Nat \ {0} /\ PerFile \in Nat \ {0} /\ PerFile > 1
  /\ Wrap \in Nat \ {0} /\ Wrap > 1 /\ MaxLost \in 0 .. Wrap - 1 /\ MaxFailures \in Nat
  /\ StreamLength \in Nat /\ StreamLength > 1 /\ StreamLength - 1 = PerFile * Files
  /\ FirstTimeout \in Nat \ {0} /\ Drain \in Nat \ {0} /\ Polls \in Nat \ {0}
  /\ FirstTimeout >= Polls - Drain - 1 /\ Horizon \in Nat /\ Horizon = Polls + 1
<1>1. /\ Files \in Nat \ {0} /\ Parts \in Nat \ {0} /\ FirstTimeout \in Nat \ {0}
      /\ Drain \in Nat \ {0} /\ Polls \in Nat \ {0}
  BY HandoverAssumption
<1>2. PerFile \in Nat \ {0} /\ PerFile > 1 /\ PerFile * Files = Files * PerFile /\ PerFile * Files >= 1
  BY <1>1 DEF PerFile
<1> QED
  BY <1>1, <1>2, HandoverAssumption, TimeoutAssumption DEF StreamLength, Horizon

-----------------------------------------------------------------------------
(* The unit's stream.                                                        *)

LEMMA SeqNoType == \A i \in Nat \ {0} : SeqNo(i) \in 1 .. Wrap
<1>1. SUFFICES ASSUME NEW i \in Nat \ {0} PROVE SeqNo(i) \in 1 .. Wrap
  OBVIOUS
<1>2. i - 1 \in Nat /\ (i - 1) % Wrap \in 0 .. Wrap - 1
  BY <1>1, Parameters, QuotientOf
<1> QED
  BY <1>2, Parameters DEF SeqNo

LEMMA NextSeqIsNext == \A i \in Nat \ {0} : NextSeq(SeqNo(i)) = SeqNo(i + 1)
<1>1. SUFFICES ASSUME NEW i \in Nat \ {0} PROVE NextSeq(SeqNo(i)) = SeqNo(i + 1)
  OBVIOUS
<1> DEFINE n == i - 1
<1>2. n \in Nat /\ n % Wrap \in 0 .. Wrap - 1 /\ i = n + 1
  BY <1>1, Parameters, QuotientOf
<1>3. /\ n % Wrap = Wrap - 1 => (n + 1) % Wrap = 0
      /\ n % Wrap # Wrap - 1 => (n + 1) % Wrap = (n % Wrap) + 1
  BY <1>2, Parameters, NextQuotient
<1>4. SeqNo(i) = (n % Wrap) + 1 /\ SeqNo(i + 1) = ((n + 1) % Wrap) + 1
  <2>1. i + 1 - 1 = n + 1
    BY <1>2
  <2> QED
    BY <2>1 DEF SeqNo
<1> HIDE DEF n
<1> QED
  BY <1>2, <1>3, <1>4, Parameters DEF NextSeq

\* The next number is the one expected exactly if it is the next packet's, unless a
\* whole round was lost.
LEMMA GapSeen ==
  ASSUME NEW last \in Nat \ {0}, NEW i \in Nat, last < i, i - last - 1 < Wrap
  PROVE  SeqNo(i) = NextSeq(SeqNo(last)) <=> i = last + 1
<1>1. NextSeq(SeqNo(last)) = SeqNo(last + 1)
  BY NextSeqIsNext
<1>2. SUFFICES ASSUME SeqNo(i) = SeqNo(last + 1) PROVE i = last + 1
  BY <1>1
<1> DEFINE n == i - 1
<1>3. n \in Nat /\ last <= n /\ n - last < Wrap /\ last + 1 - 1 = last /\ i = n + 1
  OBVIOUS
<1>4. n % Wrap = last % Wrap
  <2>1. SeqNo(i) = (n % Wrap) + 1 /\ SeqNo(last + 1) = (last % Wrap) + 1
    BY <1>3 DEF SeqNo
  <2>2. n % Wrap \in 0 .. Wrap - 1 /\ last % Wrap \in 0 .. Wrap - 1
    BY <1>3, Parameters, QuotientOf
  <2> HIDE DEF n
  <2> QED
    BY <1>2, <2>1, <2>2, Parameters
<1> HIDE DEF n
<1>5. last = n
  BY <1>3, <1>4, Parameters, SameNumber
<1> QED
  BY <1>3, <1>5

LEMMA StreamShape ==
  ASSUME NEW i \in 1 .. StreamLength
  PROVE  /\ KindOf(i) \in {"start", "content", "finish"}
         /\ KindOf(i) = "finish" <=> i = StreamLength
         /\ FileOf(i) \in Nat \ {0} /\ (i < StreamLength => FileOf(i) \in AllFiles)
         /\ i = 1 => KindOf(i) = "start"
         /\ i > 1 /\ KindOf(i) = "content" => FileOf(i - 1) = FileOf(i)
         /\ i > 1 /\ KindOf(i) # "content" => FileOf(i) = FileOf(i - 1) + 1
<1> DEFINE n == i - 1
<1>0. n \in Nat /\ i = n + 1 /\ n <= StreamLength - 1
  BY Parameters
<1>1. /\ n \in Nat /\ i = n + 1 /\ n <= StreamLength - 1
      /\ n \div PerFile \in Nat /\ n % PerFile \in 0 .. PerFile - 1
      /\ n = PerFile * (n \div PerFile) + (n % PerFile)
  BY <1>0, Parameters, QuotientOf
<1>2. FileOf(i) = (n \div PerFile) + 1
  BY DEF FileOf
<1>3. KindOf(i) = IF i = StreamLength THEN "finish"
                  ELSE IF n % PerFile = 0 THEN "start" ELSE "content"
  BY DEF KindOf
<1> HIDE DEF n
<1>4. i < StreamLength => FileOf(i) \in AllFiles
  <2>1. SUFFICES ASSUME i < StreamLength PROVE n \div PerFile < Files
    BY <1>1, <1>2, Parameters DEF AllFiles
  <2> DEFINE q == n \div PerFile
  <2>2. q \in Nat /\ q = n \div PerFile /\ PerFile * q <= n
    BY <1>1, Parameters
  <2> HIDE DEF q
  <2>3. n < PerFile * Files
    BY <1>1, <2>1, Parameters
  <2>4. SUFFICES ASSUME Files <= q PROVE FALSE
    BY <2>2, Parameters
  <2>5. PerFile * Files <= PerFile * q
    <3>1. PerFile \in Nat /\ Files \in Nat
      BY Parameters
    <3> QED
      BY <2>2, <2>4, <3>1
  <2> QED
    BY <1>1, <2>2, <2>3, <2>5, Parameters
<1>5. i = 1 => KindOf(i) = "start"
  <2>1. 0 % PerFile = 0
    BY Parameters
  <2> QED
    BY <1>1, <1>3, <2>1, Parameters
<1>6. i = StreamLength => n % PerFile = 0
  <2>1. SUFFICES ASSUME i = StreamLength PROVE n % PerFile = 0
    OBVIOUS
  <2>2. n = PerFile * Files /\ n \in Nat /\ PerFile \in Nat \ {0} /\ Files \in Int
    BY <1>1, <2>1, Parameters
  <2> QED
    BY <2>2, QuotientOfMultiple
<1>7. ASSUME i > 1
      PROVE  /\ n % PerFile # 0 => FileOf(i - 1) = FileOf(i)
             /\ n % PerFile = 0 => FileOf(i) = FileOf(i - 1) + 1
  <2> DEFINE k == i - 2
  <2>1. k \in Nat /\ n = k + 1 /\ i - 1 - 1 = k
    BY <1>1, <1>7
  <2>2. FileOf(i - 1) = (k \div PerFile) + 1
    BY <2>1 DEF FileOf
  <2> HIDE DEF k
  <2>3. k % PerFile \in 0 .. PerFile - 1 /\ k \div PerFile \in Nat
    BY <2>1, Parameters, QuotientOf
  <2>4. /\ k % PerFile = PerFile - 1 => (k + 1) % PerFile = 0 /\ (k + 1) \div PerFile = (k \div PerFile) + 1
        /\ k % PerFile # PerFile - 1 => /\ (k + 1) % PerFile = (k % PerFile) + 1
                                        /\ (k + 1) \div PerFile = k \div PerFile
    BY <2>1, Parameters, NextQuotient
  <2>5. n % PerFile = (k + 1) % PerFile /\ n \div PerFile = (k + 1) \div PerFile
    BY <2>1
  <2> QED
    BY <1>2, <2>2, <2>3, <2>4, <2>5, Parameters
<1> QED
  BY <1>1, <1>2, <1>3, <1>4, <1>5, <1>6, <1>7, Parameters

LEMMA FilesInOrder ==
  ASSUME NEW i \in Nat \ {0}, NEW j \in Nat \ {0}, i <= j
  PROVE  FileOf(i) <= FileOf(j) /\ FileOf(i) \in Nat /\ FileOf(j) \in Nat
<1> DEFINE m == i - 1
           n == j - 1
<1>1. m \in Nat /\ n \in Nat /\ m <= n
  OBVIOUS
<1>2. FileOf(i) = (m \div PerFile) + 1 /\ FileOf(j) = (n \div PerFile) + 1
  BY DEF FileOf
<1> HIDE DEF m, n
<1>3. m \div PerFile \in Nat /\ n \div PerFile \in Nat
  BY <1>1, Parameters, QuotientOf
<1>4. m \div PerFile <= n \div PerFile
  BY <1>1, Parameters, QuotientMonotone
<1> QED
  BY <1>2, <1>3, <1>4

-----------------------------------------------------------------------------
(* What handling a packet does, field by field.                              *)

Gap(i) == expected # 0 /\ SeqNo(i) # expected
Skips(i) == hist.last # 0 /\ i # hist.last + 1

LEMMA HandleDoes ==
  ASSUME TypeOK, Handle
  PROVE  LET i == rx.pkt
         IN  /\ Alive /\ rx.at = "handle" /\ rx'.at = "poll" /\ rx'.pkt = rx.pkt /\ rx'.seen = rx.seen
             /\ corrupted' = corrupted + One(Gap(i)) /\ expected' = NextSeq(SeqNo(i))
             /\ \/ KindOf(i) = "start" /\ (Refuse(FileOf(i)) \/ OpenFile(FileOf(i)) \/ OpenFails(FileOf(i)))
                \/ KindOf(i) = "content" /\ Write(i)
                \/ KindOf(i) = "finish" /\ current' = NoFile /\ UNCHANGED <<disk, budget>>
             /\ KindOf(i) = "finish" => state' = "done"
             /\ KindOf(i) # "finish" => \/ state' = state
                                        \/ state' = "receiving" /\ "armed" \in {rx.seen, state}
             /\ hist'.last = i /\ hist'.gaps = hist.gaps + One(Skips(i))
             /\ hist'.short <=> hist.short \/ (KindOf(i) = "content" /\ budget' # budget)
             /\ hist'.finished = hist.finished \cup (IF Closes(i) THEN {current} \ {NoFile} ELSE {})
             /\ hist'.sshFailed = hist.sshFailed
             /\ hist'.over = IF KindOf(i) = "finish" /\ hist.over = -1 THEN ticks.stop ELSE hist.over
             /\ hist' \in Histories
             /\ UNCHANGED <<dep, app, quiet, quit, main, triggered, sent, wire, refused, ticks>>
<1> DEFINE i == rx.pkt
           h == IF KindOf(i) = "finish" THEN Over ELSE hist
<1>0. /\ hist \in Histories /\ current \in AllFiles \cup {NoFile} /\ ticks.stop \in 0 .. Horizon
      /\ rx = [at |-> rx.at, pkt |-> rx.pkt, seen |-> rx.seen] /\ corrupted \in Nat
      /\ rx.pkt \in 0 .. StreamLength
  BY DEF TypeOK
<1>1. /\ Alive /\ rx.at = "handle" /\ rx' = [rx EXCEPT !.at = "poll"]
      /\ corrupted' = corrupted + One(Gap(i)) /\ expected' = NextSeq(SeqNo(i))
      /\ \/ KindOf(i) = "start" /\ (Refuse(FileOf(i)) \/ OpenFile(FileOf(i)) \/ OpenFails(FileOf(i)))
         \/ KindOf(i) = "content" /\ Write(i)
         \/ KindOf(i) = "finish" /\ current' = NoFile /\ UNCHANGED <<disk, budget>>
      /\ UNCHANGED <<dep, app, quiet, quit, main, triggered, sent, wire, refused, ticks>>
  BY Zenon DEF Handle, RestOfRx, Gap, One
<1>2. \E look \in {rx.seen, state} :
        state' = IF KindOf(i) = "finish" THEN "done" ELSE IF look = "armed" THEN "receiving" ELSE state
  BY Zenon DEF Handle
<1>3. hist' = [h EXCEPT !.last = i, !.gaps = @ + One(Skips(i)),
                        !.short = @ \/ (KindOf(i) = "content" /\ budget' # budget),
                        !.finished = @ \cup (IF Closes(i) THEN {current} \ {NoFile} ELSE {})]
  BY Zenon DEF Handle, Skips, One
<1>4. /\ h = [hist EXCEPT !.over = h.over]
      /\ h.over = IF KindOf(i) = "finish" /\ hist.over = -1 THEN ticks.stop ELSE hist.over
  BY <1>0 DEF Over, Histories
<1> HIDE DEF h, i
<1>5. /\ h.finished = hist.finished /\ h.gaps = hist.gaps /\ h.short = hist.short /\ h.sshFailed = hist.sshFailed
      /\ h = [finished |-> h.finished, last |-> h.last, gaps |-> h.gaps, short |-> h.short,
              sshFailed |-> h.sshFailed, over |-> h.over]
  BY <1>0, <1>4 DEF Histories
<1>6. /\ hist'.last = i /\ hist'.gaps = hist.gaps + One(Skips(i))
      /\ hist'.short = (hist.short \/ (KindOf(i) = "content" /\ budget' # budget))
      /\ hist'.finished = hist.finished \cup (IF Closes(i) THEN {current} \ {NoFile} ELSE {})
      /\ hist'.sshFailed = hist.sshFailed /\ hist'.over = h.over
      /\ hist' = [finished |-> hist'.finished, last |-> hist'.last, gaps |-> hist'.gaps,
                  short |-> hist'.short, sshFailed |-> hist'.sshFailed, over |-> hist'.over]
  BY <1>3, <1>5
<1>7. /\ hist'.finished \in SUBSET AllFiles /\ hist'.gaps \in Nat
      /\ hist'.short \in BOOLEAN /\ hist'.sshFailed \in BOOLEAN
      /\ hist'.over \in -1 .. Horizon /\ hist'.last \in 0 .. StreamLength
  BY <1>0, <1>4, <1>6, Parameters DEF One, Histories, i
<1>8. hist' \in Histories
  BY <1>6, <1>7 DEF Histories
<1>9. rx'.at = "poll" /\ rx'.pkt = rx.pkt /\ rx'.seen = rx.seen
  BY <1>0, <1>1
<1>10. /\ KindOf(i) = "finish" => state' = "done"
       /\ KindOf(i) # "finish" => \/ state' = state
                                  \/ state' = "receiving" /\ "armed" \in {rx.seen, state}
  BY <1>2
<1> QED
  BY <1>1, <1>4, <1>6, <1>8, <1>9, <1>10 DEF i

-----------------------------------------------------------------------------
(* Types.                                                                    *)

\* A file that lost the end of its buffer.
LEMMA PrefixOf ==
  ASSUME NEW S, NEW s \in Seq(S), NEW k \in 0 .. Len(s)
  PROVE  /\ SubSeq(s, 1, k) \in Seq(S) /\ Len(SubSeq(s, 1, k)) = k
         /\ \A j \in 1 .. k : SubSeq(s, 1, k)[j] = s[j]
<1>1. Len(s) \in Nat
  BY LenProperties
<1>2. \A j \in 1 .. k : s[j] \in S
  BY <1>1, ElementOfSeq
<1>3. k \in Int /\ 1 \in Int /\ k - 1 + 1 = k /\ k >= 0
  BY <1>1
<1> DEFINE n == 1
<1> HIDE DEF n
<1>4. n = 1 /\ n \in Int /\ \A j \in n .. k : s[j] \in S
  BY <1>2 DEF n
<1>5. /\ SubSeq(s, n, k) \in Seq(S)
      /\ Len(SubSeq(s, n, k)) = IF n <= k THEN k - n + 1 ELSE 0
      /\ \A j \in 1 .. k - n + 1 : SubSeq(s, n, k)[j] = s[n + j - 1]
  BY <1>3, <1>4, SubSeqProperties
<1>6. \A j \in 1 .. k : 1 + j - 1 = j
  BY <1>3
<1> QED
  BY <1>3, <1>4, <1>5, <1>6

Deps == [at : {"idle", "wait", "poll", "kill", "check", "stopped", "failed"}, polls : 0 .. Polls]
Mains == [at : {"loop", "trigger", "arm", "check", "expire", "isDone", "drain", "join"}, ticks : 0 .. Drain]
Workers == [at : {"poll", "handle", "done"}, pkt : 0 .. StreamLength, seen : {"idle", "armed", "receiving"}]
States == {"idle", "armed", "receiving", "done", "timeout"}
Disks == [AllFiles -> Seq(1 .. StreamLength)]
Clocks == [stop : 0 .. Horizon, armed : 0 .. FirstTimeout]
Budgets == [lost : 0 .. MaxLost, failed : 0 .. MaxFailures]

LEMMA TypeParts ==
  TypeOK <=> /\ dep \in Deps /\ app \in {"runs", "exited", "killed"} /\ quiet \in BOOLEAN /\ quit \in BOOLEAN
             /\ main \in Mains /\ state \in States /\ rx \in Workers
             /\ sent \in 0 .. StreamLength /\ wire \in 0 .. sent /\ triggered \in BOOLEAN
             /\ current \in AllFiles \cup {NoFile} /\ expected \in 0 .. Wrap /\ corrupted \in Nat
             /\ disk \in Disks /\ refused \in SUBSET AllFiles
             /\ ticks \in Clocks /\ budget \in Budgets /\ hist \in Histories
BY Zenon DEF TypeOK, Deps, Mains, States, Workers, Disks, Clocks, Budgets

LEMMA TypePartsNext ==
  ASSUME dep' \in Deps, app' \in {"runs", "exited", "killed"}, quiet' \in BOOLEAN, quit' \in BOOLEAN,
         main' \in Mains, state' \in States, rx' \in Workers,
         sent' \in 0 .. StreamLength, wire' \in 0 .. sent', triggered' \in BOOLEAN,
         current' \in AllFiles \cup {NoFile}, expected' \in 0 .. Wrap, corrupted' \in Nat,
         disk' \in Disks, refused' \in SUBSET AllFiles,
         ticks' \in Clocks, budget' \in Budgets, hist' \in Histories
  PROVE  TypeOK'
BY Zenon DEF TypeOK, Deps, Mains, States, Workers, Disks, Clocks, Budgets, Histories, AllFiles, NoFile,
             StreamLength, PerFile, Horizon

\* What the steps write into a record is of its type.
LEMMA RecordTypes ==
  ASSUME TypeOK
  PROVE  /\ \A l \in {"idle", "wait", "poll", "kill", "check", "stopped", "failed"} : DepTo(l) => dep' \in Deps
         /\ \A l \in {"loop", "trigger", "arm", "check", "expire", "isDone", "drain", "join"} :
              MainTo(l) => main' \in Mains
         /\ MayFail /\ Failed => budget' \in Budgets
         /\ Over \in Histories
         /\ [hist EXCEPT !.sshFailed = TRUE] \in Histories
<1>1. /\ dep \in Deps /\ budget \in Budgets /\ hist \in Histories /\ ticks \in Clocks
  BY TypeParts
<1>2. MayFail /\ Failed => budget' \in Budgets
  <2>1. budget.lost \in 0 .. MaxLost /\ budget.failed \in 0 .. MaxFailures
        /\ budget = [lost |-> budget.lost, failed |-> budget.failed]
    BY <1>1 DEF Budgets
  <2>2. SUFFICES ASSUME MayFail, Failed PROVE budget' \in Budgets
    OBVIOUS
  <2>3. budget' = [lost |-> budget.lost, failed |-> budget.failed + 1]
    BY <2>1, <2>2 DEF Failed
  <2>4. budget.failed + 1 \in 0 .. MaxFailures
    BY <2>1, <2>2, Parameters DEF MayFail
  <2> QED
    BY <2>1, <2>3, <2>4 DEF Budgets
<1>3. Over \in Histories /\ [hist EXCEPT !.sshFailed = TRUE] \in Histories
  <2>1. /\ hist = [finished |-> hist.finished, last |-> hist.last, gaps |-> hist.gaps,
                   short |-> hist.short, sshFailed |-> hist.sshFailed, over |-> hist.over]
        /\ hist.finished \in SUBSET AllFiles /\ hist.last \in 0 .. StreamLength /\ hist.gaps \in Nat
        /\ hist.short \in BOOLEAN /\ hist.sshFailed \in BOOLEAN /\ hist.over \in -1 .. Horizon
    BY <1>1 DEF Histories
  <2>2. ticks.stop \in -1 .. Horizon
    BY <1>1, Parameters DEF Clocks
  <2> DEFINE o == IF hist.over = -1 THEN ticks.stop ELSE hist.over
  <2>3. o \in -1 .. Horizon
    BY <2>1, <2>2
  <2>4. Over = [hist EXCEPT !.over = o]
    BY <1>1 DEF Over, Histories
  <2> HIDE DEF o
  <2>5. Over = [finished |-> hist.finished, last |-> hist.last, gaps |-> hist.gaps,
                short |-> hist.short, sshFailed |-> hist.sshFailed, over |-> o]
    BY <2>1, <2>4
  <2> DEFINE b == TRUE
  <2>b. b \in BOOLEAN
    OBVIOUS
  <2> HIDE DEF b
  <2>6. [hist EXCEPT !.sshFailed = b] =
          [finished |-> hist.finished, last |-> hist.last, gaps |-> hist.gaps,
           short |-> hist.short, sshFailed |-> b, over |-> hist.over]
    BY <2>1
  <2>7. Over \in Histories
    BY <2>1, <2>3, <2>5 DEF Histories
  <2>8. [hist EXCEPT !.sshFailed = b] \in Histories
    BY <2>1, <2>b, <2>6 DEF Histories
  <2> QED
    BY <2>7, <2>8 DEF b
<1>4. \A l \in {"idle", "wait", "poll", "kill", "check", "stopped", "failed"} : DepTo(l) => dep' \in Deps
  BY <1>1 DEF Deps, DepTo
<1>5. \A l \in {"loop", "trigger", "arm", "check", "expire", "isDone", "drain", "join"} :
              MainTo(l) => main' \in Mains
  BY Parameters DEF Mains, MainTo
<1> QED
  BY <1>2, <1>3, <1>4, <1>5

LEMMA InitInv == Init => IInv
<1> SUFFICES ASSUME Init PROVE IInv
  OBVIOUS
<1>0. hist = HistInit /\ hist.finished = {} /\ hist.last = 0 /\ hist.gaps = 0 /\ hist.over = -1
  BY DEF Init, HistInit
<1>1. TypeOK
  <2>1. HistInit \in Histories
    BY Parameters DEF HistInit, Histories
  <2>2. disk \in Disks
    BY EmptySeq DEF Init, Disks
  <2>3. ticks \in Clocks /\ budget \in Budgets /\ dep \in Deps /\ main \in Mains /\ rx \in Workers
    BY Parameters DEF Init, Clocks, Budgets, Deps, Mains, Workers
  <2>4. sent \in 0 .. StreamLength /\ wire \in 0 .. sent /\ expected \in 0 .. Wrap /\ corrupted \in Nat
    BY Parameters DEF Init
  <2>5. /\ app \in {"runs", "exited", "killed"} /\ quiet \in BOOLEAN /\ quit \in BOOLEAN
        /\ triggered \in BOOLEAN /\ state \in States /\ refused \in SUBSET AllFiles
        /\ current \in AllFiles \cup {NoFile}
    BY Zenon DEF Init, States
  <2> QED
    BY <1>0, <2>1, <2>2, <2>3, <2>4, <2>5, TypeParts
<1>2. ArmedInv /\ StreamInv /\ NumberInv /\ GapsExact
  BY <1>0 DEF Init, ArmedInv, StreamInv, NumberInv, GapsExact, Listening, OnWire, One
<1>3. OpenInv /\ ClosedInv
  BY <1>0 DEF Init, OpenInv, ClosedInv, NoFile
<1>4. FilesFaithful
  <2>1. \A f \in AllFiles : disk[f] = <<>>
    BY DEF Init
  <2>2. DOMAIN (<<>>) = {} /\ Range(<<>>) = {}
    BY DEF Range
  <2> QED
    BY <1>0, <2>1, <2>2 DEF FilesFaithful, IsStartOf, InOrder
<1>5. TimeInv /\ EndInv /\ KilledOnlyWhenLate
  BY <1>0, Parameters DEF Init, TimeInv, EndInv, KilledOnlyWhenLate, Early, Alive
<1> QED
  BY <1>1, <1>2, <1>3, <1>4, <1>5 DEF IInv

\* The packet in the handler's hands and what comes of it have their types.
LEMMA HandleType ==
  ASSUME TypeOK, StreamInv, Handle
  PROVE  TypeOK'
<1> DEFINE i == rx.pkt
<1>1. i \in 1 .. StreamLength /\ i \in Nat \ {0}
  BY HandleDoes, Parameters DEF StreamInv, TypeOK
<1>2. expected' \in 0 .. Wrap
  <2>1. SeqNo(i) \in 1 .. Wrap
    BY <1>1, SeqNoType
  <2> QED
    BY <2>1, HandleDoes, Parameters DEF NextSeq
<1>3. corrupted' \in Nat
  BY HandleDoes DEF TypeOK, One
<1>4. /\ current' \in AllFiles \cup {NoFile}
      /\ disk' \in Disks /\ budget' \in Budgets
  <2>1. current \in AllFiles \cup {NoFile} /\ disk \in Disks /\ budget \in Budgets
    BY TypeParts
  <2>2. MayFail /\ Failed => budget' \in Budgets
    BY RecordTypes
  <2>3. CASE KindOf(i) = "start" /\ (Refuse(FileOf(i)) \/ OpenFile(FileOf(i)) \/ OpenFails(FileOf(i)))
    <3>1. FileOf(i) \in AllFiles
      <4>1. i # StreamLength
        BY <1>1, <2>3, StreamShape
      <4>2. i < StreamLength
        BY <1>1, <4>1, Parameters
      <4> QED
        BY <1>1, <4>2, StreamShape
    <3>2. <<>> \in Seq(1 .. StreamLength)
      BY EmptySeq
    <3>3. [disk EXCEPT ![FileOf(i)] = <<>>] \in Disks
      BY <2>1, <3>1, <3>2 DEF Disks
    <3> QED
      BY <2>1, <2>2, <2>3, <3>1, <3>3 DEF Refuse, OpenFile, OpenFails
  <2>4. CASE KindOf(i) = "content" /\ Write(i)
    <3>1. \A s \in Seq(1 .. StreamLength) : Append(s, i) \in Seq(1 .. StreamLength)
      BY <1>1
    <3>2. current # NoFile => [disk EXCEPT ![current] = Append(@, i)] \in Disks
      BY <2>1, <3>1 DEF Disks
    <3> QED
      BY <2>1, <2>2, <2>4, <3>2 DEF Write
  <2>5. CASE KindOf(i) = "finish" /\ current' = NoFile /\ UNCHANGED <<disk, budget>>
    BY <2>1, <2>5
  <2> QED
    BY <2>3, <2>4, <2>5, HandleDoes
<1>5. rx' \in Workers /\ state' \in States
  <2>1. rx' = [rx EXCEPT !.at = "poll"]
    BY Zenon DEF Handle
  <2>2. state' \in {state, "done", "receiving"}
    BY <1>1, HandleDoes, StreamShape
  <2> QED
    BY <2>1, <2>2 DEF TypeOK, States, Workers
<1>6. UNCHANGED <<dep, app, quiet, quit, main, triggered, sent, wire, refused, ticks>> /\ hist' \in Histories
  BY HandleDoes
<1> QED
  BY <1>2, <1>3, <1>4, <1>5, <1>6, TypeParts, TypePartsNext

LEMMA TypeStep ==
  ASSUME TypeOK, StreamInv, TimeInv, Next
  PROVE  TypeOK'
<1>0. /\ dep \in Deps /\ app \in {"runs", "exited", "killed"} /\ quiet \in BOOLEAN /\ quit \in BOOLEAN
      /\ main \in Mains /\ state \in States /\ rx \in Workers
      /\ sent \in 0 .. StreamLength /\ wire \in 0 .. sent /\ triggered \in BOOLEAN
      /\ current \in AllFiles \cup {NoFile} /\ expected \in 0 .. Wrap /\ corrupted \in Nat
      /\ disk \in Disks /\ refused \in SUBSET AllFiles
      /\ ticks \in Clocks /\ budget \in Budgets /\ hist \in Histories
  BY TypeParts
<1> USE TypePartsNext, RecordTypes DEF sigVars, unitVars, fileVars
<1>1. CASE SendTerm
  BY <1>1, <1>0 DEF SendTerm, Signal, SshFails, RestOfDep
<1>2. CASE Poll
  <2>1. DepTo("stopped") => dep' \in Deps
    BY <1>0
  <2>2. [at |-> IF dep.polls + 1 < Polls THEN "wait" ELSE "kill", polls |-> dep.polls + 1] \in Deps
    BY <1>2, <1>0, Parameters DEF Deps, Poll, TimeInv
  <2> QED
    BY <1>2, <1>0, <2>1, <2>2 DEF Poll, AsksRunning, SshFails, RestOfDep
<1>3. CASE SendKill
  <2>1. dep' \in Deps
    BY <1>3 DEF SendKill
  <2>2. KillApp => disk' \in Disks
    <3>1. SUFFICES ASSUME current # NoFile, NEW k \in 0 .. Len(disk[current])
                   PROVE  [disk EXCEPT ![current] = SubSeq(@, 1, k)] \in Disks
      BY <1>0 DEF KillApp
    <3> DEFINE s == disk[current]
    <3>2. s \in Seq(1 .. StreamLength) /\ k \in 0 .. Len(s)
      BY <1>0, <3>1 DEF Disks
    <3> HIDE DEF s
    <3>3. SubSeq(s, 1, k) \in Seq(1 .. StreamLength)
      BY <3>2, PrefixOf
    <3>4. [disk EXCEPT ![current] = SubSeq(s, 1, k)] \in Disks
      BY <1>0, <3>3 DEF Disks
    <3> QED
      BY <3>4 DEF s
  <2> QED
    BY <1>3, <1>0, <2>1, <2>2 DEF SendKill, KillApp, SshFails, RestOfDep
<1>4. CASE LastCheck
  BY <1>4, <1>0 DEF LastCheck, AsksRunning, SshFails, RestOfDep
<1>5. CASE SecondSignal
  BY <1>5, <1>0 DEF SecondSignal, Signal
<1>6. CASE Round
  <2>1. [main EXCEPT !.ticks = 1] \in Mains
    BY <1>0, Parameters DEF Mains
  <2> QED
    BY <1>6, <1>0, <2>1 DEF Round, RestOfMain
<1>7. CASE Trigger
  BY <1>7, <1>0 DEF Trigger, RestOfMain
<1>8. CASE Arm
  <2>1. [ticks EXCEPT !.armed = 0] \in Clocks
    BY <1>0, Parameters DEF Clocks
  <2> QED
    BY <1>8, <1>0, <2>1 DEF Arm, RestOfMain, States
<1>9. CASE CheckTimeout
  BY <1>9, <1>0 DEF CheckTimeout, RestOfMain
<1>10. CASE Expire
  BY <1>10, <1>0 DEF Expire, RestOfMain, States
<1>11. CASE LeaveLoop
  <2>1. [at |-> "loop", ticks |-> 1] \in Mains
    BY Parameters DEF Mains
  <2> QED
    BY <1>11, <1>0, <2>1 DEF LeaveLoop, RestOfMain
<1>12. CASE Finalize
  BY <1>12, <1>0 DEF Finalize, RestOfMain, States
<1>13. CASE UnitSends
  <2>1. sent < StreamLength => sent + 1 \in 0 .. StreamLength /\ sent + 1 \in 0 .. sent + 1
    BY <1>0, Parameters
  <2> QED
    BY <1>13, <1>0, <2>1 DEF UnitSends, RestOfUnit
<1>14. CASE Lose
  <2>1. budget.lost < MaxLost => [budget EXCEPT !.lost = @ + 1] \in Budgets
    BY <1>0, Parameters DEF Budgets
  <2>2. 0 \in 0 .. sent
    BY <1>0, Parameters
  <2> QED
    BY <1>14, <1>0, <2>1, <2>2 DEF Lose, RestOfUnit
<1>15. CASE Receive
  <2>1. state \in {"armed", "receiving"} => [at |-> "handle", pkt |-> wire, seen |-> state] \in Workers
    BY <1>0, Parameters DEF Workers
  <2>2. 0 \in 0 .. sent
    BY <1>0, Parameters
  <2> QED
    BY <1>15, <1>0, <2>1, <2>2 DEF Receive, RestOfRx
<1>16. CASE Handle
  BY <1>16, HandleType
<1>17. CASE RxQuit
  <2>1. [rx EXCEPT !.at = "done"] \in Workers
    BY <1>0 DEF Workers
  <2> QED
    BY <1>17, <1>0, <2>1 DEF RxQuit, RestOfRx
<1>18. CASE Tick
  <2>1. [dep EXCEPT !.at = IF @ = "wait" THEN "poll" ELSE @] \in Deps
    BY <1>0 DEF Deps
  <2>2. main' \in Mains
    <3>1. main.ticks \in 0 .. Drain /\ [main EXCEPT !.ticks = 0] \in Mains /\ [at |-> "join", ticks |-> 0] \in Mains
      BY <1>0, Parameters DEF Mains
    <3>2. main.ticks + 1 < Drain => [main EXCEPT !.ticks = @ + 1] \in Mains
      BY <1>0, Parameters DEF Mains
    <3> QED
      BY <1>18, <1>0, <3>1, <3>2 DEF Tick
  <2>3. ticks' \in Clocks
    BY <1>18, <1>0, Parameters DEF Tick, Clocks, AtMost
  <2> QED
    BY <1>18, <1>0, <2>1, <2>2, <2>3 DEF Tick
<1> QED
  BY <1>1, <1>2, <1>3, <1>4, <1>5, <1>6, <1>7, <1>8, <1>9,
     <1>10, <1>11, <1>12, <1>13, <1>14, <1>15, <1>16, <1>17, <1>18 DEF Next, DepStep, MainStep, RxStep

-----------------------------------------------------------------------------
(* What the other steps leave alone.                                         *)

LEMMA FieldTypes ==
  ASSUME TypeOK
  PROVE  /\ dep.at \in {"idle", "wait", "poll", "kill", "check", "stopped", "failed"} /\ dep.polls \in 0 .. Polls
         /\ main.at \in {"loop", "trigger", "arm", "check", "expire", "isDone", "drain", "join"}
         /\ main.ticks \in 0 .. Drain
         /\ rx.at \in {"poll", "handle", "done"} /\ rx.pkt \in 0 .. StreamLength
         /\ rx.seen \in {"idle", "armed", "receiving"}
         /\ sent \in 0 .. StreamLength /\ wire \in 0 .. sent
         /\ ticks.stop \in 0 .. Horizon /\ ticks.armed \in 0 .. FirstTimeout
         /\ budget.lost \in 0 .. MaxLost /\ budget.failed \in 0 .. MaxFailures
         /\ hist.last \in 0 .. StreamLength /\ hist.gaps \in Nat /\ hist.over \in -1 .. Horizon
         /\ hist.finished \in SUBSET AllFiles /\ hist.short \in BOOLEAN /\ hist.sshFailed \in BOOLEAN
BY TypeParts DEF Deps, Mains, Workers, Clocks, Budgets, Histories

\* An end of the handover, a failing call and a failing ssh call, field by field.
LEMMA RecordKept ==
  ASSUME TypeOK
  PROVE  /\ Failed => budget'.lost = budget.lost
         /\ hist' = Over => /\ hist'.last = hist.last /\ hist'.gaps = hist.gaps
                            /\ hist'.finished = hist.finished /\ (hist'.short <=> hist.short)
                            /\ (hist'.sshFailed <=> hist.sshFailed)
                            /\ hist'.over = IF hist.over = -1 THEN ticks.stop ELSE hist.over
         /\ SshFails => /\ hist'.last = hist.last /\ hist'.gaps = hist.gaps
                        /\ hist'.finished = hist.finished /\ (hist'.short <=> hist.short)
                        /\ hist'.over = hist.over /\ hist'.sshFailed
                        /\ budget'.lost = budget.lost
<1>1. budget \in Budgets /\ hist \in Histories
  BY TypeParts
<1>2. Failed => budget'.lost = budget.lost
  BY <1>1 DEF Failed, Budgets
<1>3. hist' = Over => /\ hist'.last = hist.last /\ hist'.gaps = hist.gaps
                      /\ hist'.finished = hist.finished /\ (hist'.short <=> hist.short)
                      /\ (hist'.sshFailed <=> hist.sshFailed)
                      /\ hist'.over = IF hist.over = -1 THEN ticks.stop ELSE hist.over
  BY <1>1 DEF Over, Histories
<1>4. SshFails => /\ hist'.last = hist.last /\ hist'.gaps = hist.gaps
                  /\ hist'.finished = hist.finished /\ (hist'.short <=> hist.short)
                  /\ hist'.over = hist.over /\ hist'.sshFailed
                  /\ budget'.lost = budget.lost
  BY <1>1, <1>2 DEF SshFails, Histories
<1> QED
  BY <1>2, <1>3, <1>4

\* Only the handler touches what it counts, and the files unless they are closed at the end.
HandlerKept ==
  /\ hist'.last = hist.last /\ hist'.gaps = hist.gaps /\ hist'.finished = hist.finished
  /\ (hist'.short <=> hist.short) /\ corrupted' = corrupted /\ expected' = expected
  /\ refused' = refused
  /\ \/ current' = current /\ disk' = disk
     \/ Alive /\ KillApp
     \/ app' = "exited" /\ current' = NoFile /\ disk' = disk

LEMMA OthersKeep ==
  ASSUME TypeOK, Next
  PROVE  Handle \/ HandlerKept
<1>0. /\ Failed => budget'.lost = budget.lost
      /\ hist' = Over => /\ hist'.last = hist.last /\ hist'.gaps = hist.gaps
                         /\ hist'.finished = hist.finished /\ (hist'.short <=> hist.short)
      /\ SshFails => /\ hist'.last = hist.last /\ hist'.gaps = hist.gaps
                     /\ hist'.finished = hist.finished /\ (hist'.short <=> hist.short)
  BY RecordKept
<1> USE DEF HandlerKept, unitVars, fileVars
<1>1. CASE SendTerm
  BY <1>1, <1>0 DEF SendTerm, Signal, RestOfDep
<1>2. CASE Poll
  BY <1>2, <1>0 DEF Poll, AsksRunning, RestOfDep
<1>3. CASE SendKill
  <2>1. CASE Alive /\ KillApp /\ UNCHANGED hist
    BY <1>3, <2>1 DEF SendKill, KillApp, RestOfDep
  <2>2. CASE UNCHANGED hist /\ UNCHANGED fileVars
    BY <1>3, <2>2 DEF SendKill, RestOfDep
  <2>3. CASE SshFails /\ UNCHANGED fileVars
    BY <1>3, <1>0, <2>3 DEF SendKill, RestOfDep
  <2> QED
    BY <1>3, <2>1, <2>2, <2>3 DEF SendKill
<1>4. CASE LastCheck
  BY <1>4, <1>0 DEF LastCheck, AsksRunning, RestOfDep
<1>5. CASE SecondSignal
  BY <1>5, <1>0 DEF SecondSignal, Signal
<1>6. CASE Round
  BY <1>6, <1>0 DEF Round, MainAt, MainTo, RestOfMain
<1>7. CASE Trigger
  BY <1>7, <1>0 DEF Trigger, RestOfMain
<1>8. CASE Arm
  BY <1>8, <1>0 DEF Arm, MainAt, MainTo, RestOfMain
<1>9. CASE CheckTimeout
  BY <1>9, <1>0 DEF CheckTimeout, MainAt, MainTo, RestOfMain
<1>10. CASE Expire
  BY <1>10, <1>0 DEF Expire, RestOfMain
<1>11. CASE LeaveLoop
  BY <1>11, <1>0 DEF LeaveLoop, MainAt, MainTo, RestOfMain, IsDone
<1>12. CASE Finalize
  BY <1>12, <1>0 DEF Finalize, MainAt, RestOfMain
<1>13. CASE UnitSends
  BY <1>13, <1>0 DEF UnitSends, RestOfUnit
<1>14. CASE Lose
  BY <1>14, <1>0 DEF Lose, RestOfUnit
<1>15. CASE Receive
  BY <1>15, <1>0 DEF Receive, RestOfRx
<1>16. CASE Handle
  BY <1>16
<1>17. CASE RxQuit
  BY <1>17, <1>0 DEF RxQuit, RestOfRx
<1>18. CASE Tick
  BY <1>18, <1>0 DEF Tick, Settled, AtMost
<1> QED
  BY <1>1, <1>2, <1>3, <1>4, <1>5, <1>6, <1>7, <1>8, <1>9,
     <1>10, <1>11, <1>12, <1>13, <1>14, <1>15, <1>16, <1>17, <1>18 DEF Next, DepStep, MainStep, RxStep

-----------------------------------------------------------------------------
(* The stream between the unit and the handler.                              *)

LEMMA ArmedStep ==
  ASSUME TypeOK, ArmedInv, TimeInv, Next
  PROVE  ArmedInv'
<1>0. /\ state \in States /\ sent \in Nat /\ rx.at \in {"poll", "handle", "done"}
      /\ quiet \in BOOLEAN /\ quit \in BOOLEAN /\ triggered \in BOOLEAN
  BY TypeParts, FieldTypes, Parameters
<1>h. hist'.last = hist.last \/ (rx.at = "handle" /\ rx'.at = "poll")
  BY OthersKeep, HandleDoes DEF HandlerKept
<1>d. /\ \A l \in {"wait", "poll", "kill", "check", "stopped", "failed"} : DepTo(l) => dep'.at # "idle"
      /\ \A l \in {"loop", "trigger", "arm", "check", "expire", "isDone", "drain", "join"} :
           MainTo(l) => main'.at = l
  BY TypeParts DEF DepTo, MainTo, Deps
<1> USE <1>h, <1>d DEF ArmedInv, unitVars, sigVars
<1>1. CASE SendTerm
  <2>1. UNCHANGED <<main, state, rx, triggered, sent>> /\ dep'.at # "idle" /\ ~quiet
    BY <1>1, <1>0 DEF SendTerm, RestOfDep
  <2>3. hist'.last = hist.last
    BY <2>1
  <2> QED
    BY <1>0, <2>1, <2>3
<1>2. CASE Poll
  <2>1. dep'.at # "idle"
    BY <1>2 DEF Poll, AsksRunning
  <2> QED
    BY <1>2, <1>0, <2>1 DEF Poll, RestOfDep
<1>3. CASE SendKill
  <2>1. dep'.at # "idle"
    BY <1>3 DEF SendKill
  <2> QED
    BY <1>3, <1>0, <2>1 DEF SendKill, RestOfDep
<1>4. CASE LastCheck
  <2>1. dep'.at # "idle"
    BY <1>4 DEF LastCheck, AsksRunning
  <2> QED
    BY <1>4, <1>0, <2>1 DEF LastCheck, RestOfDep
<1>5. CASE SecondSignal
  <2>1. dep'.at # "idle" /\ UNCHANGED <<main, state, rx, triggered, sent>> /\ (quiet => quiet')
    BY <1>5, <1>0 DEF SecondSignal, Signal
  <2> QED
    BY <1>5, <1>0, <2>1 DEF SecondSignal
<1>6. CASE Round
  <2>1. /\ main'.at \in {"drain", "loop", "check", "trigger"}
        /\ main'.at = "trigger" => ~triggered /\ quiet /\ state = "idle"
        /\ main'.at = "check" => triggered
    <3>1. CASE ~quit /\ ~quiet /\ main' = [main EXCEPT !.ticks = 1]
      <4>1. main \in Mains
        BY TypeParts
      <4> QED
        BY <1>6, <3>1, <4>1 DEF Round, MainAt, Mains
    <3>2. CASE ~quit /\ quiet /\ MainTo(IF triggered THEN "check" ELSE "trigger")
      BY <1>6, <1>0, <3>2 DEF MainTo
    <3>3. CASE quit /\ MainTo("drain")
      BY <1>d, <3>3
    <3> QED
      BY <1>6, <3>1, <3>2, <3>3 DEF Round
  <2>2. UNCHANGED <<state, triggered, sent, quiet, dep, rx>> /\ hist'.last = hist.last
    BY <1>6 DEF Round, RestOfMain
  <2> QED
    BY <1>0, <2>1, <2>2
<1>7. CASE Trigger
  BY <1>7, <1>0 DEF Trigger, MainAt, RestOfMain
<1>8. CASE Arm
  BY <1>8, <1>0 DEF Arm, MainAt, RestOfMain
<1>9. CASE CheckTimeout
  BY <1>9, <1>0 DEF CheckTimeout, MainAt, RestOfMain
<1>10. CASE Expire
  BY <1>10, <1>0 DEF Expire, MainAt, RestOfMain
<1>11. CASE LeaveLoop
  BY <1>11, <1>0 DEF LeaveLoop, MainAt, MainTo, RestOfMain
<1>12. CASE Finalize
  BY <1>12, <1>0 DEF Finalize, MainAt, RestOfMain
<1>13. CASE UnitSends
  BY <1>13, <1>0 DEF UnitSends, RestOfUnit
<1>14. CASE Lose
  BY <1>14, <1>0 DEF Lose, RestOfUnit
<1>15. CASE Receive
  BY <1>15, <1>0 DEF Receive, RestOfRx
<1>16. CASE Handle
  <2>1. rx.at = "handle" /\ state # "idle" /\ rx'.at = "poll"
    BY <1>16, HandleDoes
  <2>2. state' # "idle"
    <3>1. rx.pkt \in 0 .. StreamLength
      BY FieldTypes
    <3> QED
      BY <1>16, <2>1, HandleDoes
  <2> QED
    BY <1>16, <2>1, <2>2, HandleDoes
<1>17. CASE RxQuit
  <2>1. rx'.at # "handle"
    BY <1>17, TypeParts DEF RxQuit, Workers
  <2> QED
    BY <1>17, <1>0, <2>1 DEF RxQuit, RestOfRx
<1>18. CASE Tick
  <2>1. main'.at = main.at \/ main'.at \in {"loop", "join"}
    BY <1>18, TypeParts DEF Tick, Mains
  <2>2. dep'.at = "idle" => dep.at = "idle"
    BY <1>18, TypeParts DEF Tick, Deps
  <2> QED
    BY <1>18, <1>0, <2>1, <2>2 DEF Tick
<1> QED
  BY <1>1, <1>2, <1>3, <1>4, <1>5, <1>6, <1>7, <1>8, <1>9,
     <1>10, <1>11, <1>12, <1>13, <1>14, <1>15, <1>16, <1>17, <1>18 DEF Next, DepStep, MainStep, RxStep

LEMMA StreamStep ==
  ASSUME TypeOK, ArmedInv, StreamInv, Next
  PROVE  StreamInv'
<1>0. /\ Handle \/ HandlerKept
      /\ sent \in Nat /\ wire \in Nat /\ hist.last \in Nat /\ rx.pkt \in Nat /\ budget.lost \in Nat
      /\ rx \in Workers /\ budget \in Budgets /\ state \in States
      /\ wire <= sent
  BY TypeParts, FieldTypes, OthersKeep, Parameters
<1> USE DEF StreamInv, OnWire, One, Listening, HandlerKept, unitVars, States
<1>1. CASE Handle
  <2>1. /\ rx.at = "handle" /\ rx'.at = "poll" /\ hist'.last = rx.pkt
        /\ sent' = sent /\ wire' = wire
    BY <1>1, HandleDoes
  <2>2. budget'.lost = budget.lost
    <3>1. Failed => budget'.lost = budget.lost
      BY RecordKept
    <3> QED
      BY <1>0, <1>1, <3>1, HandleDoes DEF Refuse, OpenFile, OpenFails, Write
  <2> QED
    BY <1>0, <2>1, <2>2
<1>2. CASE UnitSends
  BY <1>0, <1>2 DEF UnitSends, RestOfUnit
<1>3. CASE Lose
  <2>1. budget'.lost = budget.lost + 1
    BY <1>0, <1>3 DEF Lose, Budgets
  <2> QED
    BY <1>0, <1>3, <2>1 DEF Lose, RestOfUnit
<1>4. CASE Receive
  <2>1. CASE state \in {"armed", "receiving"}
    <3>1. rx'.at = "handle" /\ rx'.pkt = wire
      BY <1>4, <2>1 DEF Receive
    <3> QED
      BY <1>0, <1>4, <2>1, <3>1 DEF Receive, RestOfRx
  <2>2. CASE state \notin {"armed", "receiving"}
    BY <1>0, <1>4, <2>2 DEF Receive, RestOfRx
  <2> QED
    BY <2>1, <2>2
<1>5. CASE RxQuit
  <2>1. rx'.at = "done"
    BY <1>0, <1>5 DEF RxQuit, Workers
  <2> QED
    BY <1>0, <1>5, <2>1 DEF RxQuit, RestOfRx
<1>6. CASE DepStep \/ SecondSignal
  <2>1. UNCHANGED <<sent, wire, rx, state>>
    BY <1>6 DEF DepStep, SendTerm, Poll, SendKill, LastCheck, SecondSignal, RestOfDep
  <2>2. budget'.lost = budget.lost
    <3>1. /\ Failed => budget'.lost = budget.lost
          /\ SshFails => budget'.lost = budget.lost
      BY RecordKept
    <3> QED
      BY <1>6, <3>1 DEF DepStep, SendTerm, Poll, SendKill, LastCheck, SecondSignal, AsksRunning
  <2>3. hist'.last = hist.last
    <3>1. /\ hist' = Over => hist'.last = hist.last
          /\ SshFails => hist'.last = hist.last
      BY RecordKept
    <3> QED
      BY <1>6, <3>1 DEF DepStep, SendTerm, Poll, SendKill, LastCheck, SecondSignal, AsksRunning, Signal
  <2> QED
    BY <1>0, <2>1, <2>2, <2>3
<1>7. CASE MainStep
  <2>1. UNCHANGED <<sent, wire, rx>> /\ budget'.lost = budget.lost
    <3>1. Failed => budget'.lost = budget.lost
      BY RecordKept
    <3> QED
      BY <1>7, <3>1 DEF MainStep, Round, Trigger, Arm, CheckTimeout, Expire, LeaveLoop, Finalize, RestOfMain
  <2>2. hist'.last = hist.last
    <3>1. hist' = Over => hist'.last = hist.last
      BY RecordKept
    <3> QED
      BY <1>7, <3>1 DEF MainStep, Round, Trigger, Arm, CheckTimeout, Expire, LeaveLoop, Finalize
  <2>3. state' = state \/ ~Listening' \/ hist.last = 0
    <3>1. CASE Arm
      BY <3>1 DEF Arm, MainAt, ArmedInv
    <3>2. CASE Expire
      BY <3>2 DEF Expire
    <3>3. CASE Finalize
      BY <3>3 DEF Finalize
    <3>4. CASE Round \/ Trigger \/ CheckTimeout \/ LeaveLoop
      BY <3>4 DEF Round, Trigger, CheckTimeout, LeaveLoop
    <3> QED
      BY <1>7, <3>1, <3>2, <3>3, <3>4 DEF MainStep
  <2> QED
    BY <1>0, <2>1, <2>2, <2>3
<1>8. CASE Tick
  BY <1>0, <1>8 DEF Tick
<1> QED
  BY <1>1, <1>2, <1>3, <1>4, <1>5, <1>6, <1>7, <1>8 DEF Next, RxStep

\* A packet comes after the one handled before it, with at most MaxLost between them.
LEMMA HandledPacket ==
  ASSUME TypeOK, StreamInv, NumberInv, Handle
  PROVE  LET i == rx.pkt
         IN  /\ i \in 1 .. StreamLength /\ hist.last \in Nat /\ hist.last < i
             /\ Gap(i) <=> Skips(i)
<1> DEFINE i == rx.pkt
           last == hist.last
<1>1. /\ i \in 1 .. StreamLength /\ last \in Nat /\ i \in Nat /\ last < i
      /\ last # 0 => i - last - 1 < Wrap
  BY FieldTypes, HandleDoes, Parameters DEF StreamInv
<1>2. last # 0 => (SeqNo(i) = NextSeq(SeqNo(last)) <=> i = last + 1)
  <2> HIDE DEF i, last
  <2> QED
    BY <1>1, GapSeen
<1>3. expected = 0 <=> last = 0
  BY DEF NumberInv
<1>4. last # 0 => expected = NextSeq(SeqNo(last))
  BY DEF NumberInv
<1>5. Gap(i) <=> Skips(i)
  BY <1>2, <1>3, <1>4 DEF Gap, Skips
<1> QED
  BY <1>1, <1>5

LEMMA NumberStep ==
  ASSUME TypeOK, StreamInv, NumberInv, GapsExact, Next
  PROVE  NumberInv' /\ GapsExact'
<1>1. CASE Handle
  <2> DEFINE i == rx.pkt
  <2>1. /\ i \in 1 .. StreamLength /\ (Gap(i) <=> Skips(i))
        /\ corrupted' = corrupted + One(Gap(i)) /\ expected' = NextSeq(SeqNo(i))
        /\ hist'.last = i /\ hist'.gaps = hist.gaps + One(Skips(i))
    BY <1>1, HandledPacket, HandleDoes
  <2> HIDE DEF i
  <2>2. SeqNo(i) \in 1 .. Wrap
    BY <2>1, SeqNoType, Parameters
  <2>3. expected' # 0
    BY <2>1, <2>2, Parameters DEF NextSeq
  <2>4. i # 0
    BY <2>1, Parameters
  <2>5. GapsExact'
    BY <2>1 DEF GapsExact, One
  <2>6. NumberInv'
    <3>1. hist'.last # 0 /\ expected' = NextSeq(SeqNo(hist'.last))
      BY <2>1, <2>4
    <3>2. NextSeq(SeqNo(hist'.last)) = NextSeq(SeqNo(hist.last))'
      BY DEF NextSeq, SeqNo
    <3> QED
      BY <2>3, <3>1, <3>2 DEF NumberInv
  <2> QED
    BY <2>5, <2>6
<1>2. CASE HandlerKept
  BY <1>2 DEF HandlerKept, NumberInv, GapsExact, NextSeq, SeqNo
<1> QED
  BY <1>1, <1>2, OthersKeep

-----------------------------------------------------------------------------
(* The time of the stop.                                                     *)

LEMMA FieldsSet ==
  ASSUME TypeOK
  PROVE  /\ DepTo("wait") => dep'.at = "wait" /\ dep'.polls = dep.polls
         /\ DepTo("stopped") => dep'.at = "stopped" /\ dep'.polls = dep.polls
         /\ DepTo("check") => dep'.at = "check" /\ dep'.polls = dep.polls
         /\ DepTo("failed") => dep'.at = "failed" /\ dep'.polls = dep.polls
         /\ MainTo("check") => main'.at = "check" /\ main'.ticks = 0
         /\ MainTo("trigger") => main'.at = "trigger" /\ main'.ticks = 0
         /\ MainTo("arm") => main'.at = "arm" /\ main'.ticks = 0
         /\ MainTo("expire") => main'.at = "expire" /\ main'.ticks = 0
         /\ MainTo("isDone") => main'.at = "isDone" /\ main'.ticks = 0
         /\ MainTo("drain") => main'.at = "drain" /\ main'.ticks = 0
BY TypeParts DEF DepTo, MainTo, Deps

LEMMA TimeStep ==
  ASSUME TypeOK, ArmedInv, TimeInv, ArmedInv', Next
  PROVE  TimeInv'
<1>0. /\ ticks.stop \in 0 .. Horizon /\ ticks.armed \in 0 .. FirstTimeout /\ dep.polls \in 0 .. Polls
      /\ dep \in Deps /\ ticks \in Clocks /\ Horizon = Polls + 1 /\ Polls \in Nat \ {0}
      /\ FirstTimeout \in Nat
  BY TypeParts, FieldTypes, Parameters
<1>1. state' # "idle" => dep'.at # "idle"
  BY DEF ArmedInv
<1> USE DEF TimeInv
<1>2. CASE SendTerm
  <2>1. dep.at = "idle" /\ dep'.at = "wait" /\ dep'.polls = dep.polls /\ ticks' = ticks
    BY <1>2, FieldsSet DEF SendTerm, RestOfDep
  <2> QED
    BY <1>0, <1>1, <2>1
<1>3. CASE Poll
  <2>1. ticks' = ticks /\ dep.at = "poll"
    BY <1>3 DEF Poll, RestOfDep
  <2>2. CASE dep'.at = "stopped"
    BY <1>0, <1>1, <2>1, <2>2
  <2>3. CASE /\ dep'.at = IF dep.polls + 1 < Polls THEN "wait" ELSE "kill"
             /\ dep'.polls = dep.polls + 1
    <3>1. CASE dep.polls + 1 < Polls
      BY <1>0, <1>1, <2>1, <2>3, <3>1
    <3>2. CASE ~(dep.polls + 1 < Polls)
      <4>1. dep'.at = "kill" /\ ticks'.stop = Polls
        BY <1>0, <2>1, <2>3, <3>2
      <4> QED
        BY <1>0, <1>1, <2>1, <4>1
    <3> QED
      BY <3>1, <3>2
  <2> QED
    <3>1. CASE DepTo("stopped")
      BY <2>2, <3>1, FieldsSet
    <3>2. CASE dep' = [at |-> IF dep.polls + 1 < Polls THEN "wait" ELSE "kill", polls |-> dep.polls + 1]
      BY <2>3, <3>2
    <3> QED
      BY <1>3, <3>1, <3>2 DEF Poll, AsksRunning
<1>4. CASE SendKill
  <2>1. dep'.at = "check" /\ ticks' = ticks
    BY <1>4, FieldsSet DEF SendKill, RestOfDep
  <2> QED
    BY <1>0, <1>1, <2>1
<1>5. CASE LastCheck
  <2>1. dep'.at \in {"failed", "stopped"} /\ ticks' = ticks
    BY <1>5, FieldsSet DEF LastCheck, AsksRunning, RestOfDep
  <2> QED
    BY <1>0, <1>1, <2>1
<1>6. CASE Arm
  <2>1. ticks'.stop = ticks.stop /\ ticks'.armed = 0 /\ dep' = dep
    BY <1>0, <1>6 DEF Arm, RestOfMain, Clocks
  <2> QED
    BY <1>0, <1>1, <2>1
<1>7. CASE Tick
  <2>1. /\ dep'.at = (IF dep.at = "wait" THEN "poll" ELSE dep.at) /\ dep'.polls = dep.polls
        /\ dep.at \in {"idle", "wait", "stopped", "failed"}
    BY <1>0, <1>7 DEF Tick, Settled, Deps
  <2>2. /\ ticks'.stop = AtMost(Horizon, IF dep.at = "idle" THEN 0 ELSE ticks.stop + 1)
        /\ ticks'.armed = AtMost(FirstTimeout, IF state = "armed" THEN ticks.armed + 1 ELSE 0)
    BY <1>7 DEF Tick
  <2> QED
    BY <1>0, <1>1, <2>1, <2>2 DEF AtMost
<1>8. CASE SecondSignal \/ Round \/ Trigger \/ CheckTimeout \/ Expire \/ LeaveLoop \/ Finalize
           \/ UnitSends \/ Lose \/ RxStep
  <2>1. UNCHANGED <<dep, ticks>>
    <3>1. Handle => UNCHANGED <<dep, ticks>>
      BY DEF Handle, RestOfRx
    <3> QED
      BY <1>8, <3>1 DEF SecondSignal, Round, Trigger, CheckTimeout, Expire, LeaveLoop, Finalize,
                        UnitSends, Lose, RxStep, Receive, RxQuit, RestOfMain, RestOfUnit, RestOfRx
  <2> QED
    BY <1>0, <1>1, <2>1
<1> QED
  BY <1>2, <1>3, <1>4, <1>5, <1>6, <1>7, <1>8 DEF Next, DepStep, MainStep

\* When a handover ends, and what it does to the application's life.
LEMMA EndOfHandover ==
  ASSUME TypeOK, ArmedInv, Next
  PROVE  \/ hist'.over = hist.over
         \/ /\ hist.over = -1 /\ hist'.over = ticks.stop /\ UNCHANGED <<app, ticks>>
            /\ \/ SecondSignal /\ quit'
               \/ Trigger /\ quit'
               \/ Expire
               \/ Handle /\ state' = "done"
<1>0. /\ hist' = Over => hist'.over = IF hist.over = -1 THEN ticks.stop ELSE hist.over
      /\ SshFails => hist'.over = hist.over
  BY RecordKept
<1>1. CASE SendTerm
  BY <1>0, <1>1 DEF SendTerm, Signal, ArmedInv
<1>2. CASE Poll \/ LastCheck \/ SendKill
  BY <1>0, <1>2 DEF Poll, LastCheck, SendKill, AsksRunning
<1>3. CASE SecondSignal
  BY <1>0, <1>3 DEF SecondSignal, Signal
<1>4. CASE Trigger
  BY <1>0, <1>4 DEF Trigger
<1>5. CASE Expire
  BY <1>0, <1>5 DEF Expire
<1>6. CASE Handle
  BY <1>6, HandleDoes
<1>7. CASE Round \/ Arm \/ CheckTimeout \/ LeaveLoop \/ Finalize \/ UnitSends \/ Lose \/ Receive \/ RxQuit \/ Tick
  BY <1>7 DEF Round, Arm, CheckTimeout, LeaveLoop, Finalize, UnitSends, Lose, Receive, RxQuit, Tick, RestOfUnit
<1> QED
  BY <1>1, <1>2, <1>3, <1>4, <1>5, <1>6, <1>7 DEF Next, DepStep, MainStep, RxStep

LEMMA EndStep ==
  ASSUME TypeOK, ArmedInv, TimeInv, EndInv, Next
  PROVE  EndInv'
<1>0. /\ ticks.stop \in Int /\ ticks.stop <= Horizon /\ hist.over \in Int /\ main.ticks \in Nat
      /\ Horizon = Polls + 1 /\ Polls \in Nat /\ Drain \in Nat \ {0} /\ FirstTimeout \in Nat
      /\ FirstTimeout >= Polls - Drain - 1 /\ ticks.armed \in Int
      /\ main.at \in {"loop", "trigger", "arm", "check", "expire", "isDone", "drain", "join"}
      /\ quit \in BOOLEAN /\ main \in Mains /\ rx \in Workers /\ state \in States
  BY TypeParts, FieldTypes, Parameters
<1>e. \/ hist'.over = hist.over
      \/ hist.over = -1 /\ hist'.over = ticks.stop /\ UNCHANGED <<app, ticks>>
  BY EndOfHandover
<1> DEFINE EarlyInv == Alive /\ Early =>
       /\ quit \/ Ended
       /\ main.at = "loop" => (main.ticks = 0 /\ By(1)) \/ By(0)
       /\ main.at \in {"trigger", "arm", "expire"} => By(0)
       /\ main.at \in {"check", "isDone"} => By(0) \/ (Ended /\ By(1))
       /\ main.at = "drain" => By(1 + main.ticks)
       /\ main.at = "join" => By(1 + Drain)
<1>i. /\ main.at = "expire" => ticks.stop > Polls - Drain - 2
      /\ hist.over <= ticks.stop
      /\ main.at = "drain" => main.ticks < Drain
      /\ EarlyInv
  BY DEF EndInv
<1>q. SUFFICES /\ main'.at = "expire" => ticks'.stop > Polls - Drain - 2
               /\ hist'.over <= ticks'.stop
               /\ main'.at = "drain" => main'.ticks < Drain
               /\ EarlyInv'
  BY DEF EndInv
<1> HIDE DEF EarlyInv
\* The steps that leave the main thread, the clock and the end of the handover alone.
<1>k. ASSUME UNCHANGED <<main, quit, state, ticks>>, hist'.over = hist.over,
             rx'.at = "handle" => rx.at = "handle" \/ state \in {"armed", "receiving"}, Alive' => Alive
      PROVE  /\ main'.at = "expire" => ticks'.stop > Polls - Drain - 2
             /\ hist'.over <= ticks'.stop
             /\ main'.at = "drain" => main'.ticks < Drain
             /\ EarlyInv'
  <2>1. EarlyInv'
    BY <1>0, <1>i, <1>k DEF EarlyInv, Early, Ended, By
  <2> QED
    BY <1>i, <1>k, <2>1
\* The steps with which a handover ends early.
<1>n. ASSUME hist.over = -1, hist'.over = ticks.stop, ticks' = ticks,
             main'.at \in {"loop", "trigger", "arm", "check", "expire", "isDone", "drain", "join"},
             main'.ticks \in Nat, quit' \/ Ended'
      PROVE  hist'.over <= ticks'.stop /\ EarlyInv'
  BY <1>0, <1>n DEF EarlyInv, Early, By
<1>1. CASE DepStep
  <2>1. UNCHANGED <<main, state, rx, ticks>>
    BY <1>1 DEF DepStep, SendTerm, Poll, SendKill, LastCheck, RestOfDep
  <2>2. quit' = quit
    BY <1>1 DEF DepStep, SendTerm, Poll, SendKill, LastCheck, Signal, sigVars, ArmedInv
  <2>3. hist'.over = hist.over
    <3>1. ~SecondSignal /\ ~Trigger /\ ~Expire /\ ~Handle
      <4>1. dep' # dep
        BY <1>1, TypeParts DEF DepStep, SendTerm, Poll, SendKill, LastCheck, DepTo, AsksRunning, Deps
      <4> QED
        BY <4>1 DEF SecondSignal, Trigger, Expire, Handle, RestOfMain, RestOfRx
    <3> QED
      BY <3>1, EndOfHandover
  <2>4. Alive' => Alive
    BY <1>1 DEF DepStep, SendTerm, Poll, SendKill, LastCheck, Alive, KillApp
  <2> QED
    BY <1>k, <2>1, <2>2, <2>3, <2>4
<1>2. CASE SecondSignal
  <2>1. UNCHANGED <<main, state, rx, ticks, app>> /\ (quit' # quit => quit')
    BY <1>0, <1>2 DEF SecondSignal, Signal
  <2>2. CASE hist'.over = hist.over
    <3>1. EarlyInv'
      BY <1>0, <1>i, <2>1, <2>2 DEF EarlyInv, Early, Ended, By, Alive
    <3> QED
      BY <1>i, <2>1, <2>2, <3>1
  <2>3. CASE hist.over = -1 /\ hist'.over = ticks.stop /\ quit'
    BY <1>0, <1>i, <1>n, <2>1, <2>3
  <2> QED
    <3>1. ~Trigger /\ ~Expire /\ ~Handle
      BY <2>1, FieldsSet, HandleDoes DEF Trigger, Expire, MainAt
    <3> QED
      BY <2>2, <2>3, <3>1, EndOfHandover
<1>3. CASE Round
  <2>1. /\ UNCHANGED <<quit, quiet, state, ticks, app, rx>> /\ hist'.over = hist.over
        /\ main.at = "loop" /\ Alive
    BY <1>3 DEF Round, MainAt, RestOfMain
  <2>2. CASE quit /\ MainTo("drain")
    <3>1. main'.at = "drain" /\ main'.ticks = 0
      BY <2>2, FieldsSet
    <3>2. EarlyInv'
      BY <1>0, <1>i, <2>1, <2>2, <3>1 DEF EarlyInv, Early, Ended, By
    <3> QED
      BY <1>0, <1>i, <2>1, <3>1, <3>2
  <2>3. CASE ~quit /\ ~quiet /\ main' = [main EXCEPT !.ticks = 1]
    <3>1. main'.at = "loop"
      BY <1>0, <2>1, <2>3 DEF Mains
    <3>2. ~Early
      BY <1>i, <2>1, <2>3 DEF EarlyInv, Ended, ArmedInv
    <3>3. EarlyInv'
      BY <2>1, <3>2 DEF EarlyInv, Early
    <3> QED
      BY <1>i, <2>1, <3>1, <3>3
  <2>4. CASE ~quit /\ quiet /\ MainTo(IF triggered THEN "check" ELSE "trigger")
    <3>1. main'.at = IF triggered THEN "check" ELSE "trigger"
      BY <2>4 DEF MainTo
    <3>2. Early => Ended /\ triggered
      BY <1>i, <2>1, <2>4 DEF EarlyInv, Ended, ArmedInv
    <3>3. EarlyInv'
      <4>1. Early' => Early /\ main'.at = "check" /\ Ended' /\ By(1)'
        BY <1>0, <1>i, <2>1, <3>1, <3>2 DEF EarlyInv, Early, Ended, By
      <4> QED
        BY <4>1 DEF EarlyInv
    <3> QED
      BY <1>i, <2>1, <3>1, <3>3
  <2> QED
    BY <1>3, <2>2, <2>3, <2>4 DEF Round
<1>4. CASE Trigger
  <2>1. UNCHANGED <<state, ticks, app, rx>> /\ main.at = "trigger" /\ Alive
    BY <1>4 DEF Trigger, MainAt, RestOfMain
  <2>2. CASE MainTo("arm") /\ UNCHANGED quit /\ hist' = hist
    <3>1. main'.at = "arm"
      BY <2>2, FieldsSet
    <3>2. EarlyInv'
      BY <1>0, <1>i, <2>1, <2>2, <3>1 DEF EarlyInv, Early, Ended, By
    <3> QED
      BY <1>0, <1>i, <2>1, <2>2, <3>1, <3>2
  <2>3. CASE MainTo("drain") /\ quit'
    <3>1. main'.at = "drain" /\ main'.ticks = 0
      BY <2>3, FieldsSet
    <3>2. CASE hist'.over = hist.over
      <4>1. EarlyInv'
        BY <1>0, <1>i, <2>1, <2>3, <3>1, <3>2 DEF EarlyInv, Early, Ended, By
      <4> QED
        BY <1>0, <1>i, <2>1, <3>1, <3>2, <4>1
    <3>3. CASE hist.over = -1 /\ hist'.over = ticks.stop
      BY <1>0, <1>n, <2>1, <2>3, <3>1, <3>3
    <3> QED
      BY <1>e, <3>2, <3>3
  <2> QED
    BY <1>4, <2>2, <2>3 DEF Trigger
<1>5. CASE Arm
  <2>1. /\ UNCHANGED <<app, rx, quit>> /\ main.at = "arm" /\ Alive /\ state = "idle" /\ main'.at = "check"
        /\ ticks'.stop = ticks.stop /\ hist'.over = hist.over
    BY <1>5, FieldsSet, TypeParts DEF Arm, MainAt, RestOfMain, ArmedInv, Clocks
  <2>2. EarlyInv'
    BY <1>0, <1>i, <2>1 DEF EarlyInv, Early, Ended, By
  <2> QED
    BY <1>0, <1>i, <2>1, <2>2
<1>6. CASE CheckTimeout
  <2>1. /\ UNCHANGED <<app, rx, quit, state, ticks>> /\ main.at = "check" /\ Alive /\ hist'.over = hist.over
        /\ MainTo(IF state = "armed" /\ ticks.armed >= FirstTimeout THEN "expire" ELSE "isDone")
    BY <1>6 DEF CheckTimeout, MainAt, RestOfMain
  <2>2. main'.at = IF state = "armed" /\ ticks.armed >= FirstTimeout THEN "expire" ELSE "isDone"
    BY <2>1 DEF MainTo
  <2>3. EarlyInv'
    BY <1>0, <1>i, <2>1, <2>2 DEF EarlyInv, Early, Ended, By
  <2>4. main'.at = "expire" => ticks.stop > Polls - Drain - 2
    BY <1>0, <2>2 DEF TimeInv
  <2> QED
    BY <1>i, <2>1, <2>2, <2>3, <2>4
<1>7. CASE Expire
  <2>1. /\ UNCHANGED <<app, rx, quit, ticks>> /\ main.at = "expire" /\ Alive
        /\ state' = "timeout" /\ main'.at = "isDone" /\ ticks.stop > Polls - Drain - 2
    BY <1>7, <1>i, FieldsSet DEF Expire, MainAt, RestOfMain
  <2>2. EarlyInv'
    BY <1>0, <1>e, <1>i, <2>1 DEF EarlyInv, Early, Ended, By
  <2> QED
    BY <1>0, <1>e, <1>i, <2>1, <2>2
<1>8. CASE LeaveLoop
  <2>1. UNCHANGED <<app, rx, state, ticks>> /\ main.at = "isDone" /\ Alive /\ hist'.over = hist.over
    BY <1>8 DEF LeaveLoop, MainAt, RestOfMain
  <2>2. CASE IsDone
    <3>1. quit' /\ main'.at = "drain" /\ main'.ticks = 0
      BY <1>8, <2>2, FieldsSet DEF LeaveLoop
    <3>2. EarlyInv'
      BY <1>0, <1>i, <2>1, <3>1 DEF EarlyInv, Early, Ended, By
    <3> QED
      BY <1>0, <1>i, <2>1, <3>1, <3>2
  <2>3. CASE ~IsDone
    <3>1. quit' = quit /\ main'.at = "loop" /\ ~Ended
      BY <1>8, <2>3 DEF LeaveLoop, IsDone, Ended
    <3>2. EarlyInv'
      BY <1>0, <1>i, <2>1, <3>1 DEF EarlyInv, Early, Ended, By
    <3> QED
      BY <1>0, <1>i, <2>1, <3>1, <3>2
  <2> QED
    BY <2>2, <2>3
<1>9. CASE Finalize
  <2>1. ~Alive' /\ UNCHANGED <<main, ticks>> /\ hist'.over = hist.over
    BY <1>9 DEF Finalize, RestOfMain, Alive
  <2>2. EarlyInv'
    BY <2>1 DEF EarlyInv
  <2> QED
    BY <1>i, <2>1, <2>2
<1>10. CASE UnitSends \/ Lose
  BY <1>10, <1>k DEF UnitSends, Lose, RestOfUnit, Alive
<1>11. CASE Receive \/ RxQuit
  <2>1. rx'.at = "handle" => rx.at = "handle" \/ state \in {"armed", "receiving"}
    BY <1>0, <1>11 DEF Receive, RxQuit, Workers
  <2> QED
    BY <1>11, <1>k, <2>1 DEF Receive, RxQuit, RestOfRx, Alive
<1>12. CASE Handle
  <2>1. UNCHANGED <<main, quit, ticks, app>> /\ rx'.at = "poll" /\ rx.at = "handle" /\ Alive
    BY <1>12, HandleDoes
  <2>2. CASE hist'.over = hist.over
    <3>1. EarlyInv'
      BY <1>0, <1>i, <2>1, <2>2 DEF EarlyInv, Early, Ended, By
    <3> QED
      BY <1>i, <2>1, <2>2, <3>1
  <2>3. CASE hist.over = -1 /\ hist'.over = ticks.stop /\ state' = "done"
    <3>1. Ended'
      BY <2>1, <2>3 DEF Ended
    <3> QED
      BY <1>0, <1>i, <1>n, <2>1, <2>3, <3>1
  <2> QED
    <3>1. ~SecondSignal /\ ~Trigger /\ ~Expire
      BY <2>1 DEF SecondSignal, Trigger, Expire, RestOfMain
    <3> QED
      BY <2>2, <2>3, <3>1, EndOfHandover
<1>13. CASE Tick
  <2>1. /\ UNCHANGED <<quit, state, app, rx>> /\ hist'.over = hist.over
        /\ ticks'.stop \in Int /\ ticks.stop <= ticks'.stop /\ ticks'.stop <= ticks.stop + 1
    BY <1>0, <1>13 DEF Tick, sigVars, AtMost, TimeInv
  <2>2. CASE ~Alive
    <3>1. main' = main /\ ~Alive'
      BY <1>13, <2>2, <2>1 DEF Tick, Alive
    <3>2. EarlyInv'
      BY <3>1 DEF EarlyInv
    <3> QED
      BY <1>0, <1>i, <2>1, <3>1, <3>2
  <2>3. CASE Alive /\ main.at = "loop"
    <3>1. main.ticks = 1 /\ main'.at = "loop" /\ main'.ticks = 0
      BY <1>0, <1>13, <2>3 DEF Tick, Settled, Mains
    <3>2. EarlyInv'
      BY <1>0, <1>i, <2>1, <2>3, <3>1 DEF EarlyInv, Early, Ended, By
    <3> QED
      BY <1>0, <1>i, <2>1, <3>1, <3>2
  <2>4. CASE Alive /\ main.at = "drain" /\ main.ticks + 1 < Drain
    <3>1. main'.at = "drain" /\ main'.ticks = main.ticks + 1
      BY <1>0, <1>13, <2>4 DEF Tick, Mains
    <3>2. EarlyInv'
      BY <1>0, <1>i, <2>1, <2>4, <3>1 DEF EarlyInv, Early, Ended, By
    <3> QED
      BY <1>0, <1>i, <2>1, <2>4, <3>1, <3>2
  <2>5. CASE Alive /\ main.at = "drain" /\ ~(main.ticks + 1 < Drain)
    <3>1. main'.at = "join" /\ main.ticks + 1 = Drain
      BY <1>0, <1>i, <1>13, <2>5 DEF Tick
    <3>2. EarlyInv'
      BY <1>0, <1>i, <2>1, <2>5, <3>1 DEF EarlyInv, Early, Ended, By
    <3> QED
      BY <1>0, <1>i, <2>1, <3>1, <3>2
  <2> QED
    BY <1>13, <2>2, <2>3, <2>4, <2>5 DEF Tick, Settled
<1> QED
  BY <1>1, <1>2, <1>3, <1>4, <1>5, <1>6, <1>7, <1>8, <1>9, <1>10, <1>11, <1>12, <1>13
     DEF Next, MainStep, RxStep

\* At the SIGKILL all polls are over: Polls ticks since SIGTERM, more than an early end,
\* the sleep and a round of the loop take.
LEMMA KillStep ==
  ASSUME TypeOK, ArmedInv, TimeInv, EndInv, KilledOnlyWhenLate, Next
  PROVE  KilledOnlyWhenLate'
<1>0. /\ ticks.stop \in Int /\ hist.over \in Int /\ main.ticks \in Nat
      /\ Polls \in Nat /\ Drain \in Nat \ {0}
      /\ main.at \in {"loop", "trigger", "arm", "check", "expire", "isDone", "drain", "join"}
  BY TypeParts, FieldTypes, Parameters
<1>1. CASE app' = "killed" /\ app # "killed"
  <2>1. SendKill /\ Alive /\ hist' = hist
    <3>1. ~Handle
      BY <1>1 DEF Handle, RestOfRx
    <3> QED
      BY <1>1, <3>1 DEF Next, DepStep, SendTerm, Poll, SendKill, LastCheck, SecondSignal, MainStep, Round, Trigger,
          Arm, CheckTimeout, Expire, LeaveLoop, Finalize, UnitSends, Lose, RestOfUnit, RxStep, Receive, RxQuit,
          RestOfRx, Tick
  <2>2. ticks.stop = Polls
    BY <2>1 DEF SendKill, TimeInv
  <2>3. ~Early
    BY <1>0, <2>1, <2>2 DEF EndInv, Early, By
  <2> QED
    BY <1>0, <2>1, <2>3 DEF KilledOnlyWhenLate, Early
<1>2. CASE app = "killed"
  <2>1. hist'.over = hist.over
    BY <1>2, EndOfHandover DEF SecondSignal, Trigger, Expire, Handle, MainAt, Alive
  <2>2. hist.sshFailed => hist'.sshFailed
    <3>1. SshFails => hist'.sshFailed
      BY RecordKept
    <3>2. hist' = Over => (hist'.sshFailed <=> hist.sshFailed)
      BY RecordKept
    <3> QED
      BY <1>2, <3>1, <3>2 DEF Next, DepStep, SendTerm, Signal, Poll, AsksRunning, SendKill, LastCheck, SecondSignal,
          MainStep, Round, Trigger, Arm, CheckTimeout, Expire, LeaveLoop, Finalize, MainAt, Alive,
          UnitSends, Lose, RestOfUnit, RxStep, Receive, Handle, RxQuit, Tick
  <2> QED
    BY <1>2, <2>1, <2>2 DEF KilledOnlyWhenLate
<1>3. CASE app' # "killed"
  BY <1>3 DEF KilledOnlyWhenLate
<1> QED
  BY <1>1, <1>2, <1>3

-----------------------------------------------------------------------------
(* The files.                                                                *)

LEMMA Belongs ==
  ASSUME NEW f \in AllFiles
  PROVE  \A i : i \in Belonging(f) <=>
           /\ i \in 1 .. StreamLength /\ KindOf(i) = "content" /\ f \notin refused /\ f <= FileOf(i)
           /\ \A g \in AllFiles : g \notin refused /\ g <= FileOf(i) => g <= f
BY DEF Belonging, Owners

LEMMA BelongingKept ==
  ASSUME UNCHANGED refused
  PROVE  \A f : Belonging(f)' = Belonging(f)
BY DEF Belonging, Owners, KindOf, FileOf, StreamLength, PerFile, AllFiles

LEMMA EmptyIsStart ==
  ASSUME NEW contents
  PROVE  IsStartOf(<<>>, contents) /\ Range(<<>>) = {}
<1>1. DOMAIN (<<>>) = {}
  OBVIOUS
<1>2. Range(<<>>) = {}
  BY <1>1 DEF Range
<1> QED
  BY <1>1, <1>2 DEF IsStartOf, InOrder

\* Contents written after all that are in the file, which had all up to there.
LEMMA WriteFaithful ==
  ASSUME NEW s \in Seq(Nat), NEW contents \in SUBSET Nat, NEW last \in Nat, NEW i \in contents, i = last + 1,
         IsStartOf(s, contents), Range(s) = {j \in contents : j <= last}
  PROVE  /\ IsStartOf(Append(s, i), contents)
         /\ Range(Append(s, i)) = {j \in contents : j <= i}
<1> DEFINE a == Append(s, i)
           n == Len(s)
<1>1. /\ a \in Seq(Nat) /\ Len(a) = n + 1 /\ n \in Nat
      /\ \A j \in 1 .. n : a[j] = s[j]
      /\ a[n + 1] = i
  BY AppendProperties
<1>2. DOMAIN a = 1 .. n + 1 /\ DOMAIN s = 1 .. n
  BY <1>1
<1>3. \A j \in 1 .. n : s[j] \in Range(s) /\ s[j] <= last /\ s[j] \in contents
  BY <1>2 DEF Range
<1> HIDE DEF a, n
<1>4. Range(a) = Range(s) \cup {i}
  <2>1. \A j \in DOMAIN a : a[j] \in Range(s) \cup {i}
    BY <1>1, <1>2, <1>3
  <2>2. \A x \in Range(s) : \E j \in DOMAIN a : a[j] = x
    BY <1>1, <1>2 DEF Range
  <2>3. n + 1 \in DOMAIN a
    BY <1>1, <1>2
  <2> QED
    BY <1>1, <2>1, <2>2, <2>3 DEF Range
<1>n. n \in Nat
  BY <1>1
<1>5. Range(a) = {j \in contents : j <= i}
  <2>1. \A j \in contents : j <= i <=> j <= last \/ j = i
    <3>1. SUFFICES ASSUME NEW j \in contents PROVE j <= i <=> j <= last \/ j = i
      OBVIOUS
    <3>2. j \in Nat /\ last \in Nat /\ i = last + 1
      OBVIOUS
    <3> QED
      BY <3>2
  <2> QED
    BY <1>4, <2>1, Zenon
<1>6. InOrder(a)
  <2>1. SUFFICES ASSUME NEW j \in 1 .. n + 1, NEW k \in 1 .. n + 1, j < k PROVE a[j] < a[k]
    BY <1>2 DEF InOrder
  <2>2. j \in 1 .. n
    BY <1>n, <2>1
  <2>3. CASE k = n + 1
    <3>1. a[j] = s[j] /\ s[j] \in Nat /\ s[j] <= last /\ a[k] = last + 1
      BY <1>1, <1>3, <2>2, <2>3
    <3> QED
      BY <3>1
  <2>4. CASE k # n + 1
    <3>1. k \in 1 .. n
      BY <1>1, <2>1, <2>4
    <3>2. s[j] < s[k]
      BY <1>2, <2>1, <2>2, <3>1 DEF IsStartOf, InOrder
    <3> QED
      BY <1>1, <2>2, <3>1, <3>2
  <2> QED
    BY <2>3, <2>4
<1>7. \A x \in Range(a), y \in contents : y < x => y \in Range(a)
  <2>1. SUFFICES ASSUME NEW x \in Range(a), NEW y \in contents, y < x PROVE y <= i
    BY <1>5
  <2>2. x \in Nat /\ x <= i /\ y \in Nat /\ i \in Nat
    BY <1>5
  <2> QED
    BY <2>1, <2>2
<1> QED
  BY <1>5, <1>6, <1>7 DEF IsStartOf, a

\* The part of a file that was not in its buffer when the application was killed.
LEMMA PrefixFaithful ==
  ASSUME NEW s \in Seq(Nat), NEW contents \in SUBSET Nat, NEW k \in 0 .. Len(s), IsStartOf(s, contents)
  PROVE  IsStartOf(SubSeq(s, 1, k), contents)
<1> DEFINE a == SubSeq(s, 1, k)
           n == Len(s)
<1>1. n \in Nat /\ k \in 0 .. n /\ DOMAIN s = 1 .. n
  BY LenProperties
<1>2. a \in Seq(Nat) /\ Len(a) = k /\ \A j \in 1 .. k : a[j] = s[j]
  BY PrefixOf
<1>3. DOMAIN a = 1 .. k
  BY <1>2, LenProperties
<1>4. \A j \in 1 .. n : s[j] \in Nat
  BY <1>1, ElementOfSeq
<1> HIDE DEF a, n
<1>5. 1 .. k \subseteq 1 .. n
  BY <1>1
<1>6. InOrder(a)
  BY <1>1, <1>2, <1>3, <1>5 DEF InOrder, IsStartOf
<1>7. Range(a) \subseteq contents
  BY <1>1, <1>2, <1>3, <1>5 DEF Range, IsStartOf
<1>8. ASSUME NEW x \in Range(a), NEW y \in contents, y < x
      PROVE  y \in Range(a)
  <2>1. PICK j \in 1 .. k : s[j] = x
    BY <1>2, <1>3 DEF Range
  <2>2. y \in Range(s)
    BY <1>1, <1>5, <1>8, <2>1 DEF Range, IsStartOf
  <2>3. PICK m \in 1 .. n : s[m] = y
    BY <1>1, <2>2 DEF Range
  <2>4. m <= j
    <3>1. SUFFICES ASSUME j < m PROVE FALSE
      BY <1>1, <2>1, <2>3
    <3>2. s[j] < s[m]
      BY <1>1, <1>5, <2>1, <2>3, <3>1 DEF IsStartOf, InOrder
    <3> QED
      BY <1>4, <1>5, <1>8, <2>1, <2>3, <3>2
  <2>5. m \in 1 .. k
    BY <1>1, <2>1, <2>3, <2>4
  <2> QED
    BY <1>2, <1>3, <2>3, <2>5 DEF Range
<1> QED
  BY <1>6, <1>7, <1>8 DEF IsStartOf, a

FilesInv == OpenInv /\ ClosedInv /\ FilesFaithful

LEMMA FilesKept ==
  ASSUME TypeOK, FilesInv, HandlerKept, app' = app \/ app = "runs"
  PROVE  FilesInv'
<1>1. /\ hist'.last = hist.last /\ hist'.finished = hist.finished /\ (hist'.short <=> hist.short)
      /\ corrupted' = corrupted /\ refused' = refused
      /\ (Unspoilt' <=> Unspoilt)
  BY DEF HandlerKept, Unspoilt
<1>2. \A f : Belonging(f)' = Belonging(f)
  BY <1>1, BelongingKept
<1>3. ClosedInv'
  BY <1>1 DEF FilesInv, ClosedInv, FileOf, PerFile
<1>4. CASE current' = current /\ disk' = disk
  <2>1. Alive' => Alive
    BY DEF Alive
  <2>2. OpenInv'
    BY <1>1, <1>2, <1>4, <2>1 DEF FilesInv, OpenInv, FileOf, PerFile, StreamLength, AllFiles, NoFile
  <2>3. FilesFaithful'
    BY <1>1, <1>2, <1>4 DEF FilesInv, FilesFaithful, AllFiles, IsStartOf, InOrder
  <2> QED
    BY <1>3, <2>2, <2>3 DEF FilesInv
<1>5. CASE app' = "exited" /\ current' = NoFile /\ disk' = disk
  <2>1. OpenInv'
    BY <1>5 DEF OpenInv, Alive
  <2>2. FilesFaithful'
    BY <1>1, <1>2, <1>5 DEF FilesInv, FilesFaithful, AllFiles, IsStartOf, InOrder
  <2> QED
    BY <1>3, <2>1, <2>2 DEF FilesInv
<1>6. CASE Alive /\ KillApp
  <2>1. OpenInv'
    BY <1>6 DEF OpenInv, Alive, KillApp
  <2>2. CASE disk' = disk
    BY <1>1, <1>2, <1>3, <2>1, <2>2 DEF FilesInv, FilesFaithful, AllFiles, IsStartOf, InOrder
  <2>3. CASE current # NoFile /\ disk' # disk
    <3>1. PICK k \in 0 .. Len(disk[current]) : disk' = [disk EXCEPT ![current] = SubSeq(@, 1, k)]
      BY <1>6, <2>3 DEF KillApp
    <3>2. current \in AllFiles /\ disk \in Disks
      BY <2>3, TypeParts
    <3>3. /\ disk'[current] = SubSeq(disk[current], 1, k)
          /\ \A f \in AllFiles \ {current} : disk'[f] = disk[f]
      BY <3>1, <3>2 DEF Disks
    <3>4. SUFFICES ASSUME Unspoilt PROVE FilesFaithful'
      BY <1>1, <1>3, <2>1 DEF FilesInv, FilesFaithful, Unspoilt
    <3>5. \A f \in AllFiles : /\ IsStartOf(disk[f], Belonging(f))
                              /\ f \in hist.finished => Range(disk[f]) = Belonging(f)
      BY <3>4 DEF FilesInv, FilesFaithful, Unspoilt
    <3>6. current \notin hist.finished
      BY <1>6, <2>3, <3>4 DEF FilesInv, OpenInv
    <3>7. IsStartOf(disk'[current], Belonging(current))
      <4> DEFINE s == disk[current]
                 c == Belonging(current)
      <4>1. s \in Seq(1 .. StreamLength) /\ k \in 0 .. Len(s) /\ IsStartOf(s, c)
        BY <3>1, <3>2, <3>5 DEF Disks
      <4>2. s \in Seq(Nat) /\ c \in SUBSET Nat
        BY <4>1, Parameters DEF Belonging
      <4> HIDE DEF s, c
      <4>3. IsStartOf(SubSeq(s, 1, k), c)
        BY <4>1, <4>2, PrefixFaithful
      <4> QED
        BY <3>3, <4>3 DEF s, c
    <3>8. \A f \in AllFiles : /\ IsStartOf(disk'[f], Belonging(f))
                              /\ f \in hist.finished => Range(disk'[f]) = Belonging(f)
      BY <3>3, <3>5, <3>6, <3>7
    <3>9. \A f \in AllFiles : IsStartOf(disk[f], Belonging(f))' <=> IsStartOf(disk'[f], Belonging(f))
      BY <1>2 DEF IsStartOf, InOrder
    <3> QED
      BY <1>1, <1>2, <3>8, <3>9 DEF FilesFaithful, AllFiles
  <2> QED
    BY <1>6, <2>2, <2>3 DEF KillApp
<1> QED
  BY <1>4, <1>5, <1>6 DEF HandlerKept

\* What the handler does to the files when nothing was spoilt: the packet is the one after
\* the packet handled last, or the first.
LEMMA HandleInOrder ==
  ASSUME TypeOK, StreamInv, NumberInv, FilesInv, Handle, Unspoilt'
  PROVE  LET i == rx.pkt
         IN  /\ Unspoilt /\ i \in 1 .. StreamLength /\ (hist.last = 0 \/ i = hist.last + 1)
             /\ hist.last \in Nat /\ hist.last < i
             /\ KindOf(i) = "content" => budget' = budget
<1> DEFINE i == rx.pkt
<1>1. /\ i \in 1 .. StreamLength /\ hist.last \in Nat /\ hist.last < i /\ (Gap(i) <=> Skips(i))
  BY HandledPacket
<1>2. /\ corrupted' = corrupted + One(Gap(i)) /\ corrupted \in Nat
      /\ hist'.short <=> hist.short \/ (KindOf(i) = "content" /\ budget' # budget)
  BY HandleDoes, TypeParts
<1> HIDE DEF i
<1>3. ~Gap(i) /\ corrupted = 0
  BY <1>2 DEF Unspoilt, One
<1>4. ~hist.short /\ (KindOf(i) = "content" => budget' = budget)
  BY <1>2 DEF Unspoilt
<1> QED
  BY <1>1, <1>3, <1>4 DEF Skips, Unspoilt, i

\* All that belongs to the open file came before the packet that closes it.
LEMMA CloseWhole ==
  ASSUME TypeOK, FilesInv, Unspoilt, Alive, current # NoFile,
         NEW i \in 1 .. StreamLength, i = hist.last + 1,
         KindOf(i) = "finish" \/ (KindOf(i) = "start" /\ FileOf(i) \notin refused)
  PROVE  /\ Range(disk[current]) = Belonging(current)
         /\ current < FileOf(i)
<1>1. /\ current \in AllFiles /\ hist.last \in 1 .. StreamLength - 1 /\ current \in Nat
      /\ current <= FileOf(hist.last)
      /\ Range(disk[current]) = {j \in Belonging(current) : j <= hist.last}
  BY TypeParts DEF FilesInv, OpenInv, AllFiles
<1>2. /\ FileOf(i) = FileOf(hist.last) + 1 /\ FileOf(hist.last) \in Nat
      /\ KindOf(i) = "finish" <=> i = StreamLength
      /\ KindOf(i) # "finish" => FileOf(i) \in AllFiles
  <2>1. i > 1 /\ i - 1 = hist.last /\ hist.last \in Nat \ {0} /\ i \in Nat \ {0}
    BY <1>1, Parameters
  <2>2. KindOf(i) # "content"
    OBVIOUS
  <2>3. FileOf(i) = FileOf(hist.last) + 1
    BY <2>1, <2>2, StreamShape
  <2>4. KindOf(i) = "finish" <=> i = StreamLength
    BY StreamShape
  <2>5. i # StreamLength => i < StreamLength
    BY Parameters
  <2>6. i < StreamLength => FileOf(i) \in AllFiles
    BY StreamShape
  <2>7. FileOf(hist.last) \in Nat
    BY <2>1, FilesInOrder
  <2> QED
    BY <2>3, <2>4, <2>5, <2>6, <2>7
<1>3. current < FileOf(i)
  BY <1>1, <1>2
<1>4. ASSUME NEW j \in Belonging(current) PROVE j <= hist.last
  <2>1. /\ j \in 1 .. StreamLength /\ KindOf(j) = "content" /\ j \in Nat \ {0} /\ i \in Nat \ {0}
        /\ \A g \in AllFiles : g \notin refused /\ g <= FileOf(j) => g <= current
    BY <1>1, <1>4, Belongs, Parameters
  <2>2. SUFFICES ASSUME i <= j PROVE FALSE
    BY <1>1, <2>1
  <2>3. j # StreamLength
    BY <2>1, StreamShape
  <2>4. CASE KindOf(i) = "finish"
    BY <1>2, <2>1, <2>2, <2>3, <2>4, Parameters
  <2>5. CASE KindOf(i) = "start" /\ FileOf(i) \notin refused
    <3>1. FileOf(i) <= FileOf(j)
      BY <2>1, <2>2, FilesInOrder
    <3>2. FileOf(i) \in AllFiles
      BY <1>2, <2>5
    <3>3. FileOf(i) <= current
      BY <2>1, <2>5, <3>1, <3>2
    <3> QED
      BY <1>1, <1>2, <1>3, <3>3
  <2> QED
    BY <2>4, <2>5
<1> QED
  BY <1>1, <1>3, <1>4

\* Which files are finished after a packet: in an unspoilt handover they are whole.
LEMMA FinishedWhole ==
  ASSUME TypeOK, StreamInv, NumberInv, FilesInv, Handle, Unspoilt',
         NEW f \in hist'.finished
  PROVE  /\ f \in AllFiles /\ f # NoFile
         /\ Range(disk[f]) = Belonging(f) /\ f <= FileOf(rx.pkt)
         /\ KindOf(rx.pkt) = "start" /\ FileOf(rx.pkt) \notin refused => f < FileOf(rx.pkt)
         /\ KindOf(rx.pkt) = "content" => f \in hist.finished
<1> DEFINE i == rx.pkt
           last == hist.last
<1>0. /\ Unspoilt /\ i \in 1 .. StreamLength /\ (last = 0 \/ i = last + 1) /\ last \in Nat /\ last < i
      /\ i \in Nat \ {0} /\ Alive
  BY HandleInOrder, HandleDoes, Parameters
<1>1. hist'.finished = hist.finished \cup (IF Closes(i) THEN {current} \ {NoFile} ELSE {})
  BY HandleDoes
<1>2. /\ hist.finished \in SUBSET AllFiles /\ current \in AllFiles \cup {NoFile}
      /\ 0 \notin AllFiles /\ \A g \in AllFiles : g \in Nat
  BY FieldTypes, TypeParts, Parameters DEF AllFiles
<1>3. FileOf(i) \in Nat
  BY <1>0, FilesInOrder
<1> HIDE DEF i
<1>4. CASE f \in hist.finished
  <2>1. f \in AllFiles /\ last # 0 /\ f <= FileOf(last) /\ Range(disk[f]) = Belonging(f)
    BY <1>0, <1>2, <1>4 DEF FilesInv, ClosedInv, FilesFaithful, Unspoilt
  <2>2. last \in Nat \ {0} /\ last <= i
    BY <1>0, <2>1
  <2>3. FileOf(last) <= FileOf(i) /\ FileOf(last) \in Nat
    BY <1>0, <2>2, FilesInOrder
  <2>4. f <= FileOf(i)
    BY <1>2, <1>3, <2>1, <2>3
  <2>5. KindOf(i) = "start" => FileOf(i) = FileOf(last) + 1
    <3>1. i > 1 /\ i - 1 = last
      BY <1>0, <2>2
    <3> QED
      BY <1>0, <3>1, StreamShape
  <2>6. KindOf(i) = "start" => f < FileOf(i)
    BY <1>2, <1>3, <2>1, <2>3, <2>5
  <2> QED
    BY <1>2, <1>4, <2>1, <2>4, <2>6 DEF i, NoFile
<1>5. CASE f = current /\ current # NoFile /\ Closes(i)
  <2>1. i = last + 1
    BY <1>0, <1>5 DEF FilesInv, OpenInv
  <2>2. Range(disk[current]) = Belonging(current) /\ current < FileOf(i)
    BY <1>0, <1>5, <2>1, CloseWhole DEF Closes
  <2>3. f \in AllFiles /\ f \in Nat
    BY <1>2, <1>5
  <2>4. KindOf(i) # "content"
    BY <1>5 DEF Closes
  <2> QED
    BY <1>3, <1>5, <2>2, <2>3, <2>4 DEF i
<1> QED
  BY <1>1, <1>4, <1>5

\* The open file after a packet of an unspoilt handover.
LEMMA OpenAfterHandle ==
  ASSUME TypeOK, StreamInv, NumberInv, FilesInv, Handle, Unspoilt', current' # NoFile
  PROVE  LET i == rx.pkt
             c == current'
         IN  /\ i \in 1 .. StreamLength - 1 /\ c \in AllFiles /\ c \notin refused /\ c <= FileOf(i)
             /\ \A g \in AllFiles : c < g /\ g <= FileOf(i) => g \in refused
             /\ Range(disk'[c]) = {j \in Belonging(c) : j <= i}
             /\ IsStartOf(disk'[c], Belonging(c))
             /\ c \notin hist'.finished
             /\ \A f \in AllFiles \ {c} : disk'[f] = disk[f]
<1> DEFINE i == rx.pkt
           last == hist.last
           c == current'
<1>0. /\ Unspoilt /\ i \in 1 .. StreamLength /\ (last = 0 \/ i = last + 1) /\ last \in Nat /\ last < i
      /\ i \in Nat \ {0} /\ Alive
      /\ KindOf(i) = "content" => budget' = budget
  BY HandleInOrder, HandleDoes, Parameters
<1>1. /\ current \in AllFiles \cup {NoFile} /\ disk \in Disks
      /\ hist.finished \in SUBSET AllFiles /\ budget \in Budgets
      /\ 0 \notin AllFiles /\ \A g \in AllFiles : g \in Nat
  BY TypeParts, FieldTypes, Parameters DEF AllFiles
<1>2. FileOf(i) \in Nat
  BY <1>0, FilesInOrder
<1>3. /\ \/ KindOf(i) = "start" /\ (Refuse(FileOf(i)) \/ OpenFile(FileOf(i)) \/ OpenFails(FileOf(i)))
         \/ KindOf(i) = "content" /\ Write(i)
         \/ KindOf(i) = "finish" /\ current' = NoFile /\ UNCHANGED <<disk, budget>>
      /\ hist'.finished = hist.finished \cup (IF Closes(i) THEN {current} \ {NoFile} ELSE {})
  BY HandleDoes
<1>4. KindOf(i) # "finish" => i \in 1 .. StreamLength - 1 /\ FileOf(i) \in AllFiles
  <2>1. KindOf(i) # "finish" => i < StreamLength
    BY <1>0, StreamShape, Parameters
  <2> QED
    BY <1>0, <2>1, StreamShape, Parameters
<1>5. current # NoFile =>
        /\ last \in 1 .. StreamLength - 1 /\ i = last + 1
        /\ current \in AllFiles /\ current \notin refused /\ current <= FileOf(last)
        /\ \A g \in AllFiles : current < g /\ g <= FileOf(last) => g \in refused
        /\ Range(disk[current]) = {j \in Belonging(current) : j <= last}
        /\ IsStartOf(disk[current], Belonging(current))
        /\ current \notin hist.finished
  BY <1>0, <1>1 DEF FilesInv, OpenInv, FilesFaithful, Unspoilt
<1>6. /\ current # NoFile /\ KindOf(i) = "content" => FileOf(i) = FileOf(last)
      /\ last # 0 /\ KindOf(i) = "start" => FileOf(i) = FileOf(last) + 1 /\ FileOf(last) \in Nat
  <2>1. SUFFICES ASSUME last # 0
                 PROVE  /\ KindOf(i) = "content" => FileOf(i) = FileOf(last)
                        /\ KindOf(i) = "start" => FileOf(i) = FileOf(last) + 1 /\ FileOf(last) \in Nat
    BY <1>5
  <2>2. i > 1 /\ i - 1 = last /\ last \in Nat \ {0}
    BY <1>0, <2>1
  <2>3. FileOf(last) \in Nat
    BY <2>2, FilesInOrder
  <2> QED
    BY <1>0, <2>2, <2>3, StreamShape
<1> HIDE DEF i, last
<1>7. CASE KindOf(i) = "start" /\ Refuse(FileOf(i))
  <2>1. c = current /\ current # NoFile /\ disk' = disk /\ FileOf(i) \in refused
    BY <1>7 DEF Refuse
  <2>2. last # 0
    BY <1>5, <2>1
  <2>3. \A g \in AllFiles : c < g /\ g <= FileOf(i) => g \in refused
    BY <1>1, <1>5, <1>6, <1>7, <2>1, <2>2
  <2>4. Range(disk'[c]) = {j \in Belonging(c) : j <= i}
    <3>1. i \notin Belonging(c)
      BY <1>5, <1>7, <2>1, Belongs
    <3>2. \A j \in Belonging(c) : j \in Nat
      BY Parameters DEF Belonging
    <3>3. \A j \in Belonging(c) : j <= i <=> j <= last
      BY <1>0, <1>5, <2>1, <3>1, <3>2
    <3> QED
      BY <1>5, <2>1, <3>3
  <2>5. hist'.finished = hist.finished
    BY <1>3, <1>7, <2>1 DEF Closes
  <2>6. c <= FileOf(i)
    BY <1>1, <1>2, <1>5, <1>6, <1>7, <2>1, <2>2
  <2> QED
    BY <1>4, <1>5, <1>7, <2>1, <2>3, <2>4, <2>5, <2>6 DEF i
<1>8. CASE KindOf(i) = "start" /\ OpenFile(FileOf(i))
  <2>1. c = FileOf(i) /\ c \in AllFiles /\ c \notin refused /\ disk' = [disk EXCEPT ![c] = <<>>]
    BY <1>4, <1>8 DEF OpenFile
  <2>2. disk'[c] = <<>> /\ \A f \in AllFiles \ {c} : disk'[f] = disk[f]
    BY <1>1, <2>1 DEF Disks
  <2>3. {j \in Belonging(c) : j <= i} = {}
    <3>1. SUFFICES ASSUME NEW j \in Belonging(c), j <= i PROVE FALSE
      OBVIOUS
    <3>2. j \in 1 .. StreamLength /\ KindOf(j) = "content" /\ c <= FileOf(j)
      BY <2>1, Belongs
    <3>3. j \in Nat \ {0} /\ i - 1 \in Nat \ {0} /\ j <= i - 1 /\ i > 1
      BY <1>0, <1>8, <3>1, <3>2, Parameters
    <3>4. FileOf(j) <= FileOf(i - 1) /\ FileOf(j) \in Nat /\ FileOf(i - 1) \in Nat
      BY <3>3, FilesInOrder
    <3>5. FileOf(i) = FileOf(i - 1) + 1
      BY <1>0, <1>8, <3>3, StreamShape
    <3> QED
      BY <1>2, <2>1, <3>2, <3>4, <3>5
  <2>4. Range(disk'[c]) = {} /\ IsStartOf(disk'[c], Belonging(c))
    BY <2>2, EmptyIsStart
  <2>5. c \notin hist'.finished
    <3>1. SUFFICES ASSUME c \in hist'.finished PROVE FALSE
      OBVIOUS
    <3>2. c < FileOf(i)
      BY <1>8, <2>1, <3>1, FinishedWhole DEF i
    <3> QED
      BY <1>2, <2>1, <3>2
  <2>6. \A g \in AllFiles : c < g /\ g <= FileOf(i) => g \in refused
    BY <1>1, <1>2, <2>1
  <2> QED
    BY <1>2, <1>4, <1>8, <2>1, <2>2, <2>3, <2>4, <2>5, <2>6 DEF i
<1>9. CASE KindOf(i) = "content" /\ Write(i)
  <2>0. ~(MayFail /\ Failed)
    <3>1. budget.failed \in Int /\ budget' = budget
      BY <1>0, <1>9, FieldTypes, Parameters
    <3>2. Failed => budget'.failed = budget.failed + 1
      BY <1>1 DEF Failed, Budgets
    <3> QED
      BY <3>1, <3>2
  <2>1. c = current /\ current # NoFile /\ disk' = [disk EXCEPT ![current] = Append(@, i)]
    BY <1>9, <2>0 DEF Write
  <2>2. disk'[c] = Append(disk[c], i) /\ \A f \in AllFiles \ {c} : disk'[f] = disk[f]
    BY <1>1, <1>5, <2>1 DEF Disks
  <2>3. i \in Belonging(c)
    <3>1. FileOf(i) = FileOf(last) /\ c \in AllFiles /\ c \notin refused /\ c <= FileOf(i)
      BY <1>5, <1>6, <1>9, <2>1
    <3>2. \A g \in AllFiles : g \notin refused /\ g <= FileOf(i) => g <= c
      BY <1>1, <1>5, <2>1, <3>1
    <3> QED
      BY <1>0, <1>9, <3>1, <3>2, Belongs
  <2>4. /\ IsStartOf(Append(disk[c], i), Belonging(c))
        /\ Range(Append(disk[c], i)) = {j \in Belonging(c) : j <= i}
    <3> DEFINE s == disk[c]
               b == Belonging(c)
    <3>1. s \in Seq(1 .. StreamLength) /\ IsStartOf(s, b) /\ Range(s) = {j \in b : j <= last} /\ i = last + 1
      BY <1>1, <1>5, <2>1 DEF Disks
    <3>2. s \in Seq(Nat) /\ b \in SUBSET Nat /\ i \in b
      BY <2>3, <3>1, Parameters DEF Belonging
    <3> HIDE DEF s, b
    <3>3. IsStartOf(Append(s, i), b) /\ Range(Append(s, i)) = {j \in b : j <= i}
      BY <1>0, <3>1, <3>2, WriteFaithful
    <3> QED
      BY <3>3 DEF s, b
  <2>5. hist'.finished = hist.finished
    BY <1>3, <1>9 DEF Closes
  <2>6. FileOf(i) = FileOf(last)
    BY <1>6, <1>9, <2>1
  <2> QED
    BY <1>4, <1>5, <1>9, <2>1, <2>2, <2>4, <2>5, <2>6 DEF i
<1> QED
  BY <1>3, <1>7, <1>8, <1>9 DEF OpenFails

LEMMA FilesHandled ==
  ASSUME TypeOK, StreamInv, NumberInv, FilesInv, Handle
  PROVE  FilesInv'
<1> DEFINE i == rx.pkt
<1>1. /\ Alive /\ hist'.last = i /\ UNCHANGED refused /\ i \in 1 .. StreamLength /\ i # 0
      /\ \A f : Belonging(f)' = Belonging(f)
      /\ \A f \in AllFiles : IsStartOf(disk[f], Belonging(f))' <=> IsStartOf(disk'[f], Belonging(f))
  <2>1. Alive /\ hist'.last = i /\ UNCHANGED refused /\ i \in 1 .. StreamLength
    BY HandleDoes, HandledPacket
  <2>2. \A f : Belonging(f)' = Belonging(f)
    BY <2>1, BelongingKept
  <2> QED
    BY <2>1, <2>2, Parameters DEF IsStartOf, InOrder
<1>2. OpenInv'
  <2>1. SUFFICES ASSUME Unspoilt', current' # NoFile PROVE OpenInv'
    BY DEF OpenInv, NoFile
  <2> HIDE DEF i
  <2>2. /\ i \in 1 .. StreamLength - 1 /\ current' \notin refused /\ current' <= FileOf(i)
        /\ \A g \in AllFiles : current' < g /\ g <= FileOf(i) => g \in refused
        /\ Range(disk'[current']) = {j \in Belonging(current') : j <= i}
        /\ current' \notin hist'.finished
    BY <2>1, OpenAfterHandle DEF i
  <2>3. Belonging(current)' = Belonging(current')
    BY <1>1 DEF Belonging, Owners, KindOf, FileOf, StreamLength, PerFile, AllFiles
  <2>4. FileOf(hist.last)' = FileOf(i)
    BY <1>1 DEF FileOf, PerFile
  <2> QED
    BY <1>1, <2>1, <2>2, <2>3, <2>4 DEF OpenInv, StreamLength, PerFile, AllFiles
<1>3. ClosedInv'
  <2>1. SUFFICES ASSUME Unspoilt', NEW f \in hist'.finished PROVE f <= FileOf(i)
    BY <1>1 DEF ClosedInv, FileOf, PerFile
  <2> QED
    BY <2>1, FinishedWhole
<1>4. FilesFaithful'
  <2>1. SUFFICES ASSUME Unspoilt', NEW f \in AllFiles
                 PROVE  /\ IsStartOf(disk'[f], Belonging(f))
                        /\ f \in hist'.finished => Range(disk'[f]) = Belonging(f)
    BY <1>1 DEF FilesFaithful, Unspoilt, AllFiles
  <2>2. /\ IsStartOf(disk[f], Belonging(f))
        /\ f \in hist'.finished => Range(disk[f]) = Belonging(f)
    <3>1. Unspoilt
      BY <2>1, HandleInOrder
    <3>2. IsStartOf(disk[f], Belonging(f))
      BY <3>1 DEF FilesInv, FilesFaithful, Unspoilt
    <3> QED
      BY <2>1, <3>2, FinishedWhole
  <2>3. CASE current' # NoFile
    BY <2>1, <2>2, <2>3, OpenAfterHandle
  <2>4. CASE current' = NoFile
    <3>1. disk' = disk
      <4> HIDE DEF i
      <4>1. FileOf(i) \in Nat \ {0}
        BY <1>1, StreamShape
      <4>2. ~OpenFile(FileOf(i))
        BY <2>4, <4>1 DEF OpenFile, NoFile
      <4> QED
        BY <2>4, <4>2, HandleDoes DEF Refuse, OpenFails, Write, i
    <3> QED
      BY <2>2, <3>1
  <2> QED
    BY <2>3, <2>4
<1> QED
  BY <1>2, <1>3, <1>4 DEF FilesInv

LEMMA FilesStep ==
  ASSUME TypeOK, StreamInv, NumberInv, FilesInv, Next
  PROVE  FilesInv'
<1>1. CASE Handle
  BY <1>1, FilesHandled
<1>2. CASE HandlerKept
  <2>1. app' = app \/ app = "runs"
    <3>1. CASE Handle
      BY <3>1, HandleDoes
    <3>2. CASE ~Handle
      BY <3>2 DEF Next, DepStep, SendTerm, Poll, SendKill, KillApp, LastCheck, SecondSignal, MainStep, Round,
          Trigger, Arm, CheckTimeout, Expire, LeaveLoop, Finalize, MainAt, Alive, UnitSends, Lose, RestOfUnit,
          RxStep, Receive, RxQuit, RestOfRx, Tick
    <3> QED
      BY <3>1, <3>2
  <2> QED
    BY <1>2, <2>1, FilesKept
<1> QED
  BY <1>1, <1>2, OthersKeep

-----------------------------------------------------------------------------
(* The theorems.                                                             *)

LEMMA StutterInv ==
  ASSUME IInv, UNCHANGED vars
  PROVE  IInv'
<1> USE DEF IInv, vars
<1>1. TypeOK'
  <2>1. TypeOK
    OBVIOUS
  <2> QED
    BY <2>1, TypeParts, TypePartsNext
<1>2. ArmedInv' /\ StreamInv' /\ NumberInv' /\ GapsExact'
  BY DEF ArmedInv, StreamInv, NumberInv, GapsExact, OnWire, One, Listening, NextSeq, SeqNo
<1>3. TimeInv' /\ EndInv' /\ KilledOnlyWhenLate'
  BY DEF TimeInv, EndInv, KilledOnlyWhenLate, Early, Ended, By, Alive, Horizon
<1>4. FilesInv'
  <2>1. HandlerKept
    BY DEF HandlerKept
  <2>2. FilesInv
    BY DEF FilesInv
  <2> QED
    BY <2>1, <2>2, FilesKept
<1> QED
  BY <1>1, <1>2, <1>3, <1>4 DEF FilesInv

\* The invariant that all the theorems rest on: the packets between the one handled last
\* and the one sent last are lost or on the wire, the number expected is that of the next
\* packet, the open file has all that belongs to it, and the stop has taken as long as its
\* polls say.
THEOREM Inductive == Spec => []IInv
<1>1. IInv /\ [Next]_vars => IInv'
  <2>1. SUFFICES ASSUME IInv, Next PROVE IInv'
    BY StutterInv
  <2>2. TypeOK' /\ ArmedInv'
    BY <2>1, TypeStep, ArmedStep DEF IInv
  <2>3. StreamInv' /\ NumberInv' /\ GapsExact'
    BY <2>1, StreamStep, NumberStep DEF IInv
  <2>4. TimeInv' /\ EndInv' /\ KilledOnlyWhenLate'
    BY <2>1, <2>2, TimeStep, EndStep, KillStep DEF IInv
  <2>5. FilesInv'
    BY <2>1, FilesStep DEF IInv, FilesInv
  <2> QED
    BY <2>2, <2>3, <2>4, <2>5 DEF IInv, FilesInv
<1> QED
  BY InitInv, <1>1, PTL DEF Spec

\* The variables of stopApplication and of dpdk_cmc keep their types.
THEOREM TypeCorrect == Spec => []TypeOK
BY Inductive, PTL DEF IInv

\* mmms_handle_packet counts every interruption of the unit's numbered stream, over the
\* wrap of the numbers, and nothing else, whatever is lost below a whole round.
THEOREM GapsAreCounted == Spec => []GapsExact
BY Inductive, PTL DEF IInv

\* A handover without gaps and failed writes leaves each file with a start of its contents,
\* in order, and with all of them once the unit went on to the next one.
THEOREM FilesAreFaithful == Spec => []FilesFaithful
BY Inductive, PTL DEF IInv

\* stopApplication does not kill an application that got its SIGTERM and whose handover
\* was over early enough to sleep and join its workers.
THEOREM NotKilledInTime == Spec => []KilledOnlyWhenLate
BY Inductive, PTL DEF IInv

===============================================================================
