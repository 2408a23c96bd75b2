---------------------------- MODULE RecordProofs ----------------------------
(***************************************************************************)
(* Proofs about what the panel records of its cores: that the books of     *)
(* their traffic hold every byte once, that a part of the history which    *)
(* calls itself complete is, that the chunks of a log file which a reader  *)
(* puts together are the file, and that captured output is in order.       *)
(***************************************************************************)
EXTENDS MCHost, SequenceTheorems, InductionLemmas

-----------------------------------------------------------------------------
(* Traffic. Every booked byte has a process that counted it. *)

\* The sums of the model are those of InductionLemmas.
LEMMA SumIsTotal == ASSUME NEW f PROVE Ledger!SumOf(f) = Total(f, DOMAIN f)
BY DEF Ledger!SumOf, Ledger!MapThenSumSet, Ledger!MapThenFoldSet, Total

\* A month is one of the ledger.
LEMMA MonthExists ==
  ASSUME NEW moment \in 0 .. MaxTrafficTime
  PROVE  Ledger!monthStart(moment) \in 0 .. Ledger!monthStart(MaxTrafficTime)
<1>1. /\ MonthLength \in Nat /\ MonthLength > 0 /\ MaxTrafficTime \in Nat /\ moment \in Nat
      /\ moment <= MaxTrafficTime
  BY RecordAssumption
<1>2. PICK n \in Nat, m \in Nat, d \in Nat : n = moment /\ m = MaxTrafficTime /\ d = MonthLength
           /\ d > 0 /\ n <= m
  BY <1>1
<1>3. PICK q \in Int, k \in Int : q = n \div d /\ k = m \div d
  BY <1>2
<1>4. d * q <= n /\ n < d * q + d /\ d * k <= m /\ m < d * k + d
  BY <1>2, <1>3
<1>5. 0 <= q
  <2>1. SUFFICES ASSUME q <= -1 PROVE FALSE
    BY <1>3
  <2>2. d * q <= d * (-1)
    BY <1>2, <1>3, <2>1
  <2> QED
    BY <1>2, <1>3, <1>4, <2>2
<1>6. q <= k
  <2>1. SUFFICES ASSUME k + 1 <= q PROVE FALSE
    BY <1>3
  <2>2. d * (k + 1) <= d * q
    BY <1>2, <1>3, <2>1
  <2>3. d * (k + 1) = d * k + d
    BY <1>2, <1>3
  <2> QED
    BY <1>2, <1>3, <1>4, <2>2, <2>3
<1> QED
  BY <1>2, <1>3, <1>5, <1>6 DEF Ledger!monthStart

-----------------------------------------------------------------------------
(* The books: their types, what they add up to, and how Record changes them *)

Months == [0 .. Ledger!monthStart(MaxTrafficTime) -> Nat]
Checkpoints == [process : Processes \cup {NoProcess}, count : 0 .. MaxCount,
    at : Ledger!Never .. MaxTrafficTime]
BookTypes == [checkpoint : Checkpoints, months : Months, samples : SUBSET Ledger!Rows]

\* The rows lie one after the other up to the checkpoint, and carry no more than is booked.
Kept(books) ==
  /\ IsFiniteSet(books.samples)
  /\ \A r \in books.samples :
       r.at <= books.checkpoint.at /\ r.start < r.at /\ (r.complete => r.start # Ledger!Never)
  /\ \A r, q \in books.samples :
       r # q =>
         /\ r.at # q.at
         /\ r.start # Ledger!Never /\ q.start # Ledger!Never => r.at <= q.start \/ q.at <= r.start
  /\ Total([r \in books.samples |-> r.delta], books.samples)
       <= Total(books.months, DOMAIN books.months)

LEMMA LedgerFinite == IsFiniteSet(0 .. Ledger!monthStart(MaxTrafficTime))
    /\ Ledger!monthStart(MaxTrafficTime) \in Nat
<1>1. 0 \in 0 .. MaxTrafficTime /\ MaxTrafficTime \in 0 .. MaxTrafficTime
  BY RecordAssumption
<1>2. /\ Ledger!monthStart(MaxTrafficTime) \in 0 .. Ledger!monthStart(MaxTrafficTime)
      /\ Ledger!monthStart(MaxTrafficTime) \in Int
  BY <1>1, MonthExists, RecordAssumption DEF Ledger!monthStart
<1> QED
  BY <1>2, FS_Interval

\* A sample that is accepted becomes the checkpoint, what is added goes to its month, and
\* its row comes after all others.
LEMMA RecordAccepted ==
  ASSUME NEW books \in BookTypes, NEW p \in Processes, NEW sample \in Ledger!Samples,
         Ledger!Accepts(books, p, sample)
  PROVE  /\ Ledger!Delta(books, p, sample) \in 0 .. MaxCount
         /\ Ledger!Record(books, p, sample) \in BookTypes
         /\ Ledger!Record(books, p, sample).checkpoint = [process |-> p, count |-> sample.count,
             at |-> sample.at]
         /\ Total(Ledger!Record(books, p, sample).months,
             DOMAIN Ledger!Record(books, p, sample).months)
              = Total(books.months, DOMAIN books.months) + Ledger!Delta(books, p, sample)
         /\ Kept(books) => Kept(Ledger!Record(books, p, sample))
<1> DEFINE c == books.checkpoint
           D == 0 .. Ledger!monthStart(MaxTrafficTime)
           month == Ledger!monthStart(sample.at)
           n == Ledger!Record(books, p, sample)
           row == Ledger!Row(books, p, sample)
<1>0. PICK delta : delta = Ledger!Delta(books, p, sample)
  OBVIOUS
<1>1. /\ c \in Checkpoints /\ books.months \in Months /\ books.samples \in SUBSET Ledger!Rows
      /\ sample.count \in 0 .. MaxCount /\ sample.at \in Ledger!Never .. MaxTrafficTime
  BY DEF BookTypes, Ledger!Samples
<1>2. /\ c.process \in Processes \cup {NoProcess} /\ c.count \in 0 .. MaxCount
      /\ c.at \in Ledger!Never .. MaxTrafficTime
  BY <1>1 DEF Checkpoints
<1>3. /\ sample.at > c.at /\ (c.process = p => sample.count >= c.count)
  BY DEF Ledger!Accepts
<1>4. sample.at \in 0 .. MaxTrafficTime /\ sample.count \in Nat /\ c.count \in Nat
  BY <1>1, <1>2, <1>3, RecordAssumption DEF Ledger!Never
<1>5. delta \in 0 .. MaxCount
  BY <1>1, <1>2, <1>3, RecordAssumption, <1>0 DEF Ledger!Delta
<1>6. month \in D
  BY <1>4, MonthExists
<1>7. n = [checkpoint |-> [process |-> p, count |-> sample.count, at |-> sample.at],
           months |-> [books.months EXCEPT ![month] = @ + delta],
               samples |-> books.samples \cup {row}]
  BY <1>0 DEF Ledger!Record
<1>8. [books.months EXCEPT ![month] = @ + delta] \in Months
  <2>1. books.months[month] \in Nat
    BY <1>1, <1>6 DEF Months
  <2>2. books.months[month] + delta \in Nat
    BY <1>5, <2>1, RecordAssumption
  <2> HIDE DEF month
  <2> QED
    BY <1>1, <2>2 DEF Months
<1>9. PICK start \in Ledger!Never .. MaxTrafficTime, complete \in BOOLEAN :
         /\ row = [at |-> sample.at, start |-> start, delta |-> delta, complete |-> complete]
         /\ start = IF c.process = p THEN c.at ELSE Ledger!Never
         /\ complete => start # Ledger!Never
  <2>1. (IF c.process = p THEN c.at ELSE Ledger!Never) \in Ledger!Never .. MaxTrafficTime
    BY <1>2, RecordAssumption DEF Ledger!Never
  <2>2. row.complete \in BOOLEAN /\ (row.complete => row.start # Ledger!Never)
    BY DEF Ledger!Row
  <2> QED
    BY <1>0, <2>1, <2>2 DEF Ledger!Row
<1>10. row \in Ledger!Rows /\ row.at = sample.at /\ row.start = start /\ row.delta = delta
       /\ row.complete = complete
  BY <1>4, <1>5, <1>9 DEF Ledger!Rows
<1>11. n \in BookTypes
  <2>1. [process |-> p, count |-> sample.count, at |-> sample.at] \in Checkpoints
    BY <1>1 DEF Checkpoints
  <2> HIDE DEF row, month
  <2> QED
    BY <1>1, <1>7, <1>8, <1>10, <2>1 DEF BookTypes
<1>12. Total(n.months, DOMAIN n.months) = Total(books.months, DOMAIN books.months) + delta
  <2>1. PICK f, g : f = books.months /\ g = [f EXCEPT ![month] = @ + delta]
    OBVIOUS
  <2>2. PICK E, x : E = D /\ x = month
    OBVIOUS
  <2>3. /\ IsFiniteSet(E) /\ f \in [E -> Nat] /\ x \in E /\ delta \in Nat
        /\ g = [f EXCEPT ![x] = @ + delta]
    BY <1>1, <1>5, <1>6, <2>1, <2>2, LedgerFinite, RecordAssumption DEF Months
  <2>4. g \in [E -> Nat] /\ Total(g, E) = Total(f, E) + delta
    <3>1. IsFiniteSet(E) /\ f \in [E -> Nat] /\ x \in E /\ delta \in Nat
      BY <2>3
    <3>2. Added(f, x, delta) \in [E -> Nat] /\ Total(Added(f, x, delta), E) = Total(f, E) + delta
      BY ONLY <3>1, TotalAdds
    <3> QED
      BY <2>3, <3>2 DEF Added
  <2>5. DOMAIN f = E /\ DOMAIN g = E
    BY <2>3, <2>4
  <2>7. n.months = g
    BY <1>7, <2>1
  <2> HIDE DEF n, D
  <2> QED
    BY <2>1, <2>4, <2>5, <2>7
<1>13. ASSUME Kept(books) PROVE Kept(n)
  <2>1. PICK S \in SUBSET Ledger!Rows : S = books.samples /\ IsFiniteSet(S)
    BY <1>1, <1>13 DEF Kept
  <2>2. PICK r : r = row /\ r \in Ledger!Rows /\ r.at = sample.at /\ r.start = start
             /\ r.delta = delta
               /\ r.complete = complete
    BY <1>10
  <2>3. n.samples = S \cup {r} /\ n.checkpoint.at = sample.at
    BY <1>7, <2>1, <2>2
  <2>4. \A q \in S : q.at < r.at /\ q.at \in Int /\ q.start \in Int /\ q.delta \in Nat
          /\ q.at <= c.at /\ q.start < q.at
    BY <1>2, <1>3, <1>13, <2>1, <2>2 DEF Kept, Ledger!Rows
  <2>5. r \notin S
    BY <2>2, <2>4 DEF Ledger!Rows
  <2>6. /\ r.start < r.at /\ r.at \in Int /\ r.start \in Int
        /\ (r.start # Ledger!Never => \A q \in S : q.at <= r.start)
    BY <1>2, <1>3, <1>4, <1>9, <2>2, <2>4, RecordAssumption DEF Ledger!Never
  <2>7. \A q \in S \cup {r} : q.at <= sample.at /\ q.start < q.at
          /\ (q.complete => q.start # Ledger!Never)
    <3>1. \A q \in S : q.complete => q.start # Ledger!Never
      BY <1>13, <2>1 DEF Kept
    <3>2. r.complete => r.start # Ledger!Never
      BY <1>9, <2>2
    <3>3. \A q \in S \cup {r} : q.at <= sample.at /\ q.start < q.at
      BY <1>2, <1>3, <1>4, <2>2, <2>4, <2>6
    <3> QED
      BY <3>1, <3>2, <3>3
  <2>8. ASSUME NEW x \in S \cup {r}, NEW y \in S \cup {r}, x # y
        PROVE  /\ x.at # y.at
               /\ (x.start # Ledger!Never /\ y.start # Ledger!Never
                   => x.at <= y.start \/ y.at <= x.start)
    <3>1. CASE x \in S /\ y \in S
      BY <1>13, <2>1, <2>8, <3>1 DEF Kept
    <3>2. CASE x = r \/ y = r
      BY <2>4, <2>6, <2>8, <3>2
    <3> QED
      BY <3>1, <3>2
  <2>9. PICK f, g : f = [q \in S |-> q.delta] /\ g = [q \in S \cup {r} |-> q.delta]
    OBVIOUS
  <2>10. IsFiniteSet(S \cup {r}) /\ (S \cup {r}) \ {r} = S /\ r \in S \cup {r}
    BY <2>1, <2>5, FS_AddElement
  <2>11. /\ \A q \in S : f[q] \in Nat /\ g[q] \in Nat /\ f[q] = g[q]
         /\ \A q \in S \cup {r} : g[q] \in Nat
         /\ g[r] = delta
    BY <1>5, <2>2, <2>4, <2>9
  <2>12. Total(g, S \cup {r}) = g[r] + Total(g, S)
    <3>1. PICK E : E = S \cup {r} /\ IsFiniteSet(E) /\ E \ {r} = S /\ r \in E /\ \A q \in E :
               g[q] \in Nat
      BY <2>10, <2>11
    <3>2. Total(g, E) = g[r] + Total(g, E \ {r})
      BY ONLY <3>1, TotalTakes, ZenonT(60)
    <3> QED
      BY <3>1, <3>2
  <2>13. Total(f, S) = Total(g, S)
    BY <2>1, <2>11, TotalAgrees
  <2>14. Total(f, S) \in Nat
    BY <2>1, <2>11, TotalTakes
  <2>15. Total(f, S) <= Total(books.months, DOMAIN books.months)
    BY <1>13, <2>1, <2>9 DEF Kept
  <2>16. Total(books.months, DOMAIN books.months) \in Nat
    <3>1. PICK m : m = books.months /\ DOMAIN m = D /\ \A y \in D : m[y] \in Nat
      BY <1>1 DEF Months
    <3>2. Total(m, D) \in Nat
      BY <3>1, LedgerFinite, TotalTakes
    <3> QED
      BY <3>1, <3>2
  <2>17. Total(g, S \cup {r}) <= Total(n.months, DOMAIN n.months)
    <3> HIDE DEF n
    <3> QED
      BY <1>5, <1>12, <2>11, <2>12, <2>13, <2>14, <2>15, <2>16
  <2>18. n.samples = S \cup {r} /\ g = [q \in n.samples |-> q.delta] /\ IsFiniteSet(n.samples)
    BY <2>3, <2>9, <2>10
  <2> HIDE DEF n
  <2> QED
    BY <2>3, <2>7, <2>8, <2>17, <2>18 DEF Kept
<1> QED
  BY <1>0, <1>5, <1>7, <1>11, <1>12, <1>13

-----------------------------------------------------------------------------
(* The inductive invariant *)

\* What is booked can be attributed to processes, to each no more than it has counted: to the
\* process of the checkpoint, where its samples may still add something, no more than the
\* checkpoint holds, and nothing yet to a process that came up during a collection.
Attributed(t) ==
  /\ t \in [Processes -> Nat]
  /\ Total(months, DOMAIN months) <= Total(t, Processes)
  /\ \A p \in Processes : t[p] <= counted[p]
  /\ (/\ checkpoint.process \in Processes
      /\ \/ counting = checkpoint.process
         \/ sampling # Ledger!Idle /\ sampling.process = checkpoint.process)
       => t[checkpoint.process] <= checkpoint.count
  /\ sampling # Ledger!Idle /\ counting \notin {NoProcess, sampling.process} => t[counting] = 0
  /\ sampling.step = "answered" /\ counting = sampling.process /\ checkpoint.process # counting
       => t[counting] <= sampling.sample.count
  /\ sampling.step = "answered" /\ checkpoint.process = sampling.process
       /\ sampling.sample.count > counted[sampling.process]
       => \E a \in Processes \ {sampling.process} : sampling.sample.count <= counted[a] /\ t[a] = 0

\* What a collection at work and the memory of the collector know of each other and of the
\* checkpoint.
Asked ==
  /\ sampling.step = "idle" <=> sampling = Ledger!Idle
  /\ sampling # Ledger!Idle =>
       sampling.process = collector.process /\ sampling.process \in Processes
  /\ sampling.step = "answered" => sampling.sample.at # Ledger!Never
  /\ sampling.step = "answered" /\ counting = sampling.process /\ checkpoint.process = counting
       => sampling.sample.count <= counted[counting]

Remembered ==
  /\ collector.previous = Ledger!NoSample <=> collector.previous.at = Ledger!Never
  /\ collector.previous = Ledger!NoSample <=> collector.persistedAt = Ledger!Never
  /\ peak = collector.previous
  /\ collector.previous # Ledger!NoSample =>
       /\ checkpoint.process = collector.process /\ collector.process \in Processes
       /\ collector.persistedAt = checkpoint.at /\ checkpoint.at <= collector.previous.at
       /\ checkpoint.count <= collector.previous.count
       /\ checkpoint.at = collector.previous.at => checkpoint.count = collector.previous.count
       /\ counting = collector.process \/ sampling # Ledger!Idle =>
            collector.previous.count <= counted[collector.process]
                \/ collector.previous.count <= checkpoint.count

LedgerTypes == Ledger!TypeOK /\ Ledger!Books \in BookTypes

LedgerInv == LedgerTypes /\ Kept(Ledger!Books) /\ Asked /\ Remembered /\ \E t : Attributed(t)

LEMMA LedgerStarts == ASSUME Ledger!Init PROVE LedgerInv
<1> USE RecordAssumption DEF Ledger!Init
<1>1. /\ Ledger!NoCheckpoint \in Checkpoints
      /\ [m \in 0 .. Ledger!monthStart(MaxTrafficTime) |-> 0] \in Months
  BY DEF Ledger!NoCheckpoint, Checkpoints, Months, Ledger!Never
<1>2. Ledger!Books \in BookTypes
  BY <1>1 DEF Ledger!Books, BookTypes
<1>3. Ledger!Books.samples = {} /\ Ledger!Books.months = months /\ months \in Months
  BY <1>1 DEF Ledger!Books
<1>4. Total(months, DOMAIN months) = 0 /\ \A S, f : S = {} => Total(f, S) = 0
  <2>1. IsFiniteSet(DOMAIN months) /\ \A m \in DOMAIN months : months[m] = 0
    BY LedgerFinite
  <2>2. ASSUME NEW h PROVE Total(h, {}) = 0
    BY FS_EmptySet, TotalTakes
  <2> QED
    BY <2>1, <2>2, TotalOfZeros
<1>5. Kept(Ledger!Books)
  BY <1>3, <1>4, FS_EmptySet DEF Kept
<1>6. Ledger!TypeOK
  BY DEF Ledger!TypeOK, Ledger!Idle, Ledger!NoCollector, Ledger!NoCheckpoint, Ledger!NoSample,
     Ledger!Samples, Ledger!Rows, Ledger!Never
<1>7. Asked /\ Remembered
  BY DEF Asked, Remembered, Ledger!Idle, Ledger!NoCollector, Ledger!NoCheckpoint,
     Ledger!NoSample, Ledger!Never
<1>8. Attributed([p \in Processes |-> 0])
  <2>1. PICK t : t = [p \in Processes |-> 0] /\ \A p \in Processes : t[p] = 0
    OBVIOUS
  <2>2. Total(t, Processes) \in Nat
    BY <2>1, TotalTakes
  <2> QED
    BY <1>4, <2>1, <2>2 DEF Attributed, Ledger!Idle, Ledger!NoCheckpoint
<1> QED
  BY <1>2, <1>5, <1>6, <1>7, <1>8 DEF LedgerInv, LedgerTypes

\* The steps that leave the books and the memory of the collector alone.
LEMMA Quiet ==
  ASSUME LedgerInv, UNCHANGED <<counted, checkpoint, months, samples, collector, peak, sampling>>,
         counting' = counting \/ counting' = NoProcess
             \/ (counting' \in Processes /\ Ledger!Started(counting')),
         observed' \in Processes \cup {NoProcess}, trafficClock' \in 0 .. MaxTrafficTime
  PROVE  LedgerInv'
<1>1. PICK t : Attributed(t)
  BY DEF LedgerInv
<1>2. LedgerTypes' /\ Kept(Ledger!Books)'
  BY RecordAssumption DEF LedgerInv, LedgerTypes, Ledger!TypeOK, Ledger!Books
<1>3. Asked' /\ Remembered'
  BY RecordAssumption DEF LedgerInv, Asked, Remembered, Ledger!Started
<1>4. Attributed(t)'
  <2>1. counting' \in Processes /\ counting' # counting
          => t[counting'] = 0 /\ counting' # checkpoint.process
    BY <1>1, RecordAssumption DEF Attributed, Ledger!Started, LedgerInv, LedgerTypes,
       Ledger!TypeOK
  <2>2. counting' = counting \/ counting' = NoProcess
          \/ (counting' # checkpoint.process /\ t[counting'] = 0 /\ counting' \in Processes)
    BY <2>1
  <2>3. sampling.step = "answered" => sampling.sample.count \in Nat
    BY RecordAssumption DEF LedgerInv, LedgerTypes, Ledger!TypeOK, Ledger!Samples
  <2> QED
    BY <1>1, <2>2, <2>3, RecordAssumption DEF Attributed, LedgerInv, Asked
<1> QED
  BY <1>2, <1>3, <1>4 DEF LedgerInv

\* Transfer: what a process has counted only grows.
LEMMA TransferKeeps == ASSUME LedgerInv, Ledger!Transfer PROVE LedgerInv'
<1>1. PICK t : Attributed(t)
  BY DEF LedgerInv
<1>2. /\ UNCHANGED <<counting, observed, trafficClock, sampling, collector, checkpoint, months,
          samples, peak, setBacks>>
      /\ counting # NoProcess /\ counted[counting] < MaxCount
      /\ counted' = [counted EXCEPT ![counting] = @ + 1]
  BY DEF Ledger!Transfer
<1>3. /\ counting \in Processes /\ counted \in [Processes -> 0 .. MaxCount]
      /\ counted[counting] \in 0 .. MaxCount
  BY <1>2 DEF LedgerInv, LedgerTypes, Ledger!TypeOK
<1>4. counted[counting] + 1 \in 0 .. MaxCount
  BY <1>2, <1>3, RecordAssumption
<1>5. /\ counted' \in [Processes -> 0 .. MaxCount]
      /\ \A p \in Processes : counted'[p] \in Nat /\ counted[p] \in Nat /\ counted[p] <= counted'[p]
  BY <1>2, <1>3, <1>4, RecordAssumption
<1>6. LedgerTypes' /\ Kept(Ledger!Books)'
  BY <1>2, <1>5, RecordAssumption DEF LedgerInv, LedgerTypes, Ledger!TypeOK, Ledger!Books
<1>7. sampling.sample.count \in Nat /\ collector.previous.count \in Nat
  BY RecordAssumption DEF LedgerInv, LedgerTypes, Ledger!TypeOK, Ledger!Samples
<1>8. Asked'
  BY <1>2, <1>3, <1>5, <1>7 DEF LedgerInv, Asked
<1>9. Remembered'
  <2>1. collector.previous # Ledger!NoSample => collector.process \in Processes
    BY DEF LedgerInv, Remembered
  <2>2. collector.previous # Ledger!NoSample /\ (counting = collector.process
          \/ sampling # Ledger!Idle) =>
            collector.previous.count <= counted'[collector.process]
                \/ collector.previous.count <= checkpoint.count
    BY <1>5, <1>7, <2>1 DEF LedgerInv, Remembered
  <2> QED
    BY <1>2, <2>2 DEF LedgerInv, Remembered
<1>10. Attributed(t)'
  <2>1. \A p \in Processes : t[p] \in Nat /\ t[p] <= counted'[p]
    BY <1>1, <1>5 DEF Attributed
  <2>2. sampling.step = "answered" /\ checkpoint.process = sampling.process
          /\ sampling.sample.count > counted'[sampling.process]
         => \E a \in Processes \ {sampling.process} :
             sampling.sample.count <= counted'[a] /\ t[a] = 0
    <3>1. SUFFICES ASSUME sampling.step = "answered", checkpoint.process = sampling.process,
                          sampling.sample.count > counted'[sampling.process]
                   PROVE  \E a \in Processes \ {sampling.process} :
                          sampling.sample.count <= counted'[a] /\ t[a] = 0
      OBVIOUS
    <3>2. sampling.process \in Processes
      BY <3>1 DEF LedgerInv, Asked, Ledger!Idle
    <3>3. sampling.sample.count > counted[sampling.process]
      BY <1>5, <1>7, <3>1, <3>2
    <3>4. PICK a \in Processes \ {sampling.process} :
               sampling.sample.count <= counted[a] /\ t[a] = 0
      BY <1>1, <3>1, <3>3 DEF Attributed
    <3> QED
      BY <1>5, <1>7, <3>4
  <2>3. UNCHANGED <<counting, sampling, checkpoint, months>>
    BY <1>2
  <2> QED
    BY <1>1, <2>1, <2>2, <2>3 DEF Attributed
<1> QED
  BY <1>6, <1>8, <1>9, <1>10 DEF LedgerInv

\* Ask begins a collection for the process that is observed and runs.
LEMMA AskKeeps == ASSUME LedgerInv, Ledger!Ask PROVE LedgerInv'
<1>1. PICK t : Attributed(t)
  BY DEF LedgerInv
<1>2. /\ UNCHANGED <<counting, observed, counted, trafficClock, checkpoint, months, samples,
          setBacks>>
      /\ sampling = Ledger!Idle /\ observed # NoProcess /\ counting = observed
      /\ sampling' = [Ledger!Idle EXCEPT !.step = "asked", !.process = observed]
      /\ IF collector.process = observed THEN UNCHANGED <<collector, peak>>
         ELSE collector' = [Ledger!NoCollector EXCEPT !.process = observed]
             /\ peak' = Ledger!NoSample
  BY DEF Ledger!Ask
<1>3. /\ observed \in Processes
      /\ sampling' = [step |-> "asked", process |-> observed, sample |-> Ledger!NoSample]
      /\ sampling'.step = "asked" /\ sampling'.process = observed /\ sampling' # Ledger!Idle
  BY <1>2 DEF LedgerInv, LedgerTypes, Ledger!TypeOK, Ledger!Idle
<1>4. Ledger!NoSample \in Ledger!Samples /\ Ledger!NoSample.at = Ledger!Never
  BY RecordAssumption DEF Ledger!NoSample, Ledger!Samples, Ledger!Never
<1>5. LedgerTypes'
  <2>1. sampling' \in [step : {"idle", "asked", "answered"}, process : Processes \cup {NoProcess},
          sample : Ledger!Samples]
    BY <1>3, <1>4
  <2>2. /\ collector' \in [process : Processes \cup {NoProcess}, previous : Ledger!Samples,
            persistedAt : Ledger!Never .. MaxTrafficTime]
        /\ peak' \in Ledger!Samples
    BY <1>2, <1>3, <1>4, RecordAssumption DEF LedgerInv, LedgerTypes, Ledger!TypeOK,
       Ledger!NoCollector, Ledger!Never
  <2> QED
    BY <1>2, <2>1, <2>2 DEF LedgerInv, LedgerTypes, Ledger!TypeOK, Ledger!Books
<1>6. Kept(Ledger!Books)'
  BY <1>2 DEF LedgerInv, Ledger!Books
<1>7. Asked'
  BY <1>2, <1>3 DEF Asked, Ledger!NoCollector, LedgerInv, LedgerTypes, Ledger!TypeOK,
     Ledger!Idle
<1>8. Remembered'
  <2>1. CASE collector.process = observed
    BY <1>2, <1>3, <2>1 DEF LedgerInv, Remembered
  <2>2. CASE collector.process # observed
    <3>1. /\ collector'.previous = Ledger!NoSample /\ collector'.persistedAt = Ledger!Never
          /\ peak' = Ledger!NoSample
      BY <1>2, <2>2 DEF Ledger!NoCollector
    <3> QED
      BY <1>4, <3>1 DEF Remembered
  <2> QED
    BY <2>1, <2>2
<1>9. Attributed(t)'
  BY <1>1, <1>2, <1>3 DEF Attributed
<1> QED
  BY <1>5, <1>6, <1>7, <1>8, <1>9 DEF LedgerInv

\* Answer takes the counter of the process that holds the endpoint.
LEMMA AnswerKeeps == ASSUME LedgerInv, Ledger!Answer PROVE LedgerInv'
<1>1. PICK t : Attributed(t)
  BY DEF LedgerInv
<1>2. /\ UNCHANGED <<counting, observed, counted, trafficClock, collector, checkpoint, months,
          samples, peak, setBacks>>
      /\ sampling.step = "asked" /\ counting # NoProcess
      /\ sampling' = [sampling EXCEPT !.step = "answered",
          !.sample = [count |-> counted[counting], at |-> trafficClock]]
  BY DEF Ledger!Answer
<1>3. /\ counting \in Processes /\ counted[counting] \in 0 .. MaxCount
      /\ trafficClock \in 0 .. MaxTrafficTime
      /\ sampling \in [step : {"idle", "asked", "answered"}, process : Processes \cup {NoProcess},
          sample : Ledger!Samples]
  BY <1>2 DEF LedgerInv, LedgerTypes, Ledger!TypeOK
<1>4. PICK n, m : n = counted[counting] /\ m = trafficClock /\ n \in 0 .. MaxCount
           /\ m \in 0 .. MaxTrafficTime
  BY <1>3
<1>5. /\ sampling' = [step |-> "answered", process |-> sampling.process,
          sample |-> [count |-> n, at |-> m]]
      /\ sampling'.step = "answered" /\ sampling'.process = sampling.process
      /\ sampling'.sample.count = n /\ sampling'.sample.at = m /\ sampling' # Ledger!Idle
      /\ sampling # Ledger!Idle
  <2>1. sampling' = [sampling EXCEPT !.step = "answered", !.sample = [count |-> n, at |-> m]]
    BY <1>2, <1>4
  <2>2. sampling' = [step |-> "answered", process |-> sampling.process,
          sample |-> [count |-> n, at |-> m]]
    BY <1>3, <2>1
  <2>3. Ledger!Idle.step = "idle" /\ "answered" # "idle" /\ "asked" # "idle"
    BY DEF Ledger!Idle
  <2>4. sampling'.step = "answered"
    BY <2>2
  <2>5. sampling'.process = sampling.process /\ sampling'.sample.count = n
          /\ sampling'.sample.at = m
    BY <2>2
  <2>6. sampling' # Ledger!Idle /\ sampling # Ledger!Idle
    BY <1>2, <2>3, <2>4
  <2> QED
    BY <2>2, <2>4, <2>5, <2>6
<1>6. [count |-> n, at |-> m] \in Ledger!Samples /\ m # Ledger!Never
  BY <1>4, RecordAssumption DEF Ledger!Samples, Ledger!Never
<1>7. LedgerTypes'
  <2>1. sampling' \in [step : {"idle", "asked", "answered"}, process : Processes \cup {NoProcess},
          sample : Ledger!Samples]
    BY <1>3, <1>5, <1>6
  <2> QED
    BY <1>2, <2>1 DEF LedgerInv, LedgerTypes, Ledger!TypeOK, Ledger!Books
<1>8. Kept(Ledger!Books)'
  BY <1>2 DEF LedgerInv, Ledger!Books
<1>9. Asked'
  <2>1. counted[counting] <= counted[counting]
    BY <1>3, RecordAssumption
  <2>2. sampling.process = collector.process /\ sampling.process \in Processes
    BY <1>5 DEF LedgerInv, Asked
  <2>3. /\ ~(sampling'.step = "idle") /\ sampling' # Ledger!Idle
        /\ sampling'.process = collector'.process /\ sampling'.process \in Processes
    BY <1>2, <1>5, <2>2
  <2>4. sampling'.sample.at # Ledger!Never
    BY <1>5, <1>6
  <2>5. counting' = sampling'.process /\ checkpoint'.process = counting'
          => sampling'.sample.count <= counted'[counting']
    BY <1>2, <1>4, <1>5, <2>1
  <2> QED
    BY <2>3, <2>4, <2>5 DEF Asked
<1>10. Remembered'
  BY <1>2, <1>5 DEF LedgerInv, Remembered
<1>11. Attributed(t)'
  <2>1. counting # sampling.process => t[counting] = 0
    BY <1>1, <1>2, <1>5 DEF Attributed
  <2>2. t[counting] <= n
    BY <1>1, <1>3, <1>4 DEF Attributed
  <2>3. checkpoint.process = sampling.process /\ n > counted[sampling.process]
         => \E a \in Processes \ {sampling.process} : n <= counted[a] /\ t[a] = 0
    <3>1. CASE counting = sampling.process
      BY <1>3, <1>4, <3>1, RecordAssumption
    <3>2. CASE counting # sampling.process
      BY <1>3, <1>4, <2>1, <3>2, RecordAssumption
    <3> QED
      BY <3>1, <3>2
  <2>4. UNCHANGED <<counting, counted, checkpoint, months>>
    BY <1>2
  <2> QED
    BY <1>1, <1>5, <2>1, <2>2, <2>3, <2>4 DEF Attributed
<1> QED
  BY <1>7, <1>8, <1>9, <1>10, <1>11 DEF LedgerInv

\* A collection is given up, or the panel starts anew.
LEMMA GiveUpKeeps == ASSUME LedgerInv, Ledger!GiveUp \/ Ledger!RestartPanel PROVE LedgerInv'
<1>1. PICK t : Attributed(t)
  BY DEF LedgerInv
<1>2. /\ UNCHANGED <<counting, observed, counted, trafficClock, checkpoint, months, samples,
          setBacks>>
      /\ sampling' = Ledger!Idle
      /\ UNCHANGED <<collector, peak>> \/ (collector' = Ledger!NoCollector
          /\ peak' = Ledger!NoSample)
  BY DEF Ledger!GiveUp, Ledger!RestartPanel
<1>3. /\ Ledger!Idle.step = "idle" /\ Ledger!NoSample \in Ledger!Samples
      /\ Ledger!NoSample.at = Ledger!Never
      /\ Ledger!Idle \in [step : {"idle", "asked", "answered"},
          process : Processes \cup {NoProcess}, sample : Ledger!Samples]
      /\ Ledger!NoCollector \in [process : Processes \cup {NoProcess}, previous : Ledger!Samples,
          persistedAt : Ledger!Never .. MaxTrafficTime]
      /\ Ledger!NoCollector.previous = Ledger!NoSample
      /\ Ledger!NoCollector.persistedAt = Ledger!Never
  BY RecordAssumption DEF Ledger!Idle, Ledger!NoSample, Ledger!NoCollector, Ledger!Samples,
     Ledger!Never
<1>4. LedgerTypes' /\ Kept(Ledger!Books)'
  BY <1>2, <1>3 DEF LedgerInv, LedgerTypes, Ledger!TypeOK, Ledger!Books
<1>5. Asked' /\ Attributed(t)'
  BY <1>1, <1>2, <1>3 DEF Asked, Attributed
<1>6. Remembered'
  BY <1>2, <1>3 DEF LedgerInv, Remembered
<1> QED
  BY <1>4, <1>5, <1>6 DEF LedgerInv

\* Deleted samples leave less to be shown, and nothing booked changes.
LEMMA DeleteKeeps == ASSUME LedgerInv, Ledger!DeleteSamples PROVE LedgerInv'
<1>1. PICK t : Attributed(t)
  BY DEF LedgerInv
<1>2. /\ UNCHANGED <<counting, observed, counted, trafficClock, sampling, collector, checkpoint,
          months, peak, setBacks>>
      /\ samples' \subseteq samples
  BY DEF Ledger!DeleteSamples
<1>3. LedgerTypes'
  BY <1>2 DEF LedgerInv, LedgerTypes, Ledger!TypeOK, Ledger!Books, BookTypes
<1>4. Asked' /\ Remembered' /\ Attributed(t)'
  BY <1>1, <1>2 DEF LedgerInv, Asked, Remembered, Attributed
<1>5. Kept(Ledger!Books)'
  <2>1. PICK S, R, m, c : S = samples /\ R = samples' /\ m = Total(months, DOMAIN months)
             /\ c = checkpoint.at
    OBVIOUS
  <2>2. /\ Ledger!Books.samples = S /\ Ledger!Books'.samples = R
        /\ Ledger!Books'.months = Ledger!Books.months
        /\ Ledger!Books'.checkpoint = Ledger!Books.checkpoint
        /\ Ledger!Books.months = months /\ Ledger!Books.checkpoint = checkpoint
    BY <1>2, <2>1 DEF Ledger!Books
  <2>3. R \subseteq S /\ IsFiniteSet(S) /\ IsFiniteSet(R)
    BY <1>2, <2>1, <2>2, FS_Subset DEF LedgerInv, Kept
  <2>4. PICK f, g : f = [r \in S |-> r.delta] /\ g = [r \in R |-> r.delta]
    OBVIOUS
  <2>5. \A r \in S : f[r] \in Nat
    BY <2>1, <2>4 DEF LedgerInv, LedgerTypes, Ledger!TypeOK, Ledger!Rows
  <2>6. \A r \in R : g[r] \in Nat /\ g[r] = f[r]
    BY <2>3, <2>4, <2>5
  <2>7. Total(f, R) <= Total(f, S) /\ Total(f, R) \in Nat /\ Total(f, S) \in Nat
    BY <2>3, <2>5, TotalOfPart
  <2>8. Total(g, R) = Total(f, R)
    BY <2>3, <2>6, TotalAgrees
  <2>9. Total(f, S) <= m
    BY <2>1, <2>2, <2>4 DEF LedgerInv, Kept
  <2>10. m \in Nat
    <3>1. months \in Months
      BY DEF LedgerInv, LedgerTypes, BookTypes, Ledger!Books
    <3>2. IsFiniteSet(DOMAIN months) /\ \A x \in DOMAIN months : months[x] \in Nat
      BY <3>1, LedgerFinite DEF Months
    <3> QED
      BY <2>1, <3>2, TotalTakes
  <2>11. Total(g, R) <= m
    BY <2>7, <2>8, <2>9, <2>10
  <2>12. Total([r \in Ledger!Books'.samples |-> r.delta],
           Ledger!Books'.samples) <= Total(Ledger!Books'.months, DOMAIN Ledger!Books'.months)
    BY <2>1, <2>2, <2>4, <2>11
  <2> QED
    BY <2>2, <2>3, <2>12 DEF LedgerInv, Kept
<1> QED
  BY <1>3, <1>4, <1>5 DEF LedgerInv

-----------------------------------------------------------------------------
(* A sample is used *)

\* u attributes what the books hold, to no process more than it has counted.
Covers(u, books) ==
  /\ u \in [Processes -> Nat] /\ \A q \in Processes : u[q] <= counted[q]
  /\ Total(books.months, DOMAIN books.months) <= Total(u, Processes)

\* What is booked in addition is attributed to one process.
LEMMA AttributeMore ==
  ASSUME RecordAssumption, NEW u \in [Processes -> Nat], NEW a \in Processes, NEW d \in Nat,
         NEW v, v = [u EXCEPT ![a] = @ + d]
  PROVE  /\ v \in [Processes -> Nat] /\ Total(v, Processes) = Total(u, Processes) + d
         /\ Total(u, Processes) \in Nat
<1>1. IsFiniteSet(Processes)
  BY DEF RecordAssumption
<1>2. /\ Added(u, a, d) \in [Processes -> Nat] /\ Total(u, Processes) \in Nat
      /\ Total(Added(u, a, d), Processes) = Total(u, Processes) + d
  BY <1>1, TotalAdds
<1> QED
  BY <1>2 DEF Added

\* A sample that is accepted for the process of the checkpoint is attributed to it, if it has
\* counted so much, or to another one that nothing was attributed to; the first sample of a
\* process adds nothing.
LEMMA AcceptedCovers ==
  ASSUME RecordAssumption, counted \in [Processes -> 0 .. MaxCount],
         NEW books \in BookTypes, NEW u, Covers(u, books),
         NEW p \in Processes, NEW sample \in Ledger!Samples, Ledger!Accepts(books, p, sample),
         books.checkpoint.process = p =>
           /\ u[p] <= books.checkpoint.count
           /\ \/ sample.count <= counted[p] \/ sample.count <= books.checkpoint.count
              \/ \E a \in Processes \ {p} : sample.count <= counted[a] /\ u[a] = 0,
         books.checkpoint.process # p /\ counting = p => u[p] <= sample.count
  PROVE  \E v : /\ Covers(v, Ledger!Record(books, p, sample))
                /\ books.checkpoint.process = p \/ counting = p => v[p] <= sample.count
                /\ \A q \in Processes : u[q] = 0 /\ q # p
                    => v[q] = 0 \/ ~(sample.count <= counted[p]
                        \/ sample.count <= books.checkpoint.count)
<1>1. PICK d : d = Ledger!Delta(books, p, sample)
  OBVIOUS
<1>2. PICK n : n = Ledger!Record(books, p, sample)
  OBVIOUS
<1>3. PICK c \in Nat, s \in Nat : c = books.checkpoint.count /\ s = sample.count
  BY RecordAssumption DEF BookTypes, Checkpoints, Ledger!Samples
<1>4. PICK b \in Nat : b = Total(books.months, DOMAIN books.months)
  <2>1. books.months \in Months
    BY DEF BookTypes
  <2>2. IsFiniteSet(DOMAIN books.months) /\ \A x \in DOMAIN books.months : books.months[x] \in Nat
    BY <2>1, LedgerFinite DEF Months
  <2>3. PICK f : f = books.months
    OBVIOUS
  <2>4. Total(f, DOMAIN f) \in Nat
    BY <2>2, <2>3, TotalTakes
  <2> QED
    BY <2>3, <2>4
<1>5. d \in Nat /\ Total(n.months, DOMAIN n.months) = b + d
  <2>1. /\ d \in 0 .. MaxCount
        /\ Total(Ledger!Record(books, p, sample).months,
            DOMAIN Ledger!Record(books, p, sample).months)
              = Total(books.months, DOMAIN books.months) + d
    <3>1. /\ books \in BookTypes /\ p \in Processes /\ sample \in Ledger!Samples
          /\ Ledger!Accepts(books, p, sample)
          /\ d = Ledger!Delta(books, p, sample)
      BY <1>1
    <3> QED
      BY ONLY <3>1, RecordAccepted
  <2> QED
    BY <1>2, <1>4, <2>1, RecordAssumption
<1>6. /\ u \in [Processes -> Nat] /\ (\A q \in Processes : u[q] <= counted[q])
      /\ b <= Total(u, Processes)
  BY <1>4 DEF Covers
<1>7. \A q \in Processes : counted[q] \in Nat /\ u[q] \in Nat
  BY <1>6, RecordAssumption
<1>8. Total(u, Processes) \in Nat
  BY <1>7, RecordAssumption, TotalTakes
<1>9. CASE books.checkpoint.process # p
  <2>1. d = 0
    BY <1>1, <1>9 DEF Ledger!Delta
  <2>2. Covers(u, n)
    BY <1>4, <1>5, <1>6, <2>1 DEF Covers
  <2> QED
    BY <1>2, <1>9, <2>2
<1>10. CASE books.checkpoint.process = p
  <2>1. c <= s /\ d = s - c /\ u[p] <= c
    BY <1>1, <1>3, <1>10 DEF Ledger!Delta, Ledger!Accepts
  <2>2. CASE s <= counted[p] \/ s <= c
    <3>1. PICK v : v = [u EXCEPT ![p] = @ + d]
      OBVIOUS
    <3>2. v \in [Processes -> Nat] /\ Total(v, Processes) = Total(u, Processes) + d
      <4>1. /\ u \in [Processes -> Nat] /\ d \in Nat /\ p \in Processes
            /\ v = [u EXCEPT ![p] = @ + d] /\ RecordAssumption
        BY <1>5, <1>6, <3>1, RecordAssumption
      <4> QED
        BY ONLY <4>1, AttributeMore, ZenonT(60)
    <3>3. v[p] = u[p] + d /\ \A q \in Processes : q # p => v[q] = u[q]
      BY <1>6, <3>1
    <3>4. v[p] <= s /\ v[p] <= counted[p]
      BY <1>6, <1>7, <2>1, <2>2, <3>3
    <3>5. Total(n.months, DOMAIN n.months) <= Total(v, Processes)
      BY <1>5, <1>6, <1>8, <3>2
    <3>6. Covers(v, n)
      BY <1>6, <3>2, <3>3, <3>4, <3>5 DEF Covers
    <3>7. \A q \in Processes : u[q] = 0 /\ q # p => v[q] = 0
      BY <3>3
    <3> QED
      BY <1>2, <1>3, <3>4, <3>6, <3>7
  <2>3. CASE ~(s <= counted[p] \/ s <= c)
    <3>1. PICK a \in Processes \ {p} : s <= counted[a] /\ u[a] = 0
      BY <1>3, <1>10, <2>3
    <3>2. PICK v : v = [u EXCEPT ![a] = @ + d]
      OBVIOUS
    <3>3. v \in [Processes -> Nat] /\ Total(v, Processes) = Total(u, Processes) + d
      BY <1>5, <1>6, <3>2, AttributeMore
    <3>4. v[a] = u[a] + d /\ v[p] = u[p] /\ \A q \in Processes : q # a => v[q] = u[q]
      BY <1>6, <3>2
    <3>5. v[p] <= s /\ v[a] <= counted[a]
      BY <1>7, <2>1, <3>1, <3>4
    <3>6. Total(n.months, DOMAIN n.months) <= Total(v, Processes)
      BY <1>5, <1>6, <1>8, <3>3
    <3>7. Covers(v, n)
      BY <1>6, <3>3, <3>4, <3>5, <3>6 DEF Covers
    <3> QED
      BY <1>2, <1>3, <2>3, <3>5, <3>7
  <2> QED
    BY <2>2, <2>3
<1> QED
  BY <1>9, <1>10

\* What Flush leaves: the sample in memory is the checkpoint if the answer is below it, and
\* what it adds was counted by the process asked.
LEMMA FlushKeeps ==
  ASSUME LedgerInv, sampling.step = "answered", NEW t, Attributed(t),
         NEW p, p = collector.process, NEW books, books = Ledger!Flush(sampling.sample)
  PROVE  /\ books \in BookTypes /\ Kept(books) /\ p \in Processes /\ p = sampling.process
         /\ IF Ledger!Regressed(sampling.sample) /\ collector.previous.at > collector.persistedAt
            THEN /\ books.checkpoint = [process |-> p, count |-> collector.previous.count,
                     at |-> collector.previous.at]
                 /\ books # Ledger!Books
            ELSE books = Ledger!Books
         /\ Ledger!Regressed(sampling.sample) =>
              /\ books.checkpoint.process = p /\ books.checkpoint.at = collector.previous.at
              /\ books.checkpoint.count = collector.previous.count /\ checkpoint.process = p
         /\ \E u : /\ Covers(u, books) /\ (books = Ledger!Books => u = t)
                   /\ \A q \in Processes : q # p /\ t[q] = 0 => u[q] = 0
                   /\ books.checkpoint.process = p => u[p] <= books.checkpoint.count
<1>1. sampling # Ledger!Idle /\ p \in Processes /\ p = sampling.process
  BY DEF LedgerInv, Asked, Ledger!Idle
<1>2. /\ Ledger!Books \in BookTypes /\ Kept(Ledger!Books) /\ Ledger!Books.checkpoint = checkpoint
      /\ Ledger!Books.months = months
  BY DEF LedgerInv, LedgerTypes, Ledger!Books
<1>3. counted \in [Processes -> 0 .. MaxCount] /\ collector.previous \in Ledger!Samples
  BY DEF LedgerInv, LedgerTypes, Ledger!TypeOK
<1>4. Covers(t, Ledger!Books) /\ (checkpoint.process = p => t[p] <= checkpoint.count)
  BY <1>1, <1>2 DEF Attributed, Covers
<1>5. CASE ~(Ledger!Regressed(sampling.sample) /\ collector.previous.at > collector.persistedAt)
  <2>1. books = Ledger!Books
    BY <1>5 DEF Ledger!Flush
  <2>2. Ledger!Regressed(sampling.sample) =>
              /\ checkpoint.process = p /\ checkpoint.at = collector.previous.at
              /\ checkpoint.count = collector.previous.count
    <3>1. SUFFICES ASSUME Ledger!Regressed(sampling.sample)
                   PROVE  /\ checkpoint.process = p /\ checkpoint.at = collector.previous.at
                          /\ checkpoint.count = collector.previous.count
      OBVIOUS
    <3>2. collector.previous # Ledger!NoSample
      BY <3>1 DEF Ledger!Regressed
    <3>3. /\ checkpoint.process = p /\ collector.persistedAt = checkpoint.at
          /\ checkpoint.at <= collector.previous.at
          /\ checkpoint.at = collector.previous.at => checkpoint.count = collector.previous.count
      BY <3>2 DEF LedgerInv, Remembered
    <3>4. checkpoint.at \in Int /\ collector.previous.at \in Int
      BY RecordAssumption DEF LedgerInv, LedgerTypes, Ledger!TypeOK, Ledger!Samples,
         Ledger!Never
    <3> QED
      BY <1>5, <3>1, <3>3, <3>4
  <2> QED
    BY <1>1, <1>2, <1>4, <1>5, <2>1, <2>2
<1>6. CASE Ledger!Regressed(sampling.sample) /\ collector.previous.at > collector.persistedAt
  <2>1. books = Ledger!Record(Ledger!Books, p, collector.previous)
    BY <1>6 DEF Ledger!Flush
  <2>2. collector.previous # Ledger!NoSample
    BY <1>6 DEF Ledger!Regressed
  <2>3. /\ checkpoint.process = p /\ collector.persistedAt = checkpoint.at
        /\ checkpoint.count <= collector.previous.count
        /\ collector.previous.count <= counted[p] \/ collector.previous.count <= checkpoint.count
    BY <1>1, <2>2 DEF LedgerInv, Remembered
  <2>4. Ledger!Accepts(Ledger!Books, p, collector.previous)
    BY <1>2, <1>6, <2>3 DEF Ledger!Accepts
  <2>5. /\ books \in BookTypes /\ Kept(books)
        /\ books.checkpoint = [process |-> p, count |-> collector.previous.count,
            at |-> collector.previous.at]
    BY <1>1, <1>2, <1>3, <2>1, <2>4, RecordAccepted
  <2>6. PICK v : /\ Covers(v, books) /\ v[p] <= collector.previous.count
                 /\ \A q \in Processes : t[q] = 0 /\ q # p => v[q] = 0
    <3>1. Ledger!Books.checkpoint.process = p /\ t[p] <= Ledger!Books.checkpoint.count
      BY <1>2, <1>4, <2>3
    <3>2. collector.previous.count <= counted[p]
            \/ collector.previous.count <= Ledger!Books.checkpoint.count
      BY <1>2, <2>3
    <3>3. \E v : /\ Covers(v, Ledger!Record(Ledger!Books, p, collector.previous))
                 /\ Ledger!Books.checkpoint.process = p \/ counting = p
                     => v[p] <= collector.previous.count
                 /\ \A q \in Processes : t[q] = 0 /\ q # p => v[q] = 0
                      \/ ~(collector.previous.count <= counted[p]
                          \/ collector.previous.count <= Ledger!Books.checkpoint.count)
      BY <1>1, <1>2, <1>3, <1>4, <2>4, <3>1, <3>2, AcceptedCovers, RecordAssumption
    <3> QED
      BY <2>1, <3>1, <3>2, <3>3
  <2>7. books # Ledger!Books
    <3>1. books.checkpoint.at = collector.previous.at
      BY <2>5
    <3>2. collector.previous.at \in Int /\ checkpoint.at \in Int
      BY RecordAssumption DEF LedgerInv, LedgerTypes, Ledger!TypeOK, Ledger!Samples,
         Ledger!Never
    <3> QED
      BY <1>2, <1>6, <2>3, <3>1, <3>2
  <2> QED
    BY <1>1, <1>6, <2>3, <2>5, <2>6, <2>7
<1> QED
  BY <1>5, <1>6

\* Use: the answer is recorded after what is in memory, or only remembered.
LEMMA UseKeeps == ASSUME LedgerInv, Ledger!Use PROVE LedgerInv'
<1> DEFINE s == sampling.sample
           p == collector.process
           flushed == Ledger!Flush(s)
           persist == Ledger!Regressed(s) \/ collector.persistedAt = Ledger!Never
               \/ s.at - collector.persistedAt >= PersistAfter
           accepted == IF persist THEN Ledger!Accepts(flushed, p, s) ELSE TRUE
           books == IF persist THEN Ledger!Record(flushed, p, s) ELSE flushed
<1>1. /\ sampling.step = "answered" /\ observed = sampling.process
      /\ checkpoint' = books.checkpoint /\ months' = books.months /\ samples' = books.samples
      /\ collector' =
           [collector EXCEPT
              !.persistedAt = IF persist /\ accepted THEN s.at
                              ELSE IF flushed # Ledger!Books THEN collector.previous.at ELSE @,
              !.previous = IF accepted THEN s ELSE @]
      /\ peak' = IF accepted /\ (peak = Ledger!NoSample \/ s.count >= peak.count) THEN s ELSE peak
      /\ sampling' = Ledger!Idle /\ UNCHANGED <<counting, observed, counted, trafficClock,
          setBacks>>
  BY DEF Ledger!Use
<1>2. PICK t : Attributed(t)
  BY DEF LedgerInv
<1>3. PICK b, n, P, A : b = flushed /\ n = books /\ (P <=> persist) /\ (A <=> accepted)
           /\ P \in BOOLEAN /\ A \in BOOLEAN
  <2>1. \A x : \E y \in BOOLEAN : y <=> x
    OBVIOUS
  <2> QED
    BY <2>1
<1>4. /\ s \in Ledger!Samples /\ collector.previous \in Ledger!Samples /\ peak \in Ledger!Samples
      /\ counted \in [Processes -> 0 .. MaxCount]
      /\ collector \in [process : Processes \cup {NoProcess}, previous : Ledger!Samples,
          persistedAt : Ledger!Never .. MaxTrafficTime]
      /\ collector.persistedAt \in Ledger!Never .. MaxTrafficTime
      /\ Ledger!Books \in BookTypes /\ Kept(Ledger!Books) /\ Ledger!Books.checkpoint = checkpoint
  BY <1>1 DEF LedgerInv, LedgerTypes, Ledger!TypeOK, Ledger!Books
<1>5. PICK u : /\ b \in BookTypes /\ Kept(b) /\ p \in Processes /\ p = sampling.process
               /\ IF Ledger!Regressed(s) /\ collector.previous.at > collector.persistedAt
                  THEN /\ b.checkpoint = [process |-> p, count |-> collector.previous.count,
                           at |-> collector.previous.at]
                       /\ b # Ledger!Books
                  ELSE b = Ledger!Books
               /\ Ledger!Regressed(s) =>
                    /\ b.checkpoint.process = p /\ b.checkpoint.at = collector.previous.at
                    /\ b.checkpoint.count = collector.previous.count /\ checkpoint.process = p
               /\ Covers(u, b) /\ (b = Ledger!Books => u = t)
               /\ \A q \in Processes : q # p /\ t[q] = 0 => u[q] = 0
               /\ b.checkpoint.process = p => u[p] <= b.checkpoint.count
  BY <1>1, <1>2, <1>3, FlushKeeps
<1>6. /\ s.at # Ledger!Never /\ s.at \in 0 .. MaxTrafficTime /\ s.count \in 0 .. MaxCount
      /\ s # Ledger!NoSample
  BY <1>1, <1>4, RecordAssumption DEF LedgerInv, Asked, Ledger!Samples, Ledger!Never,
     Ledger!NoSample
<1> HIDE DEF s, p, flushed, persist, accepted, books
<1>7. /\ checkpoint' = n.checkpoint /\ months' = n.months /\ samples' = n.samples
      /\ sampling' = Ledger!Idle
      /\ UNCHANGED <<counting, observed, counted, trafficClock, setBacks>>
      /\ n = IF P THEN Ledger!Record(b, p, s) ELSE b
      /\ A <=> (P => Ledger!Accepts(b, p, s))
      /\ P <=> Ledger!Regressed(s) \/ collector.persistedAt = Ledger!Never
          \/ s.at - collector.persistedAt >= PersistAfter
      /\ collector'.process = p /\ collector'.previous = IF A THEN s ELSE collector.previous
      /\ collector'.persistedAt = IF P /\ A THEN s.at ELSE IF b # Ledger!Books
          THEN collector.previous.at ELSE collector.persistedAt
      /\ peak' = IF A /\ (peak = Ledger!NoSample \/ s.count >= peak.count) THEN s ELSE peak
  <2>1. /\ n = IF P THEN Ledger!Record(b, p, s) ELSE b
        /\ A <=> (P => Ledger!Accepts(b, p, s))
        /\ P <=> Ledger!Regressed(s) \/ collector.persistedAt = Ledger!Never
            \/ s.at - collector.persistedAt >= PersistAfter
    BY <1>3 DEF accepted, books, persist, flushed
  <2>2. /\ collector'.process = p /\ collector'.previous = IF accepted THEN s
            ELSE collector.previous
        /\ collector'.persistedAt = IF persist /\ accepted THEN s.at
                                    ELSE IF flushed # Ledger!Books THEN collector.previous.at
                                        ELSE collector.persistedAt
    BY <1>1, <1>4 DEF p
  <2> QED
    BY <1>1, <1>3, <2>1, <2>2
<1>8. IF A /\ P
      THEN n = Ledger!Record(b, p, s) /\ Ledger!Accepts(b, p, s)
          /\ n.checkpoint = [process |-> p, count |-> s.count, at |-> s.at]
      ELSE n = b
  <2>1. A /\ P => n.checkpoint = [process |-> p, count |-> s.count, at |-> s.at]
    BY <1>4, <1>5, <1>7, RecordAccepted
  <2>2. ~Ledger!Accepts(b, p, s) => Ledger!Record(b, p, s) = b
    BY DEF Ledger!Record
  <2> QED
    BY <1>7, <2>1, <2>2
<1>9. n \in BookTypes /\ Kept(n)
  BY <1>4, <1>5, <1>8, RecordAccepted
<1>10. LedgerTypes' /\ Kept(Ledger!Books)'
  <2>1. n.checkpoint \in Checkpoints /\ n.months \in Months /\ n.samples \in SUBSET Ledger!Rows
        /\ n = [checkpoint |-> n.checkpoint, months |-> n.months, samples |-> n.samples]
    BY <1>9 DEF BookTypes
  <2>2. Ledger!Books' = n
    BY <1>7, <2>1 DEF Ledger!Books
  <2>3. collector' \in [process : Processes \cup {NoProcess}, previous : Ledger!Samples,
          persistedAt : Ledger!Never .. MaxTrafficTime]
    <3>1. /\ (IF A THEN s ELSE collector.previous) \in Ledger!Samples
          /\ (IF P /\ A THEN s.at ELSE IF b # Ledger!Books THEN collector.previous.at
              ELSE collector.persistedAt) \in Ledger!Never .. MaxTrafficTime
      BY <1>4, <1>6, RecordAssumption DEF Ledger!Samples, Ledger!Never
    <3>2. collector' = [collector EXCEPT !.persistedAt = collector'.persistedAt,
            !.previous = collector'.previous]
      BY <1>1, <1>4
    <3>3. /\ collector'.previous \in Ledger!Samples
          /\ collector'.persistedAt \in Ledger!Never .. MaxTrafficTime
      BY <1>7, <3>1
    <3> QED
      BY <1>4, <3>2, <3>3
  <2>4. peak' \in Ledger!Samples
    BY <1>4, <1>7
  <2>5. Ledger!Idle \in [step : {"idle", "asked", "answered"},
          process : Processes \cup {NoProcess}, sample : Ledger!Samples]
    BY RecordAssumption DEF Ledger!Idle, Ledger!NoSample, Ledger!Samples, Ledger!Never
  <2>6. \A m \in DOMAIN months' : months'[m] >= 0
    <3>1. PICK m \in Months : m = months'
      BY <1>7, <2>1
    <3>2. \A x \in DOMAIN m : m[x] >= 0
      BY <3>1 DEF Months
    <3> QED
      BY <3>1, <3>2
  <2>7. Ledger!TypeOK'
    BY <1>7, <2>1, <2>3, <2>4, <2>5, <2>6 DEF LedgerInv, LedgerTypes, Ledger!TypeOK, Checkpoints
  <2> QED
    BY <1>9, <2>2, <2>7 DEF LedgerTypes
<1>11. Asked'
  BY <1>7 DEF Asked, Ledger!Idle
<1>12. A => ~Ledger!Regressed(s)
  <2>1. SUFFICES ASSUME A, Ledger!Regressed(s) PROVE FALSE
    OBVIOUS
  <2>2. Ledger!Accepts(b, p, s) /\ b.checkpoint.process = p
    BY <1>5, <1>7, <2>1
  <2>3. s.at > collector.previous.at /\ s.count >= collector.previous.count
    BY <1>5, <2>1, <2>2 DEF Ledger!Accepts
  <2>4. s.at <= collector.previous.at \/ s.count < collector.previous.count
    BY <2>1 DEF Ledger!Regressed
  <2>5. /\ s.at \in Int /\ s.count \in Int /\ collector.previous.at \in Int
        /\ collector.previous.count \in Int
    BY <1>4, <1>6, RecordAssumption DEF Ledger!Samples, Ledger!Never
  <2> QED
    BY <2>3, <2>4, <2>5
<1>13. A /\ collector.previous # Ledger!NoSample
         => s.at > collector.previous.at /\ s.count >= collector.previous.count
  <2>1. /\ s.at \in Int /\ s.count \in Int /\ collector.previous.at \in Int
        /\ collector.previous.count \in Int
    BY <1>4, <1>6, RecordAssumption DEF Ledger!Samples, Ledger!Never
  <2> QED
    BY <1>12, <2>1 DEF Ledger!Regressed
<1>14. peak' = collector'.previous /\ peak = collector.previous
  BY <1>7, <1>13 DEF LedgerInv, Remembered
<1>15. Remembered'
  <2>0. /\ Ledger!NoSample.at = Ledger!Never /\ checkpoint.at \in Int /\ checkpoint.count \in Nat
        /\ s.count \in Nat
        /\ (\A q \in Processes : counted[q] \in Nat)
    BY <1>4, <1>6, RecordAssumption DEF Ledger!NoSample, LedgerInv, LedgerTypes, Ledger!TypeOK,
       Ledger!Never
  <2>1. CASE ~A /\ b = Ledger!Books
    <3>1. P /\ n = b /\ checkpoint' = checkpoint
      BY <1>4, <1>7, <1>8, <2>1
    <3>2. /\ collector'.previous = collector.previous
          /\ collector'.persistedAt = collector.persistedAt
          /\ collector'.process = collector.process
      BY <1>7, <2>1, <3>1 DEF p
    <3> QED
      BY <1>7, <1>14, <3>1, <3>2 DEF LedgerInv, Remembered
  <2>2. CASE ~A /\ b # Ledger!Books
    <3>1. P /\ n = b /\ Ledger!Regressed(s)
      BY <1>5, <1>7, <1>8, <2>2
    <3>2. checkpoint' = [process |-> p, count |-> collector.previous.count,
            at |-> collector.previous.at]
      BY <1>5, <1>7, <2>2, <3>1
    <3>3. /\ collector'.previous = collector.previous
          /\ collector'.persistedAt = collector.previous.at /\ collector'.process = p
      BY <1>7, <2>2
    <3>4. collector.previous # Ledger!NoSample /\ collector.previous.at # Ledger!Never
      BY <3>1 DEF Ledger!Regressed, LedgerInv, Remembered
    <3>5. collector.previous.at \in Int /\ collector.previous.count \in Int
      BY <1>4, RecordAssumption DEF Ledger!Samples, Ledger!Never
    <3> QED
      BY <1>5, <1>14, <3>2, <3>3, <3>4, <3>5 DEF Remembered
  <2>3. CASE A /\ P
    <3>1. checkpoint' = [process |-> p, count |-> s.count, at |-> s.at]
      BY <1>7, <1>8, <2>3
    <3>2. collector'.previous = s /\ collector'.persistedAt = s.at /\ collector'.process = p
      BY <1>7, <2>3
    <3>3. s.at \in Int /\ s.at # Ledger!Never /\ s # Ledger!NoSample
      BY <1>6
    <3> QED
      BY <1>5, <1>14, <2>0, <3>1, <3>2, <3>3 DEF Remembered
  <2>4. CASE A /\ ~P
    <3>1. b = Ledger!Books /\ n = b /\ checkpoint' = checkpoint
      BY <1>4, <1>5, <1>7, <1>8, <1>12, <2>4
    <3>2. /\ collector'.previous = s /\ collector'.persistedAt = collector.persistedAt
          /\ collector'.process = p
      BY <1>7, <2>4, <3>1
    <3>3. collector.persistedAt # Ledger!Never /\ collector.previous # Ledger!NoSample
      BY <1>7, <2>4 DEF LedgerInv, Remembered
    <3>4. /\ checkpoint.process = p /\ collector.persistedAt = checkpoint.at
          /\ checkpoint.at <= collector.previous.at
          /\ checkpoint.count <= collector.previous.count
      BY <3>3 DEF LedgerInv, Remembered, p
    <3>5. collector.previous.at \in Int /\ collector.previous.count \in Nat /\ s.at \in Int
      BY <1>4, <1>6, RecordAssumption DEF Ledger!Samples, Ledger!Never
    <3>6. checkpoint.at < s.at /\ checkpoint.count <= s.count
      BY <1>13, <2>0, <2>4, <3>3, <3>4, <3>5
    <3>7. counting = p => s.count <= counted[p]
      BY <1>1, <1>5, <3>4 DEF LedgerInv, Asked, s
    <3>8. UNCHANGED <<counting, counted>> /\ sampling' = Ledger!Idle
      BY <1>7
    <3> QED
      BY <1>5, <1>6, <1>14, <2>0, <3>1, <3>2, <3>3, <3>4, <3>5, <3>6, <3>7, <3>8 DEF Remembered
  <2> QED
    BY <1>3, <2>1, <2>2, <2>3, <2>4
<1>16. b.checkpoint.process = p => checkpoint.process = p
  BY <1>4, <1>5
<1>17. \E v : Covers(v, n) /\ (counting = n.checkpoint.process /\ counting \in Processes
         => v[counting] <= n.checkpoint.count)
  <2>1. CASE ~(A /\ P)
    <3>1. n = b /\ Covers(u, n)
      BY <1>5, <1>8, <2>1
    <3>2. CASE n.checkpoint.process = p
      BY <1>5, <3>1, <3>2
    <3>3. CASE n.checkpoint.process # p
      <4>1. b = Ledger!Books /\ u = t
        BY <1>5, <3>1, <3>3
      <4>2. n.checkpoint = checkpoint
        BY <1>4, <3>1, <4>1
      <4>3. counting = checkpoint.process /\ counting \in Processes
              => t[counting] <= checkpoint.count
        BY <1>2 DEF Attributed
      <4> QED
        BY <3>1, <4>1, <4>2, <4>3
    <3> QED
      BY <3>2, <3>3
  <2>2. CASE A /\ P
    <3>1. /\ n = Ledger!Record(b, p, s) /\ Ledger!Accepts(b, p, s) /\ n.checkpoint.process = p
          /\ n.checkpoint.count = s.count
      BY <1>8, <2>2
    <3>2. ASSUME b.checkpoint.process = p
          PROVE  \/ s.count <= counted[p] \/ s.count <= b.checkpoint.count
                 \/ \E a \in Processes \ {p} : s.count <= counted[a] /\ u[a] = 0
      <4>1. SUFFICES ASSUME ~(s.count <= counted[p])
                     PROVE  \E a \in Processes \ {p} : s.count <= counted[a] /\ u[a] = 0
        OBVIOUS
      <4>2. s.count > counted[p] /\ checkpoint.process = p
        BY <1>4, <1>5, <1>6, <1>16, <3>2, <4>1, RecordAssumption
      <4>3. PICK a \in Processes \ {p} : s.count <= counted[a] /\ t[a] = 0
        BY <1>1, <1>2, <1>5, <4>2 DEF Attributed, s
      <4> QED
        BY <1>5, <4>3
    <3>3. b.checkpoint.process # p /\ counting = p => u[p] <= s.count
      <4>1. SUFFICES ASSUME b.checkpoint.process # p, counting = p PROVE u[p] <= s.count
        OBVIOUS
      <4>2. b = Ledger!Books /\ u = t /\ checkpoint.process # p
        BY <1>4, <1>5, <4>1
      <4> QED
        BY <1>1, <1>2, <1>5, <4>1, <4>2 DEF Attributed, s
    <3>4. PICK v : /\ Covers(v, Ledger!Record(b, p, s))
                   /\ b.checkpoint.process = p \/ counting = p => v[p] <= s.count
      <4>1. /\ RecordAssumption /\ counted \in [Processes -> 0 .. MaxCount] /\ b \in BookTypes
            /\ Covers(u, b)
            /\ p \in Processes /\ s \in Ledger!Samples /\ Ledger!Accepts(b, p, s)
            /\ b.checkpoint.process = p =>
                 /\ u[p] <= b.checkpoint.count
                 /\ \/ s.count <= counted[p] \/ s.count <= b.checkpoint.count
                    \/ \E a \in Processes \ {p} : s.count <= counted[a] /\ u[a] = 0
            /\ b.checkpoint.process # p /\ counting = p => u[p] <= s.count
        BY <1>4, <1>5, <3>1, <3>2, <3>3, RecordAssumption
      <4> QED
        BY ONLY <4>1, AcceptedCovers
    <3> QED
      BY <3>1, <3>4
  <2> QED
    BY <2>1, <2>2
<1>18. \E v : Attributed(v)'
  <2>1. PICK v : Covers(v, n) /\ (counting = n.checkpoint.process /\ counting \in Processes
             => v[counting] <= n.checkpoint.count)
    BY <1>17
  <2>2. Attributed(v)'
    BY <1>7, <2>1 DEF Covers, Attributed, Ledger!Idle
  <2> QED
    BY <2>2
<1> QED
  BY <1>10, <1>11, <1>15, <1>18 DEF LedgerInv

\* FlushOnly: what is in memory is written and the answer is not.
LEMMA FlushOnlyKeeps == ASSUME LedgerInv, Ledger!FlushOnly PROVE LedgerInv'
<1> DEFINE s == sampling.sample
           p == collector.process
           flushed == Ledger!Flush(s)
<1>1. /\ sampling.step = "answered" /\ flushed # Ledger!Books
      /\ checkpoint' = flushed.checkpoint /\ months' = flushed.months /\ samples' = flushed.samples
      /\ collector' = [collector EXCEPT !.persistedAt = collector.previous.at]
      /\ sampling' = Ledger!Idle
      /\ UNCHANGED <<counting, observed, counted, trafficClock, peak, setBacks>>
  BY DEF Ledger!FlushOnly
<1>2. PICK t : Attributed(t)
  BY DEF LedgerInv
<1>3. PICK b : b = flushed
  OBVIOUS
<1>4. /\ collector.previous \in Ledger!Samples /\ peak \in Ledger!Samples
      /\ collector \in [process : Processes \cup {NoProcess}, previous : Ledger!Samples,
          persistedAt : Ledger!Never .. MaxTrafficTime]
  BY DEF LedgerInv, LedgerTypes, Ledger!TypeOK
<1>5. PICK u : /\ b \in BookTypes /\ Kept(b) /\ p \in Processes /\ Ledger!Regressed(s)
               /\ b.checkpoint = [process |-> p, count |-> collector.previous.count,
                   at |-> collector.previous.at]
               /\ Covers(u, b) /\ (b.checkpoint.process = p => u[p] <= b.checkpoint.count)
  BY <1>1, <1>2, <1>3, FlushKeeps
<1> HIDE DEF s, p, flushed
<1>6. /\ collector'.previous = collector.previous /\ collector'.persistedAt = collector.previous.at
      /\ collector'.process = p /\ checkpoint' = b.checkpoint /\ months' = b.months
      /\ samples' = b.samples
  BY <1>1, <1>3, <1>4 DEF p
<1>7. /\ checkpoint'.process = p /\ checkpoint'.count = collector.previous.count
      /\ checkpoint'.at = collector.previous.at
  BY <1>5, <1>6
<1>8. b.checkpoint \in Checkpoints /\ b.months \in Months /\ b.samples \in SUBSET Ledger!Rows
      /\ b = [checkpoint |-> b.checkpoint, months |-> b.months, samples |-> b.samples]
  BY <1>5 DEF BookTypes
<1>9. LedgerTypes' /\ Kept(Ledger!Books)'
  <2>1. Ledger!Books' = b
    BY <1>6, <1>8 DEF Ledger!Books
  <2>2. collector' \in [process : Processes \cup {NoProcess}, previous : Ledger!Samples,
          persistedAt : Ledger!Never .. MaxTrafficTime]
    BY <1>1, <1>4 DEF Ledger!Samples
  <2>3. Ledger!Idle \in [step : {"idle", "asked", "answered"},
          process : Processes \cup {NoProcess}, sample : Ledger!Samples]
    BY RecordAssumption DEF Ledger!Idle, Ledger!NoSample, Ledger!Samples, Ledger!Never
  <2>4. PICK m \in Months : m = months'
    BY <1>6, <1>8
  <2>5. \A x \in DOMAIN m : m[x] >= 0
    BY <2>4 DEF Months
  <2>6. Ledger!TypeOK'
    BY <1>1, <1>4, <1>6, <1>8, <2>2, <2>3, <2>4, <2>5 DEF LedgerInv, LedgerTypes, Ledger!TypeOK,
       Checkpoints
  <2> QED
    BY <1>5, <2>1, <2>6 DEF LedgerTypes
<1>10. Asked'
  BY <1>1 DEF Asked, Ledger!Idle
<1>11. Remembered'
  <2>1. /\ collector.previous # Ledger!NoSample /\ collector.previous.at # Ledger!Never
        /\ peak = collector.previous
    BY <1>5 DEF Ledger!Regressed, LedgerInv, Remembered
  <2>2. collector.previous.at \in Int /\ collector.previous.count \in Int
    BY <1>4, RecordAssumption DEF Ledger!Samples, Ledger!Never
  <2> QED
    BY <1>1, <1>5, <1>6, <1>7, <2>1, <2>2 DEF Remembered
<1>12. Attributed(u)'
  BY <1>1, <1>5, <1>6, <1>7 DEF Covers, Attributed, Ledger!Idle
<1> QED
  BY <1>9, <1>10, <1>11, <1>12 DEF LedgerInv

LEMMA LedgerStep == ASSUME LedgerInv, [Ledger!Next]_(Ledger!trafficVars) PROVE LedgerInv'
<1>1. CASE Ledger!Ask \/ Ledger!Answer \/ Ledger!Use \/ Ledger!FlushOnly \/ Ledger!GiveUp
           \/ Ledger!DeleteSamples \/ Ledger!Transfer \/ Ledger!RestartPanel
  BY <1>1, AskKeeps, AnswerKeeps, UseKeeps, FlushOnlyKeeps, GiveUpKeeps, DeleteKeeps,
     TransferKeeps
<1>2. CASE (\E p \in Processes : Ledger!StartCore(p)) \/ Ledger!Observe \/ Ledger!Exit
           \/ Ledger!Tick \/ Ledger!SetBack \/ UNCHANGED Ledger!trafficVars
  <2>1. UNCHANGED <<counted, checkpoint, months, samples, collector, peak, sampling>>
    BY <1>2 DEF Ledger!StartCore, Ledger!Observe, Ledger!Exit, Ledger!Tick, Ledger!SetBack,
       Ledger!trafficVars
  <2>2. counting' = counting \/ counting' = NoProcess
          \/ (counting' \in Processes /\ Ledger!Started(counting'))
    BY <1>2 DEF Ledger!StartCore, Ledger!Observe, Ledger!Exit, Ledger!Tick, Ledger!SetBack,
       Ledger!trafficVars
  <2>3. observed' \in Processes \cup {NoProcess}
    BY <1>2 DEF Ledger!StartCore, Ledger!Observe, Ledger!Exit, Ledger!Tick, Ledger!SetBack,
       Ledger!trafficVars, LedgerInv, LedgerTypes, Ledger!TypeOK
  <2>4. trafficClock' \in 0 .. MaxTrafficTime
    <3>1. trafficClock \in 0 .. MaxTrafficTime /\ MaxTrafficTime \in Nat
      BY RecordAssumption DEF LedgerInv, LedgerTypes, Ledger!TypeOK
    <3>2. trafficClock' = trafficClock \/ (trafficClock < MaxTrafficTime
            /\ trafficClock' = trafficClock + 1) \/ (trafficClock > 0
                /\ trafficClock' = trafficClock - 1)
      BY <1>2 DEF Ledger!StartCore, Ledger!Observe, Ledger!Exit, Ledger!Tick, Ledger!SetBack,
         Ledger!trafficVars
    <3> QED
      BY <3>1, <3>2
  <2> QED
    BY <2>1, <2>2, <2>3, <2>4, Quiet
<1> QED
  BY <1>1, <1>2 DEF Ledger!Next

\* The books never hold more than was counted, and never less than was accepted.
LEMMA LedgerCounts == ASSUME LedgerInv PROVE Ledger!TypeOK /\ Ledger!TrafficIsBookedOnce
<1>1. PICK t : Attributed(t)
  BY DEF LedgerInv
<1>2. Ledger!TypeOK /\ counted \in [Processes -> 0 .. MaxCount] /\ months \in Months
  BY DEF LedgerInv, LedgerTypes, Ledger!TypeOK, BookTypes, Ledger!Books
<1>3. Total(t, Processes) <= Total(counted, Processes)
  <2>1. \A p \in Processes : t[p] \in Nat /\ counted[p] \in Nat /\ t[p] <= counted[p]
    BY <1>1, <1>2, RecordAssumption DEF Attributed
  <2> QED
    BY <2>1, TotalGrows, RecordAssumption
<1>4. /\ Total(t, Processes) \in Nat /\ Total(counted, Processes) \in Nat
      /\ Total(months, DOMAIN months) \in Nat
  <2>1. \A p \in Processes : t[p] \in Nat /\ counted[p] \in Nat
    BY <1>1, <1>2, RecordAssumption DEF Attributed
  <2>2. IsFiniteSet(DOMAIN months) /\ \A m \in DOMAIN months : months[m] \in Nat
    BY <1>2, LedgerFinite DEF Months
  <2> QED
    BY <2>1, <2>2, TotalTakes, RecordAssumption
<1>5. /\ Ledger!Booked = Total(months, DOMAIN months)
      /\ Ledger!SumOf(counted) = Total(counted, Processes)
  BY <1>2, SumIsTotal DEF Ledger!Booked
<1>6. Ledger!Booked <= Ledger!SumOf(counted)
  BY <1>1, <1>3, <1>4, <1>5 DEF Attributed
<1>7. ~(peak # Ledger!NoSample /\ checkpoint.at > peak.at)
  <2>1. SUFFICES ASSUME peak # Ledger!NoSample PROVE ~(checkpoint.at > peak.at)
    OBVIOUS
  <2>2. checkpoint.at <= peak.at
    BY <2>1 DEF LedgerInv, Remembered
  <2>3. checkpoint.at \in Int /\ peak.at \in Int
    BY <1>2, RecordAssumption DEF Ledger!TypeOK, Ledger!Samples, Ledger!Never
  <2> QED
    BY <2>2, <2>3
<1> QED
  BY <1>2, <1>6, <1>7 DEF Ledger!TrafficIsBookedOnce

THEOREM LedgerInvariant == Ledger!Spec => []LedgerInv
BY LedgerStarts, LedgerStep, PTL DEF Ledger!Spec

-----------------------------------------------------------------------------
(* The history: the parts of disjoint intervals in a bucket are the instants covered *)

\* The instants of a bucket that rows cover.
Covered(rows, from, to) == {t \in from .. to - 1 : \E r \in rows : r.start <= t /\ t < r.at}

LEMMA ClipCounts ==
  ASSUME NEW from \in Int, NEW to \in Int, from < to, NEW b, b = [from |-> from, to |-> to],
         NEW r, r.start \in Int, r.at \in Int, r.start < r.at
  PROVE  /\ Ledger!Clip(r, b) \in Nat /\ IsFiniteSet(Covered({r}, from, to))
         /\ Ledger!Clip(r, b) = Cardinality(Covered({r}, from, to))
<1>1. PICK s \in Int, e \in Int :
         /\ s = (IF r.start > from THEN r.start ELSE from)
         /\ e = (IF r.at < to THEN r.at ELSE to)
  OBVIOUS
<1>2. Ledger!Clip(r, b) = IF e > s THEN e - s ELSE 0
  BY <1>1 DEF Ledger!Clip
<1>3. Covered({r}, from, to) = s .. e - 1
  BY <1>1 DEF Covered
<1>4. IsFiniteSet(s .. e - 1) /\ Cardinality(s .. e - 1) = (IF s > e - 1 THEN 0 ELSE e - 1 - s + 1)
  <2>1. PICK d \in Int : d = e - 1
    BY <1>1
  <2>2. IsFiniteSet(s .. d) /\ Cardinality(s .. d) = (IF s > d THEN 0 ELSE d - s + 1)
    BY <1>1, FS_Interval
  <2> QED
    BY <2>1, <2>2
<1>5. Cardinality(s .. e - 1) = IF e > s THEN e - s ELSE 0
  BY <1>1, <1>4
<1>6. (IF e > s THEN e - s ELSE 0) \in Nat
  BY <1>1
<1> QED
  BY <1>2, <1>3, <1>4, <1>5, <1>6

LEMMA ClipsCount ==
  ASSUME NEW from \in Int, NEW to \in Int, from < to, NEW b, b = [from |-> from, to |-> to],
         NEW C, IsFiniteSet(C), \A r \in C : r.start \in Int /\ r.at \in Int /\ r.start < r.at,
         \A r, q \in C : r # q => r.at <= q.start \/ q.at <= r.start,
         NEW f, \A r \in C : f[r] = Ledger!Clip(r, b)
  PROVE  /\ Total(f, C) = Cardinality(Covered(C, from, to))
         /\ IsFiniteSet(Covered(C, from, to))
<1>0. \A T : IsFiniteSet(Covered(T, from, to))
  <2>1. IsFiniteSet(from .. to - 1)
    BY FS_Interval
  <2>2. \A T : Covered(T, from, to) \subseteq from .. to - 1
    BY DEF Covered
  <2> QED
    BY <2>1, <2>2, FS_Subset
<1> DEFINE F == {T \in SUBSET C : Total(f, T) = Cardinality(Covered(T, from, to))}
<1>1. {} \in F
  <2>1. Total(f, {}) = 0 /\ Cardinality({}) = 0
    BY FS_EmptySet, TotalTakes
  <2>2. Covered({}, from, to) = {}
    BY DEF Covered
  <2> QED
    BY <2>1, <2>2
<1>2. ASSUME NEW T \in F, NEW x \in C \ T PROVE T \cup {x} \in F
  <2>0. T \cup {x} \in SUBSET C /\ (T \cup {x}) \ {x} = T
    OBVIOUS
  <2>1. PICK U \in SUBSET C : U = T \cup {x} /\ x \in U /\ U \ {x} = T
    BY <2>0
  <2>2. IsFiniteSet(U) /\ \A r \in U : f[r] \in Nat
    <3>1. IsFiniteSet(U)
      BY <2>1, FS_Subset
    <3>2. ASSUME NEW r \in U PROVE f[r] \in Nat
      <4>1. r.start \in Int /\ r.at \in Int /\ r.start < r.at /\ f[r] = Ledger!Clip(r, b)
        BY <2>1
      <4>2. Ledger!Clip(r, b) \in Nat
        BY <4>1, ClipCounts
      <4> QED
        BY <4>1, <4>2
    <3> QED
      BY <3>1, <3>2
  <2>3. Total(f, U) = f[x] + Total(f, T)
    BY <2>1, <2>2, TotalTakes
  <2>4. PICK V, W : V = Covered(T, from, to) /\ W = Covered({x}, from, to)
    OBVIOUS
  <2>5. Covered(U, from, to) = V \cup W
    BY <2>1, <2>4 DEF Covered
  <2>6. V \cap W = {}
    <3>1. SUFFICES ASSUME NEW t \in V, t \in W PROVE FALSE
      OBVIOUS
    <3>2. PICK r \in T : r.start <= t /\ t < r.at
      BY <2>4 DEF Covered
    <3>3. x.start <= t /\ t < x.at /\ t \in Int
      BY <2>4, <3>1 DEF Covered
    <3>4. r \in C /\ r # x
      OBVIOUS
    <3> QED
      BY <3>2, <3>3, <3>4
  <2>7. IsFiniteSet(V) /\ IsFiniteSet(W) /\ f[x] = Cardinality(W) /\ Total(f, T) = Cardinality(V)
    <3>1. x.start \in Int /\ x.at \in Int /\ x.start < x.at /\ f[x] = Ledger!Clip(x, b)
      OBVIOUS
    <3>2. Ledger!Clip(x, b) = Cardinality(Covered({x}, from, to))
      BY <3>1, ClipCounts
    <3> QED
      BY <1>0, <2>4, <3>1, <3>2
  <2>8. Cardinality(V \cup W) = Cardinality(V) + Cardinality(W) - Cardinality(V \cap W)
    BY <2>7, FS_Union
  <2>9. Cardinality(V) \in Nat /\ Cardinality(W) \in Nat /\ Cardinality(V \cap W) = 0
    BY <2>6, <2>7, FS_CardinalityType, FS_EmptySet
  <2>10. Total(f, U) = Cardinality(Covered(U, from, to))
    BY <2>3, <2>5, <2>7, <2>8, <2>9
  <2> QED
    BY <2>1, <2>10
<1>3. C \in F
  <2> HIDE DEF F
  <2> QED
    BY <1>1, <1>2, FiniteInduction
<1> QED
  BY <1>0, <1>3

\* The rows as the invariant knows them.
LEMMA RowsLie ==
  ASSUME LedgerInv
  PROVE  /\ IsFiniteSet(samples)
         /\ \A r \in samples : /\ r.start \in Int /\ r.at \in Int /\ r.start < r.at
                                   /\ r.delta \in Nat
                               /\ r.complete \in BOOLEAN /\ (r.complete => r.start # Ledger!Never)
         /\ \A r, q \in samples :
              r # q /\ r.start # Ledger!Never /\ q.start # Ledger!Never
                  => r.at <= q.start \/ q.at <= r.start
BY RecordAssumption DEF LedgerInv, LedgerTypes, Ledger!TypeOK, Kept, Ledger!Books, Ledger!Rows,
   Ledger!Never

\* A bucket is complete if and only if complete rows cover its every instant.
LEMMA BucketIsProven ==
  ASSUME LedgerInv, NEW from \in Int, NEW to \in Int, from < to
  PROVE  Ledger!Bucket(from, to).coverage = "complete" <=>
           \A t \in from .. to - 1 : \E r \in samples : r.complete /\ r.start <= t /\ t < r.at
<1> DEFINE b == [from |-> from, to |-> to]
           evidence == {r \in samples : r.start # Ledger!Never /\ r.at > from /\ r.start < to}
           complete == {r \in evidence : r.complete}
<1>1. PICK C, f : C = complete /\ f = [r \in C |-> Ledger!Clip(r, b)]
  OBVIOUS
<1>2. Ledger!Bucket(from, to).coverage = "complete" <=>
        (\E r \in C : r.start <= from) /\ (\E r \in C : r.at >= to) /\ Total(f, C) = to - from
  <2>1. Ledger!SumOf([r \in complete |-> Ledger!Clip(r, b)]) = Total(f, C)
    <3>1. Ledger!SumOf(f) = Total(f, DOMAIN f) /\ DOMAIN f = C
      BY <1>1, SumIsTotal
    <3> HIDE DEF complete, b
    <3> QED
      BY <1>1, <3>1
  <2> QED
    BY <1>1, <2>1 DEF Ledger!Bucket
<1>3. /\ IsFiniteSet(C) /\ C \subseteq samples
      /\ \A r \in C : r.start \in Int /\ r.at \in Int /\ r.start < r.at
      /\ \A r, q \in C : r # q => r.at <= q.start \/ q.at <= r.start
  <2>1. C \subseteq samples /\ \A r \in C : r.start # Ledger!Never
    BY <1>1
  <2> QED
    BY <2>1, RowsLie, FS_Subset
<1>4. PICK V : V = Covered(C, from, to)
  OBVIOUS
<1>5. Total(f, C) = Cardinality(V) /\ IsFiniteSet(V)
  <2>1. \A r \in C : f[r] = Ledger!Clip(r, b)
    BY <1>1
  <2> HIDE DEF complete
  <2> QED
    BY <1>3, <1>4, <2>1, ClipsCount
<1>6. /\ IsFiniteSet(from .. to - 1) /\ Cardinality(from .. to - 1) = to - from
      /\ V \subseteq from .. to - 1
  <2>1. /\ Cardinality(from .. to - 1) = (IF from > to - 1 THEN 0 ELSE to - 1 - from + 1)
        /\ IsFiniteSet(from .. to - 1)
    BY FS_Interval
  <2> QED
    BY <1>4, <2>1 DEF Covered
<1>7. Cardinality(V) = to - from <=> V = from .. to - 1
  BY <1>5, <1>6, FS_Subset
<1>8. ASSUME NEW t \in from .. to - 1
      PROVE  t \in V <=> \E r \in samples : r.complete /\ r.start <= t /\ t < r.at
  <2>1. t \in V <=> \E r \in C : r.start <= t /\ t < r.at
    BY <1>4 DEF Covered
  <2>2. ASSUME NEW r \in samples, r.complete, r.start <= t, t < r.at PROVE r \in C
    BY <1>1, <2>2, RowsLie
  <2> QED
    BY <1>1, <2>1, <2>2
<1>9. V = from .. to - 1 => (\E r \in C : r.start <= from) /\ (\E r \in C : r.at >= to)
  <2>1. SUFFICES ASSUME V = from .. to - 1 PROVE (\E r \in C : r.start <= from)
                        /\ (\E r \in C : r.at >= to)
    OBVIOUS
  <2>2. from \in V /\ to - 1 \in V
    BY <2>1
  <2>3. \E r \in C : r.start <= from
    BY <1>4, <2>2 DEF Covered
  <2>4. PICK r \in C : to - 1 < r.at
    BY <1>4, <2>2 DEF Covered
  <2>5. r.at >= to
    BY <1>3, <2>4
  <2> QED
    BY <2>3, <2>5
<1> HIDE DEF complete
<1> QED
  BY <1>2, <1>5, <1>6, <1>7, <1>8, <1>9

\* The parts that are inside the buckets of a history carry no more than is booked.
LEMMA HistoryShowsBooked ==
  ASSUME LedgerInv, NEW I, IsFiniteSet(I), NEW history,
         NEW from, NEW to, \A i \in I : /\ from[i] \in Int /\ to[i] \in Int
                                        /\ history[i] = Ledger!Bucket(from[i], to[i]),
         \A i, j \in I : i # j => to[i] <= from[j] \/ to[j] <= from[i]
  PROVE  Ledger!SumOf([i \in I |-> history[i].bytes]) <= Ledger!Booked
<1> DEFINE f == [r \in samples |-> r.delta]
           P == [i \in I |-> {r \in samples : /\ r.start # Ledger!Never /\ r.at > from[i]
                                                  /\ r.start < to[i]
                                              /\ r.start >= from[i] /\ r.at <= to[i]}]
           g == [i \in I |-> history[i].bytes]
<1>1. IsFiniteSet(samples) /\ \A r \in samples : f[r] \in Nat
  BY RowsLie
<1>2. ASSUME NEW i \in I PROVE P[i] \subseteq samples /\ g[i] = Total(f, P[i])
  <2>1. PICK Q : Q = P[i] /\ Q \subseteq samples
    OBVIOUS
  <2>2. PICK h : h = [r \in Q |-> r.delta]
    OBVIOUS
  <2>3. Ledger!Bucket(from[i], to[i]).bytes = Ledger!SumOf(h)
    <3>1. {r \in {q \in samples : q.start # Ledger!Never /\ q.at > from[i]
            /\ q.start < to[i]} : r.start >= from[i] /\ r.at <= to[i]} = Q
      BY <2>1
    <3> QED
      BY <2>2, <3>1 DEF Ledger!Bucket
  <2>4. Ledger!SumOf(h) = Total(h, Q)
    BY <2>2, SumIsTotal
  <2>5. IsFiniteSet(Q) /\ \A r \in Q : h[r] \in Nat /\ h[r] = f[r]
    BY <2>1, <2>2, RowsLie, FS_Subset
  <2>6. Total(h, Q) = Total(f, Q)
    <3> HIDE DEF f, P
    <3> QED
      BY <2>5, TotalAgrees
  <2> QED
    BY <2>1, <2>3, <2>4, <2>6
<1>3. ASSUME NEW i \in I, NEW j \in I, i # j PROVE P[i] \cap P[j] = {}
  <2>1. SUFFICES ASSUME NEW r \in P[i], r \in P[j] PROVE FALSE
    OBVIOUS
  <2>2. r \in samples /\ r.start >= from[i] /\ r.at <= to[i] /\ r.start >= from[j] /\ r.at <= to[j]
    BY <2>1
  <2>3. r.start \in Int /\ r.at \in Int /\ r.start < r.at
    BY <2>2, RowsLie
  <2>4. to[i] <= from[j] \/ to[j] <= from[i]
    BY <1>3
  <2> QED
    BY <2>2, <2>3, <2>4
<1>4. Total(g, I) <= Total(f, samples)
  <2> HIDE DEF f, P, g
  <2> QED
    BY <1>1, <1>2, <1>3, TotalOfParts
<1>5. Total(f, samples) <= Total(months, DOMAIN months)
  BY DEF LedgerInv, Kept, Ledger!Books
<1>6. /\ Total(f, samples) \in Nat /\ Total(g, I) \in Nat /\ Total(months, DOMAIN months) \in Nat
  <2>1. Total(f, samples) \in Nat
    <3> HIDE DEF f
    <3> QED
      BY <1>1, TotalTakes
  <2>2. \A i \in I : g[i] \in Nat
    <3> HIDE DEF f, P, g
    <3> QED
      BY <1>1, <1>2, TotalOfPart
  <2>3. Total(g, I) \in Nat
    <3> HIDE DEF g
    <3> QED
      BY <2>2, TotalTakes
  <2>4. IsFiniteSet(DOMAIN months) /\ \A m \in DOMAIN months : months[m] \in Nat
    BY LedgerFinite DEF LedgerInv, LedgerTypes, BookTypes, Ledger!Books, Months
  <2> QED
    BY <2>1, <2>3, <2>4, TotalTakes
<1>7. Ledger!SumOf(g) = Total(g, I) /\ Ledger!Booked = Total(months, DOMAIN months)
  BY SumIsTotal DEF Ledger!Booked
<1> HIDE DEF f
<1> QED
  BY <1>4, <1>5, <1>6, <1>7

LEMMA CoverageHolds == ASSUME LedgerInv PROVE Ledger!CoverageIsProven
<1>1. SUFFICES ASSUME NEW from \in 0 .. MaxTrafficTime - 1, NEW size \in 1 .. 2,
                      NEW to \in from + 1 .. MaxTrafficTime,
                      NEW history, history = Ledger!MetricsHistory(from, to, size)
               PROVE  /\ \A i \in DOMAIN history :
                           history[i].coverage = "complete" <=>
                             \A t \in history[i].from .. history[i].to - 1 :
                               \E r \in samples : r.complete /\ r.start <= t /\ t < r.at
                      /\ Ledger!SumOf([i \in DOMAIN history |-> history[i].bytes]) <= Ledger!Booked
  BY DEF Ledger!CoverageIsProven
<1>2. from \in Int /\ to \in Int /\ from < to /\ size \in Int /\ (size = 1 \/ size = 2)
  BY RecordAssumption
<1>3. PICK k \in Int : k = (to - from + size - 1) \div size - 1
  BY <1>2
<1>4. PICK I : I = 0 .. k
  OBVIOUS
<1>5. PICK first, last :
         /\ first = [i \in I |-> from + i * size]
         /\ last = [i \in I |-> IF from + (i + 1) * size < to THEN from + (i + 1) * size ELSE to]
  OBVIOUS
<1>6. history = [i \in I |-> Ledger!Bucket(first[i], last[i])]
  BY <1>1, <1>3, <1>4, <1>5 DEF Ledger!MetricsHistory
<1>7. ASSUME NEW i \in I PROVE /\ i \in Int /\ first[i] \in Int /\ last[i] \in Int
                                   /\ first[i] < last[i]
                               /\ last[i] <= from + (i + 1) * size /\ first[i] = from + i * size
  <2>1. i \in Int /\ i >= 0 /\ i <= k
    BY <1>3, <1>4
  <2>2. i * size < to - from
    <3>1. CASE size = 1
      BY <1>2, <1>3, <2>1, <3>1
    <3>2. CASE size = 2
      BY <1>2, <1>3, <2>1, <3>2
    <3> QED
      BY <1>2, <3>1, <3>2
  <2>3. i * size \in Int /\ (i + 1) * size \in Int /\ i * size < (i + 1) * size
    <3>1. CASE size = 1
      BY <2>1, <3>1
    <3>2. CASE size = 2
      BY <2>1, <3>2
    <3> QED
      BY <1>2, <3>1, <3>2
  <2> QED
    BY <1>2, <1>5, <2>1, <2>2, <2>3
<1>8. ASSUME NEW i \in I, NEW j \in I, i # j PROVE last[i] <= first[j] \/ last[j] <= first[i]
  <2>0. i \in Int /\ j \in Int
    BY <1>7
  <2>1. i \in Int /\ j \in Int /\ (i + 1 <= j \/ j + 1 <= i)
    BY <1>8, <2>0
  <2>2. (i + 1) * size <= j * size \/ (j + 1) * size <= i * size
    <3>1. CASE size = 1
      BY <2>1, <3>1
    <3>2. CASE size = 2
      BY <2>1, <3>2
    <3> QED
      BY <1>2, <3>1, <3>2
  <2>3. (i + 1) * size \in Int /\ j * size \in Int /\ (j + 1) * size \in Int /\ i * size \in Int
    BY <1>2, <2>1
  <2> QED
    BY <1>2, <1>7, <2>2, <2>3
<1>9. ASSUME NEW i \in DOMAIN history
      PROVE  history[i].coverage = "complete" <=>
               \A t \in history[i].from .. history[i].to - 1 :
                 \E r \in samples : r.complete /\ r.start <= t /\ t < r.at
  <2>1. i \in I /\ history[i] = Ledger!Bucket(first[i], last[i])
    BY <1>6
  <2>2. history[i].from = first[i] /\ history[i].to = last[i]
    BY <2>1 DEF Ledger!Bucket
  <2> QED
    BY <1>7, <2>1, <2>2, BucketIsProven
<1>10. Ledger!SumOf([i \in DOMAIN history |-> history[i].bytes]) <= Ledger!Booked
  <2>1. DOMAIN history = I /\ IsFiniteSet(I)
    <3>1. 0 \in Int /\ k \in Int
      BY <1>3
    <3>2. IsFiniteSet(0 .. k)
      BY ONLY <3>1, FS_Interval
    <3> QED
      BY <1>4, <1>6, <3>2
  <2>2. \A i \in I : /\ first[i] \in Int /\ last[i] \in Int
                         /\ history[i] = Ledger!Bucket(first[i], last[i])
    BY <1>6, <1>7
  <2>3. Ledger!SumOf([i \in I |-> history[i].bytes]) <= Ledger!Booked
    BY <1>8, <2>1, <2>2, HistoryShowsBooked
  <2> QED
    BY <2>1, <2>3
<1> QED
  BY <1>9, <1>10

-----------------------------------------------------------------------------
(* Logs. The newest file of today always survives, so that a file that was begun by a *)
(* reader is never made again; what is captured is older than what is pending, and    *)
(* that is older than what is still to be read.                                       *)

Pieces == [by : Logs!Writers, from : Nat, n : 1 .. MaxPieces, ends : BOOLEAN]

LogTypes ==
  /\ day \in 0 .. MaxDay /\ logging \in 0 .. MaxPieces /\ pieces \in 0 .. MaxPieces
  /\ native \in [inode : Nat, text : Seq(Pieces)]
  /\ DOMAIN logFiles \subseteq Logs!Names /\ logFiles \in [DOMAIN logFiles -> Seq(Seq(Pieces))]
  /\ policy \in Policies /\ logFile \in Logs!Names \cup {Logs!NoFile}
  /\ drawn \in Nat /\ epoch \in 1 .. drawn
  /\ DOMAIN generations \subseteq Logs!Names /\ generations \in [DOMAIN generations -> 1 .. drawn]
  /\ unwritten \in [Logs!Writers -> Seq(Pieces)]
  /\ follower \in [on : BOOLEAN, inode : Nat, offset : Nat]
  /\ reader \in [file : Logs!Names \cup {Logs!NoFile}, generation : 0 .. drawn,
                 from : Nat, offset : Nat, text : Seq(Seq(Pieces))]

\* No file is of a later day, and the one that was appended to last is the newest.
FilesInv ==
  /\ \A n \in DOMAIN logFiles : n[1] <= day
  /\ logFile # Logs!NoFile => \A n \in DOMAIN logFiles : n = logFile \/ Logs!Older(n, logFile)

\* How many pieces are on their way: each may need one more file.
Ahead ==
  IF ~follower.on THEN 0
  ELSE IF Logs!Replaced THEN Len(native.text) ELSE Len(native.text) - follower.offset
InHand == Len(unwritten["output"]) + Len(unwritten["file"]) + Ahead
RoomInv == InHand <= pieces /\ \A n \in DOMAIN logFiles : n[2] + InHand <= pieces

\* A file that a reader has begun is never created again.
ReaderInv ==
  /\ reader.from <= reader.offset
  /\ reader.file \in DOMAIN logFiles =>
       (reader.generation = Logs!Generation(reader.file) =>
          reader.offset <= Len(logFiles[reader.file])
          /\ reader.text = SubSeq(logFiles[reader.file], reader.from + 1, reader.offset))
  /\ reader.file \notin DOMAIN logFiles =>
       reader.file[1] < day \/ \E n \in DOMAIN logFiles : n[1] = day /\ Logs!Older(reader.file, n)

\* What is pending is of one run, or of the file that is followed.
FollowInv ==
  /\ logging # 0 => follower.on
  /\ \A w \in Logs!Writers : \A i \in DOMAIN unwritten[w] : unwritten[w][i].by = w
  /\ \A i, j \in DOMAIN unwritten["output"] :
       unwritten["output"][i].from = unwritten["output"][j].from
  /\ logging # 0 => \A i \in DOMAIN unwritten["output"] : unwritten["output"][i].from = logging
  /\ ~follower.on => unwritten["file"] = <<>>
  /\ \A i \in DOMAIN unwritten["file"] : unwritten["file"][i].from = follower.inode
  /\ \A i \in DOMAIN native.text : native.text[i].by = "file" /\ native.text[i].from = native.inode

\* A piece that is in files.
Caught(fs, p) ==
  \E n \in DOMAIN fs : \E i \in DOMAIN fs[n] : \E j \in DOMAIN fs[n][i] : p = fs[n][i][j]
Rising(ps) == \A i, j \in DOMAIN ps : i < j => ps[i].n < ps[j].n
Alike(ps) == \A i, j \in DOMAIN ps : ps[i].by = ps[j].by /\ ps[i].from = ps[j].from
Below(fs, ps) ==
  \A p \in Pieces : \A i \in DOMAIN ps : Caught(fs, p) /\ p.by = ps[i].by => p.n < ps[i].n
InOrder(fs) ==
  \A m, n \in DOMAIN fs : \A i \in DOMAIN fs[m], k \in DOMAIN fs[n] :
    \A j \in DOMAIN fs[m][i], l \in DOMAIN fs[n][k] :
      fs[m][i][j].by = fs[n][k][l].by /\ Logs!Precedes(m, i, j, n, k, l)
          => fs[m][i][j].n < fs[n][k][l].n

\* All lines of fs are in order, each of one origin.
Tidy(fs) == InOrder(fs) /\ \A n \in DOMAIN fs : \A i \in DOMAIN fs[n] : Alike(fs[n][i])

OrderInv ==
  /\ Tidy(logFiles)
  /\ \A p \in Pieces : Caught(logFiles, p) => p.n <= pieces
  /\ \A w \in Logs!Writers : Rising(unwritten[w]) /\ Below(logFiles, unwritten[w])
                             /\ \A i \in DOMAIN unwritten[w] : unwritten[w][i].n <= pieces
  /\ Rising(native.text) /\ \A i \in DOMAIN native.text : native.text[i].n <= pieces
  /\ follower.on =>
       \A k \in DOMAIN native.text : Logs!Replaced \/ follower.offset < k =>
         /\ \A i \in DOMAIN unwritten["file"] : unwritten["file"][i].n < native.text[k].n
         /\ \A p \in Pieces : Caught(logFiles, p) /\ p.by = "file" => p.n < native.text[k].n

LogsInv == LogTypes /\ FilesInv /\ RoomInv /\ ReaderInv /\ FollowInv /\ OrderInv

\* The model counts as the library does.
LEMMA LogsCount == \A names : Logs!Cardinality(names) = Cardinality(names)
BY DEF Logs!Cardinality, Cardinality

-----------------------------------------------------------------------------
(* The newest of some files, and where an append goes *)

LEMMA LogBounds == MaxPieces \in Nat /\ MaxDay \in Nat /\ ChunkLines \in Nat \ {0}
BY RecordAssumption

LEMMA NamesFinite == IsFiniteSet(Logs!Names)
<1>1. IsFiniteSet(0 .. MaxDay) /\ IsFiniteSet(0 .. MaxPieces)
  BY LogBounds, FS_Interval
<1> QED
  BY <1>1, FS_Product DEF Logs!Names

LEMMA FilesFinite == ASSUME LogTypes PROVE IsFiniteSet(DOMAIN logFiles)
BY NamesFinite, FS_Subset DEF LogTypes

LEMMA NameNumbers == ASSUME NEW n \in Logs!Names
                            PROVE n[1] \in 0 .. MaxDay /\ n[2] \in 0 .. MaxPieces
                                /\ n = <<n[1], n[2]>>
BY DEF Logs!Names

LEMMA OlderOrders ==
  /\ \A l, m, n \in Logs!Names : Logs!Older(l, m) /\ Logs!Older(m, n) => Logs!Older(l, n)
  /\ \A m, n \in Logs!Names : m = n \/ Logs!Older(m, n) \/ Logs!Older(n, m)
  /\ \A m, n \in Logs!Names : Logs!Older(m, n) => m # n /\ ~Logs!Older(n, m)
<1>0. \A n \in Logs!Names : n[1] \in Int /\ n[2] \in Int /\ n = <<n[1], n[2]>>
  BY NameNumbers, LogBounds
<1>1. ASSUME NEW l \in Logs!Names, NEW m \in Logs!Names, NEW n \in Logs!Names, Logs!Older(l, m),
             Logs!Older(m, n) PROVE Logs!Older(l, n)
  BY <1>0, <1>1 DEF Logs!Older
<1>2. ASSUME NEW m \in Logs!Names, NEW n \in Logs!Names
      PROVE  m = n \/ Logs!Older(m, n) \/ Logs!Older(n, m)
  <2>1. m = <<m[1], m[2]>> /\ n = <<n[1], n[2]>>
    BY <1>0
  <2>2. (m[1] = n[1] /\ m[2] = n[2]) \/ Logs!Older(m, n) \/ Logs!Older(n, m)
    BY <1>0 DEF Logs!Older
  <2>3. CASE m[1] = n[1] /\ m[2] = n[2]
    BY <2>1, <2>3
  <2> QED
    BY <2>2, <2>3
<1>3. ASSUME NEW m \in Logs!Names, NEW n \in Logs!Names, Logs!Older(m, n)
      PROVE  m # n /\ ~Logs!Older(n, m)
  BY <1>0, <1>3 DEF Logs!Older
<1> QED
  BY <1>1, <1>2, <1>3

LEMMA NewestExists ==
  ASSUME NEW T, T \subseteq Logs!Names, T # {}
  PROVE  \E n \in T : \A m \in T : m = n \/ Logs!Older(m, n)
<1> DEFINE F == {U \in SUBSET Logs!Names : U # {}
           => \E n \in U : \A m \in U : m = n \/ Logs!Older(m, n)}
<1>1. {} \in F
  OBVIOUS
<1>2. ASSUME NEW U \in F, U \subseteq T, NEW x \in T \ U PROVE U \cup {x} \in F
  <2>1. SUFFICES \E n \in U \cup {x} : \A m \in U \cup {x} : m = n \/ Logs!Older(m, n)
    OBVIOUS
  <2>2. CASE U = {}
    BY <2>2
  <2>3. CASE U # {}
    <3>1. PICK n \in U : \A m \in U : m = n \/ Logs!Older(m, n)
      BY <2>3
    <3>2. n \in Logs!Names /\ x \in Logs!Names /\ \A m \in U : m \in Logs!Names
      OBVIOUS
    <3>3. CASE Logs!Older(n, x)
      <4>1. \A m \in U : Logs!Older(m, x)
        BY <3>1, <3>2, <3>3, OlderOrders
      <4> QED
        BY <4>1
    <3>4. CASE ~Logs!Older(n, x)
      <4>1. Logs!Older(x, n)
        BY <3>2, <3>4, OlderOrders
      <4> QED
        BY <3>1, <4>1
    <3> QED
      BY <3>3, <3>4
  <2> QED
    BY <2>2, <2>3
<1>3. IsFiniteSet(T)
  BY NamesFinite, FS_Subset
<1>4. T \in F
  <2> HIDE DEF F
  <2> QED
    BY <1>1, <1>2, <1>3, FiniteInduction
<1> QED
  BY <1>4

\* An append goes to the newest file, which may be a new one of today.
LEMMA SegmentIsNewest ==
  ASSUME LogTypes, FilesInv, NEW lines
  PROVE  /\ Logs!Segment(lines) \in Nat \X Nat /\ Logs!Segment(lines)[1] = day
         /\ \A n \in DOMAIN logFiles : n = Logs!Segment(lines) \/ Logs!Older(n, Logs!Segment(lines))
         /\ \/ Logs!Segment(lines) \in DOMAIN logFiles \/ Logs!Segment(lines)[2] = 0
            \/ lines # <<>> /\ \E n \in DOMAIN logFiles : Logs!Segment(lines)[2] = n[2] + 1
<1> DEFINE today == {n \in DOMAIN logFiles : n[1] = day}
<1>0. /\ day \in Nat /\ DOMAIN logFiles \subseteq Logs!Names /\ \A n \in DOMAIN logFiles :
          n[1] <= day
      /\ \A n \in DOMAIN logFiles : n[1] \in Nat /\ n[2] \in Nat /\ n = <<n[1], n[2]>>
  BY NameNumbers, LogBounds DEF LogTypes, FilesInv
<1>1. CASE today = {}
  <2>1. Logs!Segment(lines) = <<day, 0>>
    BY <1>1 DEF Logs!Segment
  <2>2. \A n \in DOMAIN logFiles : Logs!Older(n, <<day, 0>>)
    <3>1. \A n \in DOMAIN logFiles : n[1] # day
      BY <1>1
    <3> QED
      BY <1>0, <3>1 DEF Logs!Older
  <2> QED
    BY <1>0, <2>1, <2>2
<1>2. CASE today # {}
  <2>1. PICK newest \in today : newest = CHOOSE n \in today : \A m \in today :
             m = n \/ Logs!Older(m, n)
    <3>1. \E n \in today : \A m \in today : m = n \/ Logs!Older(m, n)
      BY <1>0, <1>2, NewestExists
    <3> QED
      BY <3>1
  <2>2. \A m \in today : m = newest \/ Logs!Older(m, newest)
    <3>1. \E n \in today : \A m \in today : m = n \/ Logs!Older(m, n)
      BY <1>0, <1>2, NewestExists
    <3> QED
      BY <2>1, <3>1
  <2>3. PICK last : last = <<day, newest[2] + 1>>
    OBVIOUS
  <2>4. \/ Logs!Segment(lines) = newest
        \/ lines # <<>> /\ Logs!Segment(lines) = last
    BY <1>2, <2>1, <2>3 DEF Logs!Segment
  <2>5. /\ newest \in DOMAIN logFiles /\ newest[1] = day /\ newest[2] \in Nat
            /\ newest = <<day, newest[2]>>
    BY <1>0, <2>1
  <2>6. \A n \in DOMAIN logFiles : n = newest \/ Logs!Older(n, newest)
    <3>1. ASSUME NEW n \in DOMAIN logFiles, n[1] # day PROVE Logs!Older(n, newest)
      BY <1>0, <2>5, <3>1 DEF Logs!Older
    <3> QED
      BY <2>2, <3>1
  <2>7. last \in Nat \X Nat /\ last[1] = day /\ last[2] = newest[2] + 1
    BY <1>0, <2>3, <2>5
  <2>8. \A n \in DOMAIN logFiles : Logs!Older(n, last)
    <3>1. ASSUME NEW n \in DOMAIN logFiles PROVE Logs!Older(n, last)
      <4>1. n[1] \in Nat /\ n[2] \in Nat
        BY <1>0
      <4>2. CASE n = newest
        BY <2>5, <2>7, <4>2 DEF Logs!Older
      <4>3. CASE Logs!Older(n, newest)
        BY <2>5, <2>7, <4>1, <4>3 DEF Logs!Older
      <4> QED
        BY <2>6, <4>2, <4>3
    <3> QED
      BY <3>1
  <2>9. newest \in Nat \X Nat
    BY <1>0, <2>5
  <2>10. CASE Logs!Segment(lines) = newest
    BY <2>5, <2>6, <2>9, <2>10
  <2>11. CASE lines # <<>> /\ Logs!Segment(lines) = last
    BY <2>5, <2>7, <2>8, <2>11
  <2> QED
    BY <2>4, <2>10, <2>11
<1> QED
  BY <1>1, <1>2

-----------------------------------------------------------------------------
(* What pruning leaves *)

LEMMA PolicyNumbers ==
  ASSUME LogTypes, NEW p \in Policies
  PROVE  p.days \in Nat \ {0} /\ p.files \in Nat /\ p.lines \in Nat /\ day \in Nat
BY RecordAssumption DEF LogTypes

\* Whatever is pruned, the newest file of today stays.
LEMMA NewestIsRetained ==
  ASSUME LogTypes, FilesInv, NEW p \in Policies, NEW last,
         last \in DOMAIN logFiles => \A n \in DOMAIN logFiles : n = last \/ Logs!Older(n, last)
  PROVE  /\ Logs!Retained(DOMAIN logFiles, last, p, day) \subseteq DOMAIN logFiles
         /\ \A n \in DOMAIN logFiles : n[1] = day =>
              \E m \in Logs!Retained(DOMAIN logFiles, last, p, day) :
                  m[1] = day /\ (m = n \/ Logs!Older(n, m))
<1>0. /\ day \in Nat /\ DOMAIN logFiles \subseteq Logs!Names /\ IsFiniteSet(DOMAIN logFiles)
      /\ p.days \in Nat \ {0} /\ p.files \in Nat
      /\ \A n \in DOMAIN logFiles : n[1] \in Nat /\ n[2] \in Nat /\ n[1] <= day
  BY NameNumbers, FilesFinite, PolicyNumbers DEF LogTypes, FilesInv
<1>1. PICK K : K = {n \in DOMAIN logFiles : n[1] >= day + 1 - p.days}
  OBVIOUS
<1>2. PICK x : x = IF p.files = 0 THEN 0 ELSE Cardinality(K) - p.files
  OBVIOUS
<1>3. PICK R : R = K \ {last}
  OBVIOUS
<1>4. Logs!Retained(DOMAIN logFiles, last, p, day) = K \ {n \in R :
        Cardinality({m \in R : Logs!Older(m, n)}) < x}
  BY <1>1, <1>2, <1>3, LogsCount DEF Logs!Retained
<1>5. SUFFICES ASSUME NEW n \in DOMAIN logFiles, n[1] = day
               PROVE  \E m \in K \ {q \in R : Cardinality({l \in R : Logs!Older(l, q)}) < x} :
                        m[1] = day /\ (m = n \/ Logs!Older(n, m))
  BY <1>1, <1>4
<1>6. PICK m \in K : \A q \in K : q = m \/ Logs!Older(q, m)
  <2>1. n \in K
    BY <1>0, <1>1, <1>5
  <2> QED
    BY <1>0, <1>1, <2>1, NewestExists
<1>7. n \in K /\ (m = n \/ Logs!Older(n, m))
  <2>1. n \in K
    BY <1>0, <1>1, <1>5
  <2> QED
    BY <1>6, <2>1
<1>8. m[1] = day
  BY <1>0, <1>1, <1>5, <1>7 DEF Logs!Older
<1>9. m \notin R \/ ~(Cardinality({l \in R : Logs!Older(l, m)}) < x)
  <2>1. SUFFICES ASSUME m \in R PROVE ~(Cardinality({l \in R : Logs!Older(l, m)}) < x)
    OBVIOUS
  <2>2. last \notin K
    <3>1. SUFFICES ASSUME last \in K PROVE FALSE
      OBVIOUS
    <3>2. m = last \/ Logs!Older(m, last)
      BY <1>1, <3>1
    <3>3. m # last
      BY <1>3, <2>1
    <3>4. Logs!Older(last, m)
      BY <1>6, <3>1, <3>3
    <3> QED
      BY <1>0, <1>1, <3>1, <3>2, <3>3, <3>4, OlderOrders
  <2>3. R = K
    BY <1>3, <2>2
  <2>4. {l \in R : Logs!Older(l, m)} = K \ {m}
    <3>1. \A l \in K : Logs!Older(l, m) => l # m
      BY <1>0, <1>1, OlderOrders
    <3> QED
      BY <1>6, <2>3, <3>1
  <2>5. IsFiniteSet(K) /\ Cardinality(K) \in Nat
    BY <1>0, <1>1, FS_Subset, FS_CardinalityType
  <2>6. Cardinality(K \ {m}) = Cardinality(K) - 1
    BY <2>5, FS_RemoveElement
  <2>7. x <= Cardinality(K) - 1
    <3>1. K # {}
      OBVIOUS
    <3>2. Cardinality(K) >= 1
      BY <2>5, <3>1, FS_EmptySet
    <3> QED
      BY <1>0, <1>2, <2>5, <3>2
  <2>8. ~(Cardinality(K) - 1 < x)
    <3>1. x \in Int
      BY <1>0, <1>2, <2>5
    <3> QED
      BY <2>5, <2>7, <3>1
  <2> QED
    BY <2>4, <2>6, <2>8
<1> QED
  BY <1>6, <1>7, <1>8, <1>9

\* What is pruned last is kept.
LEMMA LastIsRetained ==
  ASSUME NEW names, NEW last \in names, NEW p, NEW today, last[1] >= today + 1 - p.days
  PROVE  Logs!Retained(names, last, p, today) \subseteq names
         /\ last \in Logs!Retained(names, last, p, today)
BY DEF Logs!Retained

\* The files after lines were appended to name, of which names are kept.
Grown(name, names, lines) ==
  /\ names \subseteq DOMAIN logFiles \cup {name} /\ name \in names
  /\ logFiles' = [n \in names |-> IF n # name THEN logFiles[n]
                                  ELSE (IF name \in DOMAIN logFiles THEN logFiles[name]
                                      ELSE <<>>) \o lines]
  /\ DOMAIN logFiles' = names
  /\ generations' = [n \in names \cap DOMAIN generations |-> generations[n]]
  /\ logFile' = name

\* What append does.
LEMMA AppendGrows ==
  ASSUME LogTypes, FilesInv, NEW lines, Logs!append(lines)
  PROVE  \E names : Grown(Logs!Segment(lines), names, lines)
<1>1. PICK name : name = Logs!Segment(lines)
  OBVIOUS
<1>2. PICK old : old = IF name \in DOMAIN logFiles THEN logFiles[name] ELSE <<>>
  OBVIOUS
<1>3. PICK fs : fs = [n \in DOMAIN logFiles \cup {name} |-> IF n = name THEN old \o lines
           ELSE logFiles[n]]
  OBVIOUS
<1>4. logFile' = name /\ Logs!Prune(fs, name, policy, day)
  BY <1>1, <1>2, <1>3 DEF Logs!append
<1>5. PICK names : names = Logs!Retained(DOMAIN fs, name, policy, day)
  OBVIOUS
<1>6. /\ logFiles' = [n \in names |-> fs[n]]
      /\ generations' = [n \in names \cap DOMAIN generations |-> generations[n]]
  BY <1>4, <1>5 DEF Logs!Prune, Logs!Restrict
<1>7. DOMAIN fs = DOMAIN logFiles \cup {name}
  BY <1>3
<1>8. names \subseteq DOMAIN fs /\ name \in names
  <2>1. name[1] >= day + 1 - policy.days
    <3>1. policy \in Policies
      BY DEF LogTypes
    <3>2. policy.days \in Nat \ {0} /\ day \in Nat
      BY <3>1, PolicyNumbers
    <3>3. name[1] = day
      BY <1>1, SegmentIsNewest
    <3> QED
      BY <3>2, <3>3
  <2> QED
    BY <1>5, <1>7, <2>1, LastIsRetained
<1>9. \A n \in names : fs[n] = IF n # name THEN logFiles[n] ELSE old \o lines
  BY <1>3, <1>7, <1>8
<1> QED
  BY <1>1, <1>2, <1>4, <1>6, <1>7, <1>8, <1>9 DEF Grown

-----------------------------------------------------------------------------
(* What appended lines and pruning do to the invariant *)

\* The newest of all files is name, a file of today.
Newest(name) == name \in Logs!Names /\ name[1] = day /\ \A n \in DOMAIN logFiles : n = name
    \/ Logs!Older(n, name)

LEMMA GrownFiles ==
  ASSUME LogTypes, NEW name, Newest(name), NEW names, NEW lines \in Seq(Seq(Pieces)),
         Grown(name, names, lines)
  PROVE  /\ logFiles' \in [DOMAIN logFiles' -> Seq(Seq(Pieces))]
             /\ DOMAIN logFiles' \subseteq Logs!Names
         /\ DOMAIN generations' \subseteq Logs!Names
             /\ generations' \in [DOMAIN generations' -> 1 .. drawn]
         /\ logFile' \in Logs!Names
         /\ \A n \in DOMAIN logFiles' : n = name \/ (n \in DOMAIN logFiles /\ Logs!Older(n, name))
<1>1. /\ names \subseteq DOMAIN logFiles \cup {name} /\ DOMAIN logFiles' = names
      /\ logFiles' = [n \in names |-> IF n # name THEN logFiles[n]
                                      ELSE (IF name \in DOMAIN logFiles THEN logFiles[name]
                                          ELSE <<>>) \o lines]
      /\ generations' = [n \in names \cap DOMAIN generations |-> generations[n]] /\ logFile' = name
  BY DEF Grown
<1>2. PICK old : old = (IF name \in DOMAIN logFiles THEN logFiles[name] ELSE <<>>)
           /\ old \in Seq(Seq(Pieces))
  <2>1. <<>> \in Seq(Seq(Pieces))
    OBVIOUS
  <2> QED
    BY <2>1 DEF LogTypes
<1>3. old \o lines \in Seq(Seq(Pieces))
  BY <1>2, ConcatProperties
<1>4. \A n \in names : logFiles'[n] \in Seq(Seq(Pieces))
  BY <1>1, <1>2, <1>3 DEF LogTypes
<1>5. logFiles' \in [DOMAIN logFiles' -> Seq(Seq(Pieces))]
  BY <1>1, <1>4
<1>6. DOMAIN logFiles' \subseteq Logs!Names /\ \A n \in DOMAIN logFiles' :
        n = name \/ (n \in DOMAIN logFiles /\ Logs!Older(n, name))
  BY <1>1 DEF LogTypes, Newest
<1>7. DOMAIN generations' \subseteq Logs!Names
        /\ generations' \in [DOMAIN generations' -> 1 .. drawn]
  BY <1>1 DEF LogTypes
<1> QED
  BY <1>1, <1>5, <1>6, <1>7 DEF Newest

LEMMA NoFileIsNone == Logs!NoFile \notin Logs!Names /\ \A today \in Nat : Logs!NoFile[1] < today
<1>1. Logs!NoFile[1] = 0 - 1
  BY DEF Logs!NoFile
<1>2. \A n \in Logs!Names : n[1] \in Nat
  BY NameNumbers, LogBounds
<1> QED
  BY <1>1, <1>2

\* A reader of a file that is gone.
Passed(name) == name[1] < day \/ \E n \in DOMAIN logFiles : n[1] = day /\ Logs!Older(name, n)

LEMMA GrownReader ==
  ASSUME LogTypes, FilesInv, ReaderInv, NEW name, Newest(name), NEW names,
         NEW lines \in Seq(Seq(Pieces)), Grown(name, names, lines),
         reader' = reader, day' = day, epoch' = epoch
  PROVE  ReaderInv'
<1> DEFINE f == reader.file
<1>1. /\ names \subseteq DOMAIN logFiles \cup {name} /\ DOMAIN logFiles' = names /\ name \in names
      /\ \A n \in names : logFiles'[n] = IF n # name THEN logFiles[n]
                                         ELSE (IF name \in DOMAIN logFiles THEN logFiles[name]
                                             ELSE <<>>) \o lines
      /\ generations' = [n \in names \cap DOMAIN generations |-> generations[n]]
  BY DEF Grown
<1>2. f \in Logs!Names \cup {Logs!NoFile} /\ DOMAIN logFiles \subseteq Logs!Names /\ day \in Nat
      /\ reader.from \in Nat /\ reader.offset \in Nat
  BY LogBounds DEF LogTypes
<1>3. ASSUME f \in DOMAIN logFiles', reader.generation = Logs!Generation(f)'
      PROVE  reader.offset <= Len(logFiles'[f])
             /\ reader.text = SubSeq(logFiles'[f], reader.from + 1, reader.offset)
  <2>1. f \in DOMAIN logFiles
    <3>1. SUFFICES ASSUME f \notin DOMAIN logFiles PROVE FALSE
      OBVIOUS
    <3>2. f = name /\ f \in Logs!Names
      BY <1>1, <1>3, <3>1 DEF Newest
    <3>3. ~(f[1] < day)
      BY <1>2, <3>2 DEF Newest
    <3>4. PICK n \in DOMAIN logFiles : Logs!Older(f, n)
      BY <3>1, <3>3 DEF ReaderInv
    <3>5. n = name \/ Logs!Older(n, name)
      BY DEF Newest
    <3> QED
      BY <1>2, <3>1, <3>2, <3>4, <3>5, OlderOrders
  <2>2. Logs!Generation(f)' = Logs!Generation(f)
    BY <1>1, <1>3 DEF Logs!Generation
  <2>3. reader.offset <= Len(logFiles[f]) /\ reader.text = SubSeq(logFiles[f], reader.from + 1,
          reader.offset)
    BY <1>3, <2>1, <2>2 DEF ReaderInv
  <2>4. CASE f # name
    BY <1>1, <1>3, <2>3, <2>4
  <2>5. CASE f = name
    <3>1. PICK s : s = logFiles[f] /\ s \in Seq(Seq(Pieces)) /\ logFiles'[f] = s \o lines
      BY <1>1, <1>3, <2>1, <2>5 DEF LogTypes
    <3>2. Len(s \o lines) = Len(s) + Len(lines) /\ Len(s) \in Nat /\ Len(lines) \in Nat
      BY <3>1, ConcatProperties
    <3>0. /\ reader.from <= reader.offset /\ reader.offset <= Len(s)
          /\ reader.from \in Nat /\ reader.offset \in Nat
      BY <1>2, <2>3, <3>1 DEF ReaderInv
    <3>3. SubSeq(s \o lines, reader.from + 1, reader.offset) = SubSeq(s, reader.from + 1,
            reader.offset)
      <4>1. CASE reader.from = reader.offset
        <5>1. SubSeq(s \o lines, reader.from + 1, reader.offset) = <<>>
                /\ SubSeq(s, reader.from + 1, reader.offset) = <<>>
          BY <1>2, <4>1, SubSeqEmpty
        <5> QED
          BY <5>1
      <4>2. CASE reader.from # reader.offset
        <5>1. reader.from + 1 \in 1 .. Len(s) /\ reader.offset \in 1 .. Len(s)
          BY <3>0, <3>2, <4>2
        <5> QED
          BY <3>1, <5>1, SubSeqOfConcat1
      <4> QED
        BY <4>1, <4>2
    <3>4. reader.offset <= Len(s \o lines)
      BY <3>0, <3>2
    <3> QED
      BY <2>3, <3>1, <3>3, <3>4
  <2> QED
    BY <2>4, <2>5
<1>4. ASSUME f \notin DOMAIN logFiles'
      PROVE  f[1] < day \/ \E n \in DOMAIN logFiles' : n[1] = day /\ Logs!Older(f, n)
  <2>1. name \in DOMAIN logFiles' /\ name[1] = day /\ f # name
    BY <1>1, <1>4 DEF Newest
  <2>2. CASE f \in DOMAIN logFiles
    <3>1. Logs!Older(f, name)
      BY <2>1, <2>2 DEF Newest
    <3> QED
      BY <2>1, <3>1
  <2>3. CASE f \notin DOMAIN logFiles /\ ~(f[1] < day)
    <3>1. PICK n \in DOMAIN logFiles : n[1] = day /\ Logs!Older(f, n)
      BY <2>3 DEF ReaderInv
    <3>2. n = name \/ Logs!Older(n, name)
      BY DEF Newest
    <3>3. f \in Logs!Names
      BY <1>2, <2>3, NoFileIsNone
    <3>4. n \in Logs!Names /\ name \in Logs!Names
      BY <1>2 DEF Newest
    <3>5. Logs!Older(f, name)
      BY <3>1, <3>2, <3>3, <3>4, OlderOrders
    <3> QED
      BY <2>1, <3>5
  <2> QED
    BY <2>2, <2>3
<1> QED
  BY <1>3, <1>4 DEF ReaderInv

\* What is left after pruning covers today as well as before.
KeepsToday(names) ==
  /\ names \subseteq DOMAIN logFiles
  /\ \A n \in DOMAIN logFiles : n[1] = day => \E m \in names : m[1] = day
      /\ (m = n \/ Logs!Older(n, m))

LEMMA PrunedReader ==
  ASSUME LogTypes, FilesInv, ReaderInv, NEW names, KeepsToday(names),
         logFiles' = [n \in names |-> logFiles[n]], reader' = reader, day' = day,
         reader.file \in names /\ reader.generation = Logs!Generation(reader.file)'
           => reader.generation = Logs!Generation(reader.file)
  PROVE  ReaderInv'
<1> DEFINE f == reader.file
<1>1. names \subseteq DOMAIN logFiles /\ DOMAIN logFiles' = names /\ \A n \in names :
        logFiles'[n] = logFiles[n]
  BY DEF KeepsToday
<1>2. f \in Logs!Names \cup {Logs!NoFile} /\ DOMAIN logFiles \subseteq Logs!Names /\ day \in Nat
  BY LogBounds DEF LogTypes
<1>3. ASSUME f \in DOMAIN logFiles', reader.generation = Logs!Generation(f)'
      PROVE  reader.offset <= Len(logFiles'[f])
             /\ reader.text = SubSeq(logFiles'[f], reader.from + 1, reader.offset)
  BY <1>1, <1>3 DEF ReaderInv
<1>4. ASSUME f \notin DOMAIN logFiles'
      PROVE  f[1] < day \/ \E n \in DOMAIN logFiles' : n[1] = day /\ Logs!Older(f, n)
  <2>1. CASE f \in DOMAIN logFiles /\ f[1] = day
    <3>1. PICK m \in names : m[1] = day /\ (m = f \/ Logs!Older(f, m))
      BY <2>1 DEF KeepsToday
    <3> QED
      BY <1>1, <1>4, <3>1
  <2>2. CASE f \in DOMAIN logFiles /\ f[1] # day
    <3>1. f[1] \in Int /\ f[1] <= day
      BY <1>2, <2>2, NameNumbers, LogBounds DEF FilesInv
    <3> QED
      BY <1>2, <2>2, <3>1
  <2>3. CASE f \notin DOMAIN logFiles /\ ~(f[1] < day)
    <3>1. PICK n \in DOMAIN logFiles : n[1] = day /\ Logs!Older(f, n)
      BY <2>3 DEF ReaderInv
    <3>2. PICK m \in names : m[1] = day /\ (m = n \/ Logs!Older(n, m))
      BY <3>1 DEF KeepsToday
    <3>3. f \in Logs!Names /\ n \in Logs!Names /\ m \in Logs!Names
      BY <1>1, <1>2, <2>3, NoFileIsNone
    <3>4. Logs!Older(f, m)
      BY <3>1, <3>2, <3>3, OlderOrders
    <3> QED
      BY <1>1, <3>2, <3>4
  <2> QED
    BY <2>1, <2>2, <2>3
<1> QED
  BY <1>3, <1>4 DEF ReaderInv

-----------------------------------------------------------------------------
(* What appended lines do to the order *)

\* A line that may be appended.
Fit(line) == line \in Seq(Pieces) /\ Alike(line) /\ Rising(line) /\ Below(logFiles, line)

\* A line of the files afterwards was there before, or is the one appended.
LEMMA GrownLines ==
  ASSUME LogTypes, NEW name, NEW names, NEW lines \in Seq(Seq(Pieces)), Len(lines) <= 1,
         Grown(name, names, lines), NEW n \in DOMAIN logFiles', NEW i \in DOMAIN logFiles'[n]
  PROVE  /\ i \in Nat
         /\ \/ n \in DOMAIN logFiles /\ i \in DOMAIN logFiles[n] /\ logFiles'[n][i] = logFiles[n][i]
            \/ /\ n = name /\ 1 \in DOMAIN lines /\ logFiles'[n][i] = lines[1]
               /\ i = IF n \in DOMAIN logFiles THEN Len(logFiles[n]) + 1 ELSE 1
<1>1. /\ names \subseteq DOMAIN logFiles \cup {name} /\ DOMAIN logFiles' = names
      /\ \A m \in names : logFiles'[m] = IF m # name THEN logFiles[m]
                                         ELSE (IF name \in DOMAIN logFiles THEN logFiles[name]
                                             ELSE <<>>) \o lines
  BY DEF Grown
<1>2. CASE n # name
  <2>1. n \in DOMAIN logFiles /\ logFiles'[n] = logFiles[n]
    BY <1>1, <1>2
  <2>2. logFiles[n] \in Seq(Seq(Pieces))
    BY <2>1 DEF LogTypes
  <2> QED
    BY <2>1, <2>2
<1>3. CASE n = name
  <2>1. PICK s : /\ s = (IF name \in DOMAIN logFiles THEN logFiles[name] ELSE <<>>)
                     /\ s \in Seq(Seq(Pieces))
    <3>1. <<>> \in Seq(Seq(Pieces))
      OBVIOUS
    <3> QED
      BY <3>1 DEF LogTypes
  <2>2. logFiles'[n] = s \o lines
    BY <1>1, <1>3, <2>1
  <2>3. /\ s \o lines \in Seq(Seq(Pieces)) /\ Len(s \o lines) = Len(s) + Len(lines)
        /\ \A j \in 1 .. Len(s) + Len(lines) : (s \o lines)[j] = IF j <= Len(s) THEN s[j]
            ELSE lines[j - Len(s)]
    BY <2>1, ConcatProperties
  <2>4. Len(s) \in Nat /\ Len(lines) \in Nat /\ DOMAIN s = 1 .. Len(s)
          /\ DOMAIN lines = 1 .. Len(lines)
    BY <2>1
  <2>5. DOMAIN logFiles'[n] = 1 .. Len(s) + Len(lines)
    BY <2>2, <2>3
  <2>6. i \in 1 .. Len(s) + Len(lines) /\ i \in Nat
    BY <2>4, <2>5
  <2>7. CASE i <= Len(s)
    <3>1. i \in DOMAIN s /\ logFiles'[n][i] = s[i]
      BY <2>2, <2>3, <2>4, <2>6, <2>7
    <3>2. name \in DOMAIN logFiles /\ s = logFiles[name]
      BY <2>1, <3>1
    <3> QED
      BY <1>3, <2>6, <3>1, <3>2
  <2>8. CASE ~(i <= Len(s))
    <3>1. i = Len(s) + 1 /\ Len(lines) = 1
      BY <2>4, <2>6, <2>8
    <3>2. i - Len(s) = 1
      BY <2>4, <3>1
    <3>3. logFiles'[n][i] = lines[1] /\ 1 \in DOMAIN lines
      BY <2>2, <2>3, <2>4, <2>6, <2>8, <3>1, <3>2
    <3>4. i = IF n \in DOMAIN logFiles THEN Len(logFiles[n]) + 1 ELSE 1
      BY <1>3, <2>1, <2>4, <3>1
    <3> QED
      BY <1>3, <2>6, <3>3, <3>4
  <2> QED
    BY <2>7, <2>8
<1> QED
  BY <1>2, <1>3

LEMMA GrownCatches ==
  ASSUME LogTypes, NEW name, NEW names, NEW lines \in Seq(Seq(Pieces)), Len(lines) <= 1,
         Grown(name, names, lines), NEW p, Caught(logFiles', p)
  PROVE  Caught(logFiles, p) \/ (1 \in DOMAIN lines /\ \E j \in DOMAIN lines[1] : p = lines[1][j])
<1>1. PICK n \in DOMAIN logFiles' : \E i \in DOMAIN logFiles'[n] : \E j \in DOMAIN logFiles'[n][i] :
           p = logFiles'[n][i][j]
  BY DEF Caught
<1>3. PICK i \in DOMAIN logFiles'[n] : \E j \in DOMAIN logFiles'[n][i] : p = logFiles'[n][i][j]
  BY <1>1
<1>2. \/ n \in DOMAIN logFiles /\ i \in DOMAIN logFiles[n] /\ logFiles'[n][i] = logFiles[n][i]
      \/ n = name /\ 1 \in DOMAIN lines /\ logFiles'[n][i] = lines[1]
  BY GrownLines
<1> QED
  BY <1>2, <1>3 DEF Caught

LEMMA GrownOrder ==
  ASSUME LogTypes, Tidy(logFiles), NEW name, Newest(name), NEW names,
         NEW lines \in Seq(Seq(Pieces)), Len(lines) <= 1, \A i \in DOMAIN lines : Fit(lines[i]),
         Grown(name, names, lines)
  PROVE  Tidy(logFiles')
<1>0. DOMAIN logFiles \subseteq Logs!Names /\ name \in Logs!Names
  BY DEF LogTypes, Newest
<1>1. ASSUME NEW n \in DOMAIN logFiles', NEW i \in DOMAIN logFiles'[n] PROVE Alike(logFiles'[n][i])
  <2>1. \/ n \in DOMAIN logFiles /\ i \in DOMAIN logFiles[n] /\ logFiles'[n][i] = logFiles[n][i]
        \/ 1 \in DOMAIN lines /\ logFiles'[n][i] = lines[1]
    BY GrownLines
  <2> QED
    BY <2>1 DEF Tidy, Fit
<1>2. ASSUME NEW m \in DOMAIN logFiles', NEW n \in DOMAIN logFiles',
             NEW i \in DOMAIN logFiles'[m], NEW k \in DOMAIN logFiles'[n],
             NEW j \in DOMAIN logFiles'[m][i], NEW l \in DOMAIN logFiles'[n][k],
             logFiles'[m][i][j].by = logFiles'[n][k][l].by, Logs!Precedes(m, i, j, n, k, l)
      PROVE  logFiles'[m][i][j].n < logFiles'[n][k][l].n
  <2>1. /\ i \in Nat
        /\ \/ m \in DOMAIN logFiles /\ i \in DOMAIN logFiles[m] /\ logFiles'[m][i] = logFiles[m][i]
           \/ /\ m = name /\ 1 \in DOMAIN lines /\ logFiles'[m][i] = lines[1]
              /\ i = IF m \in DOMAIN logFiles THEN Len(logFiles[m]) + 1 ELSE 1
    BY GrownLines
  <2>2. /\ k \in Nat
        /\ \/ n \in DOMAIN logFiles /\ k \in DOMAIN logFiles[n] /\ logFiles'[n][k] = logFiles[n][k]
           \/ /\ n = name /\ 1 \in DOMAIN lines /\ logFiles'[n][k] = lines[1]
              /\ k = IF n \in DOMAIN logFiles THEN Len(logFiles[n]) + 1 ELSE 1
    BY GrownLines
  <2>3. CASE /\ m \in DOMAIN logFiles /\ i \in DOMAIN logFiles[m]
                 /\ logFiles'[m][i] = logFiles[m][i]
             /\ n \in DOMAIN logFiles /\ k \in DOMAIN logFiles[n]
                 /\ logFiles'[n][k] = logFiles[n][k]
    BY <1>2, <2>3 DEF Tidy, InOrder
  <2>4. CASE /\ m \in DOMAIN logFiles /\ i \in DOMAIN logFiles[m]
                 /\ logFiles'[m][i] = logFiles[m][i]
             /\ 1 \in DOMAIN lines /\ logFiles'[n][k] = lines[1]
    <3>1. PICK p : p = logFiles[m][i][j]
      OBVIOUS
    <3>2. logFiles[m] \in Seq(Seq(Pieces))
      BY <2>4 DEF LogTypes
    <3>3. logFiles[m][i] \in Seq(Pieces)
      BY <2>4, <3>2
    <3>4. p \in Pieces
      BY <2>4, <3>1, <3>3
    <3>5. Caught(logFiles, p)
      BY <2>4, <3>1 DEF Caught
    <3>6. Below(logFiles, lines[1])
      BY <2>4 DEF Fit
    <3>7. p.by = lines[1][l].by /\ l \in DOMAIN lines[1]
      BY <1>2, <2>4, <3>1
    <3>8. p.n < lines[1][l].n
      BY <3>4, <3>5, <3>6, <3>7 DEF Below
    <3> QED
      BY <2>4, <3>1, <3>8
  <2>5. CASE /\ m = name /\ i = (IF m \in DOMAIN logFiles THEN Len(logFiles[m]) + 1 ELSE 1)
             /\ n \in DOMAIN logFiles /\ k \in DOMAIN logFiles[n]
    <3>1. ~Logs!Older(m, n)
      <4>1. n = m \/ Logs!Older(n, m)
        BY <2>5 DEF Newest
      <4>2. m \in Logs!Names /\ n \in Logs!Names
        BY <1>0, <2>5
      <4> QED
        BY <4>1, <4>2, OlderOrders
    <3>2. m = n /\ (i < k \/ i = k)
      BY <1>2, <3>1 DEF Logs!Precedes
    <3>3. k < i
      <4>1. logFiles[n] \in Seq(Seq(Pieces))
        BY <2>5 DEF LogTypes
      <4>2. k \in 1 .. Len(logFiles[n]) /\ Len(logFiles[n]) \in Nat
        BY <2>5, <4>1
      <4> QED
        BY <2>5, <3>2, <4>2
    <3> QED
      BY <2>1, <2>2, <3>2, <3>3
  <2>6. CASE /\ m = name /\ n = name /\ 1 \in DOMAIN lines
             /\ logFiles'[m][i] = lines[1] /\ logFiles'[n][k] = lines[1]
             /\ i = (IF m \in DOMAIN logFiles THEN Len(logFiles[m]) + 1 ELSE 1)
             /\ k = (IF n \in DOMAIN logFiles THEN Len(logFiles[n]) + 1 ELSE 1)
    <3>0. i = k
      BY <2>6
    <3>1. ~Logs!Older(m, n)
      BY <1>0, <2>6, OlderOrders
    <3>2. j < l
      BY <1>2, <2>1, <3>0, <3>1 DEF Logs!Precedes
    <3>3. Rising(lines[1])
      BY <2>6 DEF Fit
    <3> QED
      BY <2>6, <3>2, <3>3 DEF Rising
  <2> QED
    BY <2>1, <2>2, <2>3, <2>4, <2>5, <2>6
<1> QED
  BY <1>1, <1>2 DEF Tidy, InOrder

-----------------------------------------------------------------------------
(* What a writer does: the line so far is kept, or appended *)

Cut(w, line, done) ==
  /\ unwritten' = [unwritten EXCEPT ![w] = IF done THEN <<>> ELSE line]
  /\ IF done THEN Logs!append(<<Logs!Line(line)>>) ELSE UNCHANGED <<logFiles, logFile, generations>>

\* The pieces that lines may have, and that none is of a file too many.
Cuttable(w, line, done) ==
  /\ line \in Seq(Pieces) /\ Alike(line) /\ Rising(line) /\ Below(logFiles, line)
  /\ \A i \in DOMAIN line : line[i].by = w
  /\ done => \A n \in DOMAIN logFiles : n[2] + 1 <= MaxPieces

\* What pieces there are afterwards, and how many files of a day.
Spread(line, done) ==
  /\ \A p \in Pieces : Caught(logFiles', p) => Caught(logFiles, p) \/ \E j \in DOMAIN line :
      p = line[j]
  /\ \A n \in DOMAIN logFiles' :
       n \in DOMAIN logFiles \/ n[2] = 0 \/ (done /\ \E m \in DOMAIN logFiles : n[2] = m[2] + 1)

\* The types that a writer can change.
FileTypes ==
  /\ DOMAIN logFiles \subseteq Logs!Names /\ logFiles \in [DOMAIN logFiles -> Seq(Seq(Pieces))]
  /\ logFile \in Logs!Names \cup {Logs!NoFile}
  /\ DOMAIN generations \subseteq Logs!Names /\ generations \in [DOMAIN generations -> 1 .. drawn]

LEMMA AppendKeeps ==
  ASSUME LogTypes, FilesInv, ReaderInv, Tidy(logFiles),
         NEW lines \in Seq(Seq(Pieces)), Len(lines) <= 1, \A i \in DOMAIN lines : Fit(lines[i]),
         lines # <<>> => \A n \in DOMAIN logFiles : n[2] + 1 <= MaxPieces,
         Logs!append(lines), UNCHANGED <<day, epoch, drawn, reader>>
  PROVE  /\ FileTypes' /\ FilesInv' /\ ReaderInv' /\ Tidy(logFiles')
         /\ \A p \in Pieces : Caught(logFiles', p) =>
              Caught(logFiles, p) \/ (1 \in DOMAIN lines
                  /\ \E j \in DOMAIN lines[1] : p = lines[1][j])
         /\ \A n \in DOMAIN logFiles' :
              n \in DOMAIN logFiles \/ n[2] = 0
              \/ (lines # <<>> /\ \E m \in DOMAIN logFiles : n[2] = m[2] + 1)
<1>1. PICK name : name = Logs!Segment(lines)
  OBVIOUS
<1>2. /\ name \in Nat \X Nat /\ name[1] = day
      /\ \A n \in DOMAIN logFiles : n = name \/ Logs!Older(n, name)
      /\ \/ name \in DOMAIN logFiles \/ name[2] = 0
         \/ lines # <<>> /\ \E n \in DOMAIN logFiles : name[2] = n[2] + 1
  BY <1>1, SegmentIsNewest
<1>3. name \in Logs!Names
  <2>1. name = <<day, name[2]>> /\ name[2] \in Nat /\ day \in 0 .. MaxDay
    BY <1>2 DEF LogTypes
  <2>2. CASE name \in DOMAIN logFiles
    BY <2>2 DEF LogTypes
  <2>3. CASE name[2] = 0
    <3>1. 0 \in 0 .. MaxPieces
      BY LogBounds
    <3> QED
      BY <2>1, <2>3, <3>1 DEF Logs!Names
  <2>4. CASE lines # <<>> /\ \E n \in DOMAIN logFiles : name[2] = n[2] + 1
    <3>1. name[2] <= MaxPieces
      BY <2>4
    <3>2. name[2] \in 0 .. MaxPieces
      BY <2>1, <3>1, LogBounds
    <3> QED
      BY <2>1, <3>2 DEF Logs!Names
  <2> QED
    BY <1>2, <2>2, <2>3, <2>4
<1>4. Newest(name)
  BY <1>2, <1>3 DEF Newest
<1>5. PICK names : Grown(name, names, lines)
  BY <1>1, AppendGrows
<1>6. /\ logFiles' \in [DOMAIN logFiles' -> Seq(Seq(Pieces))]
          /\ DOMAIN logFiles' \subseteq Logs!Names
      /\ DOMAIN generations' \subseteq Logs!Names
          /\ generations' \in [DOMAIN generations' -> 1 .. drawn]
      /\ logFile' \in Logs!Names
      /\ \A n \in DOMAIN logFiles' : n = name \/ (n \in DOMAIN logFiles /\ Logs!Older(n, name))
  BY <1>4, <1>5, GrownFiles
<1>7. FileTypes'
  BY <1>6 DEF FileTypes
<1>8. FilesInv'
  <2>1. logFile' = name
    BY <1>5 DEF Grown
  <2>2. \A n \in DOMAIN logFiles' : n[1] <= day'
    <3>1. day \in Nat /\ day' = day /\ \A n \in DOMAIN logFiles : n[1] <= day
      BY LogBounds DEF FilesInv, LogTypes
    <3> QED
      BY <1>2, <1>6, <3>1
  <2> QED
    BY <1>6, <2>1, <2>2 DEF FilesInv
<1>9. ReaderInv'
  BY <1>4, <1>5, GrownReader
<1>10. Tidy(logFiles')
  BY <1>4, <1>5, GrownOrder
<1>11. \A p \in Pieces : Caught(logFiles', p) =>
         Caught(logFiles, p) \/ (1 \in DOMAIN lines /\ \E j \in DOMAIN lines[1] : p = lines[1][j])
  BY <1>5, GrownCatches
<1> QED
  BY <1>2, <1>6, <1>7, <1>8, <1>9, <1>10, <1>11

LEMMA CutKeeps ==
  ASSUME LogTypes, FilesInv, ReaderInv, Tidy(logFiles),
         NEW w \in Logs!Writers, NEW line, NEW done \in BOOLEAN, Cuttable(w, line, done),
             Cut(w, line, done),
         UNCHANGED <<day, epoch, drawn, reader>>
  PROVE  /\ FileTypes' /\ FilesInv' /\ ReaderInv' /\ Tidy(logFiles') /\ Spread(line, done)
         /\ unwritten' \in [Logs!Writers -> Seq(Pieces)]
<1>1. unwritten' \in [Logs!Writers -> Seq(Pieces)]
  <2>1. <<>> \in Seq(Pieces)
    OBVIOUS
  <2>2. (IF done THEN <<>> ELSE line) \in Seq(Pieces) /\ unwritten \in [Logs!Writers -> Seq(Pieces)]
    BY <2>1 DEF Cuttable, LogTypes
  <2> QED
    BY <2>2 DEF Cut
<1>2. CASE ~done
  <2>1. UNCHANGED <<logFiles, logFile, generations, day, epoch, drawn, reader>>
    BY <1>2 DEF Cut
  <2>2. FileTypes'
    BY <2>1 DEF LogTypes, FileTypes
  <2>3. FilesInv' /\ ReaderInv'
    BY <2>1 DEF FilesInv, ReaderInv, Logs!Generation
  <2>4. Tidy(logFiles') /\ Spread(line, done)
    BY <2>1 DEF Spread
  <2> QED
    BY <1>1, <2>2, <2>3, <2>4
<1>3. CASE done
  <2>1. PICK l : l = Logs!Line(line)
    OBVIOUS
  <2>2. l \in Seq(Pieces) /\ (l = <<>> \/ l = line)
    <3>1. <<>> \in Seq(Pieces)
      OBVIOUS
    <3> QED
      BY <2>1, <3>1 DEF Logs!Line, Cuttable
  <2>3. Fit(l)
    <3>1. Fit(<<>>)
      BY DEF Fit, Alike, Rising, Below
    <3>2. Fit(line)
      BY DEF Fit, Cuttable
    <3> QED
      BY <2>2, <3>1, <3>2
  <2>4. PICK lines : lines = <<l>>
    OBVIOUS
  <2>5. /\ lines \in Seq(Seq(Pieces)) /\ Len(lines) <= 1 /\ lines # <<>> /\ lines[1] = l
        /\ \A i \in DOMAIN lines : Fit(lines[i])
    BY <2>2, <2>3, <2>4
  <2>6. Logs!append(lines)
    BY <1>3, <2>1, <2>4 DEF Cut
  <2>7. \A n \in DOMAIN logFiles : n[2] + 1 <= MaxPieces
    BY <1>3 DEF Cuttable
  <2>8. /\ FileTypes' /\ FilesInv' /\ ReaderInv' /\ Tidy(logFiles')
        /\ \A p \in Pieces : Caught(logFiles', p) =>
             Caught(logFiles, p) \/ (1 \in DOMAIN lines
                 /\ \E j \in DOMAIN lines[1] : p = lines[1][j])
        /\ \A n \in DOMAIN logFiles' :
             n \in DOMAIN logFiles \/ n[2] = 0
             \/ (lines # <<>> /\ \E m \in DOMAIN logFiles : n[2] = m[2] + 1)
    BY <2>5, <2>6, <2>7, AppendKeeps
  <2>9. \A j \in DOMAIN lines[1] : l = line /\ lines[1][j] = line[j] /\ j \in DOMAIN line
    BY <2>2, <2>5
  <2>10. Spread(line, done)
    BY <1>3, <2>8, <2>9 DEF Spread
  <2> QED
    BY <1>1, <2>8, <2>10
<1> QED
  BY <1>2, <1>3

\* A piece that is newer than the line and than what is caught may follow the line.
LEMMA LongerLine ==
  ASSUME LogTypes, NEW q \in Seq(Pieces), NEW piece \in Pieces, Rising(q), Below(logFiles, q),
         \A i \in DOMAIN q : q[i].by = piece.by /\ q[i].from = piece.from /\ q[i].n < piece.n,
         \A p \in Pieces : Caught(logFiles, p) /\ p.by = piece.by => p.n < piece.n
  PROVE  /\ Append(q, piece) \in Seq(Pieces) /\ Len(Append(q, piece)) = Len(q) + 1
         /\ Alike(Append(q, piece)) /\ Rising(Append(q, piece)) /\ Below(logFiles, Append(q, piece))
         /\ \A i \in DOMAIN Append(q, piece) :
              Append(q, piece)[i] = piece \/ (i \in DOMAIN q /\ Append(q, piece)[i] = q[i])
<1>1. PICK l : l = Append(q, piece)
  OBVIOUS
<1>2. /\ l \in Seq(Pieces) /\ Len(l) = Len(q) + 1 /\ \A i \in 1 .. Len(q) : l[i] = q[i]
      /\ l[Len(q) + 1] = piece
  BY <1>1, AppendProperties
<1>3. DOMAIN q = 1 .. Len(q) /\ DOMAIN l = 1 .. Len(l) /\ Len(q) \in Nat
  BY <1>2
<1>4. \A i \in DOMAIN l : (i = Len(q) + 1 /\ l[i] = piece) \/ (i \in DOMAIN q /\ l[i] = q[i])
  BY <1>2, <1>3
<1>5. Alike(l)
  BY <1>4 DEF Alike
<1>6. Rising(l)
  <2>1. SUFFICES ASSUME NEW i \in DOMAIN l, NEW j \in DOMAIN l, i < j PROVE l[i].n < l[j].n
    BY DEF Rising
  <2>2. i \in DOMAIN q /\ l[i] = q[i]
    BY <1>2, <1>3, <1>4, <2>1
  <2>3. CASE j \in DOMAIN q /\ l[j] = q[j]
    BY <2>1, <2>2, <2>3 DEF Rising
  <2>4. CASE l[j] = piece
    BY <2>2, <2>4
  <2> QED
    BY <1>4, <2>3, <2>4
<1>7. Below(logFiles, l)
  BY <1>4 DEF Below
<1> QED
  BY <1>1, <1>2, <1>4, <1>5, <1>6, <1>7

LEMMA CutOrder ==
  ASSUME LogTypes, OrderInv, FollowInv, pieces' \in Nat, pieces <= pieces',
         NEW w \in Logs!Writers, NEW line, NEW done \in BOOLEAN, Cuttable(w, line, done),
             Cut(w, line, done),
         Tidy(logFiles'), Spread(line, done), \A i \in DOMAIN line : line[i].n <= pieces'
  PROVE  /\ \A v \in Logs!Writers : /\ Rising(unwritten'[v]) /\ Below(logFiles', unwritten'[v])
                                    /\ \A i \in DOMAIN unwritten'[v] : unwritten'[v][i].n
                                        <= pieces' /\ unwritten'[v][i].by = v
         /\ \A p \in Pieces : Caught(logFiles', p) => p.n <= pieces'
<1>1. unwritten' = [unwritten EXCEPT ![w] = IF done THEN <<>> ELSE line]
        /\ unwritten \in [Logs!Writers -> Seq(Pieces)]
  BY DEF Cut, LogTypes
<1>2. ~done => logFiles' = logFiles
  BY DEF Cut
<1>3. \A p \in Pieces : p.n \in Int
  BY LogBounds DEF Pieces
<1>4. pieces \in Int
  BY LogBounds DEF LogTypes
<1>5. ASSUME NEW p \in Pieces, Caught(logFiles', p) PROVE p.n <= pieces'
  <2>1. CASE Caught(logFiles, p)
    <3>1. p.n <= pieces
      BY <2>1 DEF OrderInv
    <3> QED
      BY <1>3, <1>4, <3>1
  <2>2. CASE \E j \in DOMAIN line : p = line[j]
    BY <2>2
  <2> QED
    BY <1>5, <2>1, <2>2 DEF Spread
<1>6. ASSUME NEW v \in Logs!Writers
      PROVE  /\ Rising(unwritten'[v]) /\ Below(logFiles', unwritten'[v])
             /\ \A i \in DOMAIN unwritten'[v] : unwritten'[v][i].n <= pieces'
                 /\ unwritten'[v][i].by = v
  <2>1. CASE v = w /\ done
    <3>1. unwritten'[v] = <<>>
      BY <1>1, <2>1
    <3> QED
      BY <3>1 DEF Rising, Below
  <2>2. CASE v = w /\ ~done
    <3>1. unwritten'[v] = line
      BY <1>1, <2>2
    <3> QED
      BY <1>2, <2>2, <3>1 DEF Cuttable
  <2>3. CASE v # w
    <3>1. PICK q : q = unwritten[v] /\ q \in Seq(Pieces)
      BY <1>1
    <3>2. unwritten'[v] = q
      BY <1>1, <2>3, <3>1
    <3>3. Rising(q) /\ Below(logFiles, q) /\ \A i \in DOMAIN q : q[i].n <= pieces
      BY <3>1 DEF OrderInv
    <3>4. \A i \in DOMAIN q : q[i].by = v
      BY <3>1 DEF FollowInv
    <3>5. Below(logFiles', q)
      <4>1. SUFFICES ASSUME NEW p \in Pieces, NEW i \in DOMAIN q, Caught(logFiles', p),
                            p.by = q[i].by
                     PROVE  p.n < q[i].n
        BY DEF Below
      <4>2. p.by = v
        BY <3>4, <4>1
      <4>3. ~(\E j \in DOMAIN line : p = line[j])
        BY <2>3, <4>2 DEF Cuttable
      <4>4. Caught(logFiles, p)
        BY <4>1, <4>3 DEF Spread
      <4> QED
        BY <3>3, <4>1, <4>4 DEF Below
    <3>6. \A i \in DOMAIN q : q[i].n \in Int
      BY <1>3, <3>1
    <3>7. \A i \in DOMAIN q : q[i].n <= pieces'
      BY <1>4, <3>3, <3>6
    <3> QED
      BY <3>2, <3>3, <3>4, <3>5, <3>7
  <2> QED
    BY <2>1, <2>2, <2>3
<1> QED
  BY <1>5, <1>6

-----------------------------------------------------------------------------
(* The steps *)

\* What of the invariant is about the core, its file and who follows it.
NativeInv ==
  /\ Rising(native.text) /\ \A i \in DOMAIN native.text : native.text[i].n <= pieces
  /\ follower.on =>
       \A k \in DOMAIN native.text : Logs!Replaced \/ follower.offset < k =>
         /\ \A i \in DOMAIN unwritten["file"] : unwritten["file"][i].n < native.text[k].n
         /\ \A p \in Pieces : Caught(logFiles, p) /\ p.by = "file" => p.n < native.text[k].n

LEMMA Numbers ==
  ASSUME LogTypes
  PROVE  /\ pieces \in Nat /\ pieces <= MaxPieces /\ MaxPieces \in Nat /\ day \in Nat
             /\ logging \in Nat
         /\ Len(unwritten["output"]) \in Nat /\ Len(unwritten["file"]) \in Nat
             /\ Len(native.text) \in Nat
         /\ follower.offset \in Nat /\ Ahead \in Nat /\ InHand \in Nat
         /\ \A n \in DOMAIN logFiles : n[2] \in Nat
<1>1. /\ pieces \in Nat /\ pieces <= MaxPieces /\ MaxPieces \in Nat /\ day \in Nat
          /\ logging \in Nat
  BY LogBounds DEF LogTypes
<1>2. unwritten["output"] \in Seq(Pieces) /\ unwritten["file"] \in Seq(Pieces)
        /\ native.text \in Seq(Pieces)
  BY DEF LogTypes, Logs!Writers
<1>3. follower.offset \in Nat
  BY DEF LogTypes
<1>4. \A n \in DOMAIN logFiles : n[2] \in Nat
  BY NameNumbers, LogBounds DEF LogTypes
<1>5. Ahead \in Nat
  <2>1. Len(native.text) \in Nat
    BY <1>2
  <2>2. ~Logs!Replaced => ~(Len(native.text) < follower.offset)
    BY DEF Logs!Replaced
  <2> QED
    BY <1>3, <2>1, <2>2 DEF Ahead
<1>6. /\ Len(unwritten["output"]) \in Nat /\ Len(unwritten["file"]) \in Nat
          /\ Len(native.text) \in Nat
  BY <1>2
<1>7. InHand \in Nat
  <2>1. PICK o \in Nat, f \in Nat, a \in Nat :
          o = Len(unwritten["output"]) /\ f = Len(unwritten["file"]) /\ a = Ahead
    BY <1>5, <1>6
  <2>2. InHand = o + f + a
    BY <2>1 DEF InHand
  <2> QED
    BY <2>2
<1> QED
  BY <1>1, <1>3, <1>4, <1>5, <1>6, <1>7

LEMMA PieceNumbers == \A q \in Seq(Pieces) : \A i \in DOMAIN q : q[i] \in Pieces /\ q[i].n \in Int
<1>1. \A p \in Pieces : p.n \in Int
  BY LogBounds DEF Pieces
<1>2. \A q \in Seq(Pieces) : \A i \in DOMAIN q : q[i] \in Pieces
  OBVIOUS
<1> QED
  BY <1>1, <1>2

\* An append takes one piece at least of those that were in hand.
LEMMA RoomStays ==
  ASSUME LogTypes, RoomInv, NEW line, NEW done \in BOOLEAN, Spread(line, done),
         InHand' \in Nat, pieces' \in Nat, InHand' <= pieces', pieces <= pieces',
         InHand' + pieces <= InHand + pieces', done => InHand' + 1 + pieces <= InHand + pieces'
  PROVE  RoomInv'
<1>1. PICK h \in Nat, g \in Nat, w \in Nat, v \in Nat :
        h = InHand /\ g = InHand' /\ w = pieces /\ v = pieces'
  BY Numbers
<1>2. g <= v /\ g + w <= h + v /\ (done => g + 1 + w <= h + v) /\ \A n \in DOMAIN logFiles :
        n[2] + h <= w
  BY <1>1 DEF RoomInv
<1>3. ASSUME NEW n \in DOMAIN logFiles' PROVE n[2] + g <= v
  <2>1. CASE n \in DOMAIN logFiles
    <3>1. PICK k \in Nat : k = n[2]
      BY <2>1, Numbers
    <3>2. k + h <= w
      BY <1>2, <2>1, <3>1
    <3>3. k + g <= v
      BY <1>2, <3>2
    <3> QED
      BY <3>1, <3>3
  <2>2. CASE n[2] = 0
    BY <1>2, <2>2
  <2>3. CASE done /\ \E m \in DOMAIN logFiles : n[2] = m[2] + 1
    <3>1. PICK m \in DOMAIN logFiles : n[2] = m[2] + 1
      BY <2>3
    <3>2. PICK k \in Nat : k = m[2]
      BY Numbers
    <3>3. k + h <= w
      BY <1>2, <3>2
    <3>4. k + 1 + g <= v
      BY <1>2, <2>3, <3>3
    <3> QED
      BY <3>1, <3>2, <3>4
  <2> QED
    BY <2>1, <2>2, <2>3 DEF Spread
<1> QED
  BY <1>1, <1>2, <1>3 DEF RoomInv

\* There is a name for one more file as long as a piece is in hand or can be written.
LEMMA RoomLeft ==
  ASSUME LogTypes, RoomInv, pieces < MaxPieces \/ InHand > 0
  PROVE  \A n \in DOMAIN logFiles : n[2] + 1 <= MaxPieces
<1>1. PICK h \in Nat, w \in Nat, m \in Nat : h = InHand /\ w = pieces /\ m = MaxPieces
  BY Numbers
<1>2. w <= m /\ (w < m \/ h > 0)
  BY <1>1, Numbers
<1>3. ASSUME NEW n \in DOMAIN logFiles PROVE n[2] + 1 <= MaxPieces
  <2>1. PICK k \in Nat : k = n[2]
    BY Numbers
  <2>2. k + h <= w
    BY <1>1, <2>1 DEF RoomInv
  <2>3. k + 1 <= m
    BY <1>2, <2>2
  <2> QED
    BY <1>1, <2>1, <2>3
<1> QED
  BY <1>3

LEMMA OutputKeeps == ASSUME LogsInv, NEW ends \in BOOLEAN, Logs!Output(ends) PROVE LogsInv'
<1>0. LogTypes /\ FilesInv /\ RoomInv /\ ReaderInv /\ FollowInv /\ OrderInv
  BY DEF LogsInv
<1>1. /\ logging # 0 /\ pieces < MaxPieces /\ pieces' = pieces + 1
      /\ UNCHANGED <<day, logging, native, policy, epoch, drawn, follower, reader, logEvents>>
      /\ Logs!Write("output", Logs!Piece("output", logging, ends))
  BY DEF Logs!Output
<1>2. PICK piece : piece = [by |-> "output", from |-> logging, n |-> pieces + 1, ends |-> ends]
  OBVIOUS
<1>3. piece = Logs!Piece("output", logging, ends)
  BY <1>2 DEF Logs!Piece
<1>4. /\ piece.by = "output" /\ piece.from = logging /\ piece.n = pieces + 1 /\ piece.ends = ends
      /\ piece \in Pieces
  BY <1>0, <1>1, <1>2, Numbers DEF Pieces, Logs!Writers
<1>5. PICK q : q = unwritten["output"] /\ q \in Seq(Pieces)
  BY <1>0 DEF LogTypes, Logs!Writers
<1>6. PICK line : line = Append(q, piece)
  OBVIOUS
<1>7. Cut("output", line, ends)
  BY <1>1, <1>3, <1>4, <1>5, <1>6 DEF Logs!Write, Cut
<1>8. /\ Rising(q) /\ Below(logFiles, q)
      /\ \A i \in DOMAIN q : q[i].by = piece.by /\ q[i].from = piece.from /\ q[i].n <= pieces
  BY <1>0, <1>1, <1>4, <1>5 DEF OrderInv, FollowInv, Logs!Writers
<1>9. /\ \A i \in DOMAIN q : q[i].by = piece.by /\ q[i].from = piece.from /\ q[i].n < piece.n
      /\ \A p \in Pieces : Caught(logFiles, p) /\ p.by = piece.by => p.n < piece.n
  <2>1. \A p \in Pieces : p.n \in Int
    BY LogBounds DEF Pieces
  <2>2. \A i \in DOMAIN q : q[i].n \in Int
    BY <1>5, <2>1
  <2>3. pieces \in Int
    BY <1>0, Numbers
  <2>4. \A p \in Pieces : Caught(logFiles, p) => p.n <= pieces
    BY <1>0 DEF OrderInv
  <2> QED
    BY <1>4, <1>8, <2>1, <2>2, <2>3, <2>4
<1>10. /\ line \in Seq(Pieces) /\ Len(line) = Len(q) + 1
       /\ Alike(line) /\ Rising(line) /\ Below(logFiles, line)
       /\ \A i \in DOMAIN line : line[i] = piece \/ (i \in DOMAIN q /\ line[i] = q[i])
  BY <1>0, <1>4, <1>5, <1>6, <1>8, <1>9, LongerLine
<1>11. \A n \in DOMAIN logFiles : n[2] + 1 <= MaxPieces
  BY <1>0, <1>1, RoomLeft
<1>12. Cuttable("output", line, ends)
  BY <1>4, <1>8, <1>10, <1>11 DEF Cuttable
<1>13. "output" \in Logs!Writers
  BY DEF Logs!Writers
<1>14. /\ FileTypes' /\ FilesInv' /\ ReaderInv' /\ Tidy(logFiles') /\ Spread(line, ends)
       /\ unwritten' \in [Logs!Writers -> Seq(Pieces)]
  BY <1>0, <1>1, <1>7, <1>12, <1>13, CutKeeps DEF OrderInv
<1>15. \A i \in DOMAIN line : line[i].n <= pieces'
  <2>1. \A i \in DOMAIN q : q[i].n \in Int
    BY <1>5, PieceNumbers
  <2>2. \A i \in DOMAIN q : q[i].n <= pieces + 1
    BY <1>0, <1>8, <2>1, Numbers
  <2>3. piece.n <= pieces + 1
    BY <1>0, <1>4, Numbers
  <2> QED
    BY <1>1, <1>10, <2>2, <2>3
<1>16. pieces' \in Nat /\ pieces <= pieces'
  BY <1>0, <1>1, Numbers
<1>17. /\ \A v \in Logs!Writers : /\ Rising(unwritten'[v]) /\ Below(logFiles', unwritten'[v])
                                  /\ \A i \in DOMAIN unwritten'[v] : unwritten'[v][i].n <= pieces'
                                      /\ unwritten'[v][i].by = v
       /\ \A p \in Pieces : Caught(logFiles', p) => p.n <= pieces'
  BY <1>0, <1>7, <1>12, <1>13, <1>14, <1>15, <1>16, CutOrder
<1>18. unwritten'["file"] = unwritten["file"] /\ unwritten'["output"] = IF ends THEN <<>> ELSE line
  BY <1>0, <1>7 DEF Cut, LogTypes, Logs!Writers
<1>19. LogTypes'
  <2>1. pieces' \in 0 .. MaxPieces
    BY <1>0, <1>1, Numbers
  <2> QED
    BY <1>0, <1>1, <1>14, <2>1 DEF LogTypes, FileTypes
<1>20. RoomInv'
  <2>1. Ahead' = Ahead
    BY <1>1 DEF Ahead, Logs!Replaced
  <2>2. PICK o \in Nat, f \in Nat, a \in Nat, w \in Nat :
          o = Len(unwritten["output"]) /\ f = Len(unwritten["file"]) /\ a = Ahead /\ w = pieces
    BY <1>0, Numbers
  <2>3. PICK x \in Nat : x = Len(unwritten'["output"]) /\ x <= o + 1 /\ (ends => x = 0)
    <3>1. Len(<<>>) = 0 /\ Len(line) = o + 1
      BY <1>5, <1>10, <2>2
    <3> QED
      BY <1>18, <2>2, <3>1
  <2>4. InHand = o + f + a /\ InHand' = x + f + a /\ pieces = w /\ pieces' = w + 1
    BY <1>1, <1>18, <2>1, <2>2, <2>3 DEF InHand
  <2>8. x <= o + 1
    BY <2>3
  <2>5. o + f + a <= w
    BY <1>0, <2>2, <2>4 DEF RoomInv
  <2>6. /\ InHand' \in Nat /\ pieces' \in Nat /\ InHand' <= pieces' /\ pieces <= pieces'
        /\ InHand' + pieces <= InHand + pieces'
    BY <2>4, <2>5, <2>8
  <2>7. ASSUME ends PROVE InHand' + 1 + pieces <= InHand + pieces'
    <3>1. x = 0
      BY <2>3, <2>7
    <3> QED
      BY <2>4, <3>1
  <2> QED
    BY <1>0, <1>14, <2>6, <2>7, RoomStays
<1>21. FollowInv'
  <2>1. \A i \in DOMAIN unwritten'["output"] : unwritten'["output"][i].from = logging
    BY <1>4, <1>8, <1>10, <1>18
  <2> QED
    BY <1>0, <1>1, <1>17, <1>18, <2>1 DEF FollowInv
<1>22. NativeInv'
  <2>1. \A i \in DOMAIN native.text : native.text[i].n <= pieces + 1
    <3>1. \A i \in DOMAIN native.text : native.text[i].n \in Int
      BY <1>0, PieceNumbers DEF LogTypes
    <3> QED
      BY <1>0, <3>1, Numbers DEF OrderInv
  <2>2. Logs!Replaced' <=> Logs!Replaced
    BY <1>1 DEF Logs!Replaced
  <2>3. \A p \in Pieces : Caught(logFiles', p) /\ p.by = "file" => Caught(logFiles, p)
    <3>1. \A j \in DOMAIN line : line[j].by = "output"
      BY <1>12 DEF Cuttable
    <3> QED
      BY <1>14, <3>1 DEF Spread
  <2> QED
    BY <1>0, <1>1, <1>18, <2>1, <2>2, <2>3 DEF OrderInv, NativeInv
<1>23. OrderInv'
  BY <1>14, <1>17, <1>22 DEF OrderInv, NativeInv
<1> QED
  BY <1>14, <1>19, <1>20, <1>21, <1>23 DEF LogsInv

LEMMA PendingIsAlike == ASSUME LogTypes, FollowInv, NEW w \in Logs!Writers PROVE Alike(unwritten[w])
<1>1. CASE w = "output"
  BY <1>1 DEF FollowInv, Alike
<1>2. CASE w = "file"
  BY <1>2 DEF FollowInv, Alike
<1> QED
  BY <1>1, <1>2 DEF Logs!Writers

LEMMA LineFlushKeeps ==
  ASSUME LogsInv, NEW w \in Logs!Writers, Logs!Flush(w),
         UNCHANGED <<day, epoch, drawn, reader, pieces>>
  PROVE  /\ FileTypes' /\ FilesInv' /\ ReaderInv' /\ Tidy(logFiles')
         /\ Spread(unwritten[w], unwritten[w] # <<>>)
         /\ unwritten' \in [Logs!Writers -> Seq(Pieces)] /\ unwritten'[w] = <<>>
         /\ \A v \in Logs!Writers \ {w} : unwritten'[v] = unwritten[v]
         /\ \A v \in Logs!Writers : /\ Rising(unwritten'[v]) /\ Below(logFiles', unwritten'[v])
                                    /\ \A i \in DOMAIN unwritten'[v] : unwritten'[v][i].n
                                        <= pieces' /\ unwritten'[v][i].by = v
         /\ \A p \in Pieces : Caught(logFiles', p) => p.n <= pieces'
<1>0. LogTypes /\ FilesInv /\ RoomInv /\ ReaderInv /\ FollowInv /\ OrderInv
  BY DEF LogsInv
<1>1. PICK line : line = unwritten[w] /\ line \in Seq(Pieces)
  BY <1>0 DEF LogTypes
<1>2. PICK done \in BOOLEAN : done <=> line # <<>>
  OBVIOUS
<1>3. Cut(w, line, done)
  <2>1. CASE line = <<>>
    <3>1. UNCHANGED <<logFiles, logFile, generations, unwritten>>
      BY <1>1, <2>1 DEF Logs!Flush
    <3>2. unwritten' = [unwritten EXCEPT ![w] = line]
      BY <1>0, <1>1, <3>1 DEF LogTypes
    <3> QED
      BY <1>2, <2>1, <3>1, <3>2 DEF Cut
  <2>2. CASE line # <<>>
    BY <1>1, <1>2, <2>2 DEF Logs!Flush, Cut
  <2> QED
    BY <2>1, <2>2
<1>4. unwritten'[w] = <<>> /\ \A v \in Logs!Writers \ {w} : unwritten'[v] = unwritten[v]
  BY <1>0, <1>1, <1>2, <1>3 DEF Cut, LogTypes
<1>5. Alike(line) /\ Rising(line) /\ Below(logFiles, line) /\ \A i \in DOMAIN line :
        line[i].by = w /\ line[i].n <= pieces
  <2>1. Alike(line)
    BY <1>0, <1>1, PendingIsAlike
  <2> QED
    BY <1>0, <1>1, <2>1 DEF OrderInv, FollowInv
<1>6. done => \A n \in DOMAIN logFiles : n[2] + 1 <= MaxPieces
  <2>1. SUFFICES ASSUME done PROVE InHand > 0
    BY <1>0, RoomLeft
  <2>2. Len(line) \in Nat /\ Len(line) > 0
    BY <1>1, <1>2, <2>1
  <2>3. PICK o \in Nat, f \in Nat, a \in Nat :
          o = Len(unwritten["output"]) /\ f = Len(unwritten["file"]) /\ a = Ahead
    BY <1>0, Numbers
  <2>4. InHand = o + f + a
    BY <2>3 DEF InHand
  <2>5. o > 0 \/ f > 0
    BY <1>1, <2>2, <2>3 DEF Logs!Writers
  <2> QED
    BY <2>4, <2>5
<1>7. Cuttable(w, line, done)
  BY <1>1, <1>5, <1>6 DEF Cuttable
<1>8. /\ FileTypes' /\ FilesInv' /\ ReaderInv' /\ Tidy(logFiles') /\ Spread(line, done)
      /\ unwritten' \in [Logs!Writers -> Seq(Pieces)]
  BY <1>0, <1>3, <1>7, CutKeeps DEF OrderInv
<1>9. pieces' \in Nat /\ pieces <= pieces' /\ \A i \in DOMAIN line : line[i].n <= pieces'
  BY <1>0, <1>5, Numbers
<1>10. /\ \A v \in Logs!Writers : /\ Rising(unwritten'[v]) /\ Below(logFiles', unwritten'[v])
                                  /\ \A i \in DOMAIN unwritten'[v] : unwritten'[v][i].n <= pieces'
                                      /\ unwritten'[v][i].by = v
       /\ \A p \in Pieces : Caught(logFiles', p) => p.n <= pieces'
  BY <1>0, <1>3, <1>7, <1>8, <1>9, CutOrder
<1>11. Spread(unwritten[w], unwritten[w] # <<>>)
  BY <1>1, <1>2, <1>8 DEF Spread
<1> QED
  BY <1>4, <1>8, <1>10, <1>11

\* The room after a flush that leaves the pieces of the core's file as they are.
LEMMA FlushLeavesRoom ==
  ASSUME LogsInv, NEW w \in Logs!Writers, Logs!Flush(w),
         UNCHANGED <<day, epoch, drawn, reader, pieces>>, Ahead' = Ahead
  PROVE  RoomInv'
<1>0. LogTypes /\ RoomInv
  BY DEF LogsInv
<1>1. PICK line : line = unwritten[w] /\ line \in Seq(Pieces)
  BY <1>0 DEF LogTypes
<1>2. PICK done \in BOOLEAN : done <=> line # <<>>
  OBVIOUS
<1>3. /\ Spread(line, done) /\ unwritten'[w] = <<>>
          /\ \A v \in Logs!Writers \ {w} : unwritten'[v] = unwritten[v]
  <2>1. /\ Spread(unwritten[w], unwritten[w] # <<>>) /\ unwritten'[w] = <<>>
        /\ \A v \in Logs!Writers \ {w} : unwritten'[v] = unwritten[v]
    BY LineFlushKeeps
  <2> QED
    BY <1>1, <1>2, <2>1 DEF Spread
<1>4. PICK o \in Nat, f \in Nat, a \in Nat, h \in Nat :
        o = Len(unwritten["output"]) /\ f = Len(unwritten["file"]) /\ a = Ahead /\ h = pieces
  BY <1>0, Numbers
<1>5. PICK x \in Nat, y \in Nat : x = Len(unwritten'["output"]) /\ y = Len(unwritten'["file"])
                                  /\ x <= o /\ y <= f /\ (done => x + y + 1 <= o + f)
  <2>1. Len(<<>>) = 0 /\ (done => Len(line) > 0) /\ Len(line) \in Nat
    BY <1>1, <1>2
  <2>2. CASE w = "output"
    <3>1. unwritten'["output"] = <<>> /\ unwritten'["file"] = unwritten["file"] /\ Len(line) = o
      BY <1>1, <1>3, <1>4, <2>2 DEF Logs!Writers
    <3>2. Len(unwritten'["output"]) = 0 /\ Len(unwritten'["file"]) = f
      BY <1>4, <2>1, <3>1
    <3>3. done => o > 0
      BY <2>1, <3>1
    <3>4. 0 <= o /\ f <= f /\ (done => 0 + f + 1 <= o + f)
      BY <3>3
    <3> QED
      BY <3>2, <3>4
  <2>3. CASE w = "file"
    <3>1. unwritten'["file"] = <<>> /\ unwritten'["output"] = unwritten["output"] /\ Len(line) = f
      BY <1>1, <1>3, <1>4, <2>3 DEF Logs!Writers
    <3>2. Len(unwritten'["file"]) = 0 /\ Len(unwritten'["output"]) = o
      BY <1>4, <2>1, <3>1
    <3>3. done => f > 0
      BY <2>1, <3>1
    <3>4. o <= o /\ 0 <= f /\ (done => o + 0 + 1 <= o + f)
      BY <3>3
    <3> QED
      BY <3>2, <3>4
  <2> QED
    BY <2>2, <2>3 DEF Logs!Writers
<1>6. InHand = o + f + a /\ InHand' = x + y + a /\ pieces = h /\ pieces' = h
  BY <1>4, <1>5 DEF InHand
<1>7. x <= o /\ y <= f /\ o + f + a <= h
  BY <1>0, <1>5, <1>6 DEF RoomInv
<1>8. /\ InHand' \in Nat /\ pieces' \in Nat /\ InHand' <= pieces' /\ pieces <= pieces'
      /\ InHand' + pieces <= InHand + pieces'
  BY <1>6, <1>7
<1>9. ASSUME done PROVE InHand' + 1 + pieces <= InHand + pieces'
  <2>1. x + y + 1 <= o + f
    BY <1>5, <1>9
  <2> QED
    BY <1>6, <2>1
<1> QED
  BY <1>0, <1>3, <1>8, <1>9, RoomStays

LEMMA ReapKeeps == ASSUME LogsInv, Logs!Reap PROVE LogsInv'
<1>0. LogTypes /\ FilesInv /\ RoomInv /\ ReaderInv /\ FollowInv /\ OrderInv
  BY DEF LogsInv
<1>1. /\ logging = 0 /\ ~follower.on /\ Logs!Flush("output") /\ "output" \in Logs!Writers
          /\ "file" \in Logs!Writers
      /\ UNCHANGED <<Logs!worldVars, policy, epoch, drawn, follower, reader, logEvents>>
  BY DEF Logs!Reap, Logs!Writers
<1>2. UNCHANGED <<day, logging, pieces, native, policy, epoch, drawn, follower, reader>>
  BY <1>1 DEF Logs!worldVars
<1>3. /\ FileTypes' /\ FilesInv' /\ ReaderInv' /\ Tidy(logFiles')
      /\ unwritten' \in [Logs!Writers -> Seq(Pieces)] /\ unwritten'["output"] = <<>>
      /\ \A v \in Logs!Writers \ {"output"} : unwritten'[v] = unwritten[v]
      /\ \A v \in Logs!Writers : /\ Rising(unwritten'[v]) /\ Below(logFiles', unwritten'[v])
                                 /\ \A i \in DOMAIN unwritten'[v] : unwritten'[v][i].n <= pieces'
                                     /\ unwritten'[v][i].by = v
      /\ \A p \in Pieces : Caught(logFiles', p) => p.n <= pieces'
  BY <1>1, <1>2, LineFlushKeeps
<1>4. unwritten'["file"] = unwritten["file"]
  BY <1>1, <1>3
<1>5. LogTypes'
  BY <1>0, <1>2, <1>3 DEF LogTypes, FileTypes
<1>6. RoomInv'
  <2>1. Ahead' = Ahead
    BY <1>2 DEF Ahead, Logs!Replaced
  <2> QED
    BY <1>1, <1>2, <2>1, FlushLeavesRoom
<1>7. FollowInv'
  BY <1>0, <1>1, <1>2, <1>3, <1>4 DEF FollowInv
<1>8. NativeInv'
  BY <1>0, <1>1, <1>2 DEF OrderInv, NativeInv
<1>9. OrderInv'
  BY <1>3, <1>8 DEF OrderInv, NativeInv
<1> QED
  BY <1>3, <1>5, <1>6, <1>7, <1>9 DEF LogsInv

LEMMA CloseKeeps == ASSUME LogsInv, Logs!Close PROVE LogsInv'
<1>0. LogTypes /\ FilesInv /\ RoomInv /\ ReaderInv /\ FollowInv /\ OrderInv
  BY DEF LogsInv
<1>1. /\ logging = 0 /\ follower.on /\ ~Logs!Unread /\ follower' = Logs!NotFollowing
      /\ Logs!Flush("file") /\ "output" \in Logs!Writers /\ "file" \in Logs!Writers
      /\ UNCHANGED <<Logs!worldVars, policy, epoch, drawn, reader, logEvents>>
  BY DEF Logs!Close, Logs!Writers
<1>2. UNCHANGED <<day, logging, pieces, native, policy, epoch, drawn, reader>>
  BY <1>1 DEF Logs!worldVars
<1>3. /\ FileTypes' /\ FilesInv' /\ ReaderInv' /\ Tidy(logFiles')
      /\ unwritten' \in [Logs!Writers -> Seq(Pieces)] /\ unwritten'["file"] = <<>>
      /\ \A v \in Logs!Writers \ {"file"} : unwritten'[v] = unwritten[v]
      /\ \A v \in Logs!Writers : /\ Rising(unwritten'[v]) /\ Below(logFiles', unwritten'[v])
                                 /\ \A i \in DOMAIN unwritten'[v] : unwritten'[v][i].n <= pieces'
                                     /\ unwritten'[v][i].by = v
      /\ \A p \in Pieces : Caught(logFiles', p) => p.n <= pieces'
  BY <1>1, <1>2, LineFlushKeeps
<1>4. unwritten'["output"] = unwritten["output"]
  BY <1>1, <1>3
<1>5. LogTypes'
  BY <1>0, <1>1, <1>2, <1>3 DEF LogTypes, FileTypes, Logs!NotFollowing
<1>6. ~follower'.on
  BY <1>1 DEF Logs!NotFollowing
<1>7. RoomInv'
  <2>1. Ahead' = 0
    BY <1>6 DEF Ahead
  <2>2. Ahead = 0
    BY <1>0, <1>1, Numbers DEF Ahead, Logs!Unread
  <2> QED
    BY <1>1, <1>2, <2>1, <2>2, FlushLeavesRoom
<1>8. FollowInv'
  BY <1>0, <1>1, <1>2, <1>3, <1>4, <1>6 DEF FollowInv
<1>9. NativeInv'
  BY <1>0, <1>2, <1>6 DEF OrderInv, NativeInv
<1>10. OrderInv'
  BY <1>3, <1>9 DEF OrderInv, NativeInv
<1> QED
  BY <1>3, <1>5, <1>7, <1>8, <1>10 DEF LogsInv

LEMMA ReadNewKeeps == ASSUME LogsInv, Logs!readNew PROVE LogsInv'
<1>0. LogTypes /\ FilesInv /\ RoomInv /\ ReaderInv /\ FollowInv /\ OrderInv /\ NativeInv
  BY DEF LogsInv, OrderInv, NativeInv
<1>1. /\ follower.on /\ Logs!Unread /\ "output" \in Logs!Writers /\ "file" \in Logs!Writers
      /\ UNCHANGED <<Logs!worldVars, policy, epoch, drawn, reader, logEvents>>
  BY DEF Logs!readNew, Logs!Writers
<1>2. UNCHANGED <<day, logging, pieces, native, policy, epoch, drawn, reader>>
  BY <1>1 DEF Logs!worldVars
<1>3. PICK text : text = native.text /\ text \in Seq(Pieces)
  BY <1>0 DEF LogTypes
<1>4. PICK q : q = unwritten["file"] /\ q \in Seq(Pieces)
  BY <1>0, <1>1 DEF LogTypes
<1>5. \A k \in DOMAIN text : text[k].n \in Int /\ text[k] \in Pieces
  BY <1>3, PieceNumbers
<1>6. CASE Logs!Replaced
  <2>1. /\ Logs!Flush("file") /\ follower' = [on |-> TRUE, inode |-> native.inode, offset |-> 0]
    BY <1>6 DEF Logs!readNew
  <2>2. /\ FileTypes' /\ FilesInv' /\ ReaderInv' /\ Tidy(logFiles') /\ Spread(q, q # <<>>)
        /\ unwritten' \in [Logs!Writers -> Seq(Pieces)] /\ unwritten'["file"] = <<>>
        /\ \A v \in Logs!Writers \ {"file"} : unwritten'[v] = unwritten[v]
        /\ \A v \in Logs!Writers : /\ Rising(unwritten'[v]) /\ Below(logFiles', unwritten'[v])
                                   /\ \A i \in DOMAIN unwritten'[v] : unwritten'[v][i].n
                                       <= pieces' /\ unwritten'[v][i].by = v
        /\ \A p \in Pieces : Caught(logFiles', p) => p.n <= pieces'
    BY <1>1, <1>2, <1>4, <2>1, LineFlushKeeps
  <2>3. unwritten'["output"] = unwritten["output"]
    BY <1>1, <2>2
  <2>4. LogTypes'
    <3>1. native.inode \in Nat
      BY <1>0 DEF LogTypes
    <3>2. follower' \in [on : BOOLEAN, inode : Nat, offset : Nat]
      BY <2>1, <3>1
    <3> QED
      BY <1>0, <1>2, <2>2, <3>2 DEF LogTypes, FileTypes
  <2>5. RoomInv'
    <3>1. Ahead = Len(text)
      BY <1>1, <1>3, <1>6 DEF Ahead
    <3>2. follower'.on /\ follower'.inode = native.inode /\ follower'.offset = 0
      BY <2>1
    <3>3. ~Logs!Replaced'
      <4>1. ~(Len(text) < 0)
        BY <1>3
      <4> QED
        BY <1>2, <1>3, <3>2, <4>1 DEF Logs!Replaced
    <3>4. Ahead' = Len(text) - 0
      BY <1>2, <1>3, <3>2, <3>3 DEF Ahead
    <3>5. Ahead' = Ahead
      BY <1>3, <3>1, <3>4
    <3> QED
      BY <1>1, <1>2, <2>1, <3>5, FlushLeavesRoom
  <2>6. FollowInv'
    BY <1>0, <1>1, <1>2, <2>1, <2>2, <2>3 DEF FollowInv
  <2>7. NativeInv'
    <3>1. ASSUME NEW k \in DOMAIN text, NEW p \in Pieces, Caught(logFiles', p), p.by = "file"
          PROVE  p.n < text[k].n
      <4>1. CASE Caught(logFiles, p)
        BY <1>0, <1>1, <1>3, <1>6, <3>1, <4>1 DEF NativeInv
      <4>2. CASE \E j \in DOMAIN q : p = q[j]
        BY <1>0, <1>1, <1>3, <1>4, <1>6, <3>1, <4>2 DEF NativeInv
      <4> QED
        BY <2>2, <3>1, <4>1, <4>2 DEF Spread
    <3> QED
      BY <1>0, <1>2, <1>3, <2>2, <3>1 DEF NativeInv
  <2>8. OrderInv'
    BY <2>2, <2>7 DEF OrderInv, NativeInv
  <2> QED
    BY <2>2, <2>4, <2>5, <2>6, <2>8 DEF LogsInv
<1>7. CASE ~Logs!Replaced
  <2>1. PICK o \in Nat, t \in Nat : o = follower.offset /\ t = Len(text) /\ o < t
             /\ DOMAIN text = 1 .. t
    BY <1>0, <1>1, <1>3, <1>7, Numbers DEF Logs!Unread
  <2>2. PICK piece \in Pieces : piece = text[o + 1]
    <3>1. o + 1 \in DOMAIN text
      BY <2>1
    <3> QED
      BY <1>5, <3>1
  <2>3. /\ Logs!Write("file", piece) /\ follower' = [follower EXCEPT !.offset = @ + 1]
    BY <1>3, <1>7, <2>1, <2>2 DEF Logs!readNew
  <2>4. PICK ends \in BOOLEAN : ends = piece.ends
    BY DEF Pieces
  <2>5. PICK line : line = Append(q, piece)
    OBVIOUS
  <2>6. Cut("file", line, ends)
    BY <1>4, <2>3, <2>4, <2>5 DEF Logs!Write, Cut
  <2>7. o + 1 \in DOMAIN text /\ (Logs!Replaced \/ o < o + 1)
    BY <2>1
  <2>8. /\ piece.by = "file" /\ piece.from = native.inode /\ follower.inode = native.inode
        /\ piece.n <= pieces
    BY <1>0, <1>3, <1>7, <2>2, <2>7 DEF FollowInv, OrderInv, Logs!Replaced
  <2>9. /\ Rising(q) /\ Below(logFiles, q)
        /\ \A i \in DOMAIN q : q[i].by = piece.by /\ q[i].from = piece.from /\ q[i].n < piece.n
        /\ \A i \in DOMAIN q : q[i].n <= pieces
        /\ \A p \in Pieces : Caught(logFiles, p) /\ p.by = piece.by => p.n < piece.n
    <3>1. \A i \in DOMAIN q : q[i].by = "file" /\ q[i].from = follower.inode
      BY <1>0, <1>1, <1>4 DEF FollowInv
    <3>2. \A i \in DOMAIN q : q[i].n < piece.n
      BY <1>0, <1>1, <1>3, <1>4, <2>1, <2>2, <2>7 DEF NativeInv
    <3>3. \A p \in Pieces : Caught(logFiles, p) /\ p.by = "file" => p.n < piece.n
      BY <1>0, <1>1, <1>3, <2>1, <2>2, <2>7 DEF NativeInv
    <3>4. Rising(q) /\ Below(logFiles, q) /\ \A i \in DOMAIN q : q[i].n <= pieces
      BY <1>0, <1>1, <1>4 DEF OrderInv
    <3> QED
      BY <2>8, <3>1, <3>2, <3>3, <3>4
  <2>10. /\ line \in Seq(Pieces) /\ Len(line) = Len(q) + 1
         /\ Alike(line) /\ Rising(line) /\ Below(logFiles, line)
         /\ \A i \in DOMAIN line : line[i] = piece \/ (i \in DOMAIN q /\ line[i] = q[i])
    BY <1>0, <1>4, <2>5, <2>9, LongerLine
  <2>11. Ahead = t - o /\ Ahead > 0
    <3>1. Ahead = t - o
      BY <1>1, <1>3, <1>7, <2>1 DEF Ahead
    <3> QED
      BY <2>1, <3>1
  <2>12. \A n \in DOMAIN logFiles : n[2] + 1 <= MaxPieces
    <3>1. PICK a \in Nat, b \in Nat : a = Len(unwritten["output"]) /\ b = Len(unwritten["file"])
      BY <1>0, Numbers
    <3>2. InHand = a + b + (t - o)
      BY <2>11, <3>1 DEF InHand
    <3>3. InHand > 0
      BY <2>1, <3>2
    <3> QED
      BY <1>0, <3>3, RoomLeft
  <2>13. Cuttable("file", line, ends)
    BY <2>8, <2>9, <2>10, <2>12 DEF Cuttable
  <2>14. /\ FileTypes' /\ FilesInv' /\ ReaderInv' /\ Tidy(logFiles') /\ Spread(line, ends)
         /\ unwritten' \in [Logs!Writers -> Seq(Pieces)]
    BY <1>0, <1>1, <1>2, <2>6, <2>13, CutKeeps DEF OrderInv
  <2>15. pieces' \in Nat /\ pieces <= pieces' /\ \A i \in DOMAIN line : line[i].n <= pieces'
    BY <1>0, <1>2, <2>8, <2>9, <2>10, Numbers
  <2>16. /\ \A v \in Logs!Writers : /\ Rising(unwritten'[v]) /\ Below(logFiles', unwritten'[v])
                                    /\ \A i \in DOMAIN unwritten'[v] : unwritten'[v][i].n
                                        <= pieces' /\ unwritten'[v][i].by = v
         /\ \A p \in Pieces : Caught(logFiles', p) => p.n <= pieces'
    BY <1>0, <1>1, <2>6, <2>13, <2>14, <2>15, CutOrder
  <2>17. unwritten'["output"] = unwritten["output"] /\ unwritten'["file"] = IF ends THEN <<>>
           ELSE line
    BY <1>0, <2>6 DEF Cut, LogTypes, Logs!Writers
  <2>18. follower'.on /\ follower'.inode = follower.inode /\ follower'.offset = o + 1
         /\ follower' \in [on : BOOLEAN, inode : Nat, offset : Nat]
    <3>1. follower \in [on : BOOLEAN, inode : Nat, offset : Nat]
      BY <1>0 DEF LogTypes
    <3> QED
      BY <1>1, <2>1, <2>3, <3>1
  <2>19. LogTypes'
    BY <1>0, <1>2, <2>14, <2>18 DEF LogTypes, FileTypes
  <2>20. Ahead' = t - (o + 1)
    <3>1. ~(t < o + 1)
      BY <2>1
    <3>2. ~Logs!Replaced'
      BY <1>2, <1>3, <2>1, <2>8, <2>18, <3>1 DEF Logs!Replaced
    <3> QED
      BY <1>2, <1>3, <2>1, <2>18, <3>2 DEF Ahead
  <2>21. RoomInv'
    <3>1. PICK a \in Nat, b \in Nat, w \in Nat :
               a = Len(unwritten["output"]) /\ b = Len(unwritten["file"]) /\ w = pieces
      BY <1>0, Numbers
    <3>2. PICK x \in Nat : x = Len(unwritten'["file"]) /\ x <= b + 1 /\ (ends => x = 0)
      <4>1. Len(<<>>) = 0 /\ Len(line) = b + 1
        BY <1>4, <2>10, <3>1
      <4> QED
        BY <2>17, <3>1, <4>1
    <3>3. InHand = a + b + (t - o) /\ InHand' = a + x + (t - (o + 1)) /\ pieces = w /\ pieces' = w
      BY <1>2, <2>11, <2>17, <2>20, <3>1, <3>2 DEF InHand
    <3>4. x <= b + 1 /\ o < t
      BY <2>1, <3>2
    <3>5. a + b + (t - o) <= w
      BY <1>0, <3>1, <3>3 DEF RoomInv
    <3>6. /\ InHand' \in Nat /\ pieces' \in Nat /\ InHand' <= pieces' /\ pieces <= pieces'
          /\ InHand' + pieces <= InHand + pieces'
      BY <3>3, <3>4, <3>5
    <3>7. ASSUME ends PROVE InHand' + 1 + pieces <= InHand + pieces'
      <4>1. x = 0
        BY <3>2, <3>7
      <4> QED
        BY <3>3, <4>1
    <3> QED
      BY <1>0, <2>14, <3>6, <3>7, RoomStays
  <2>22. FollowInv'
    <3>1. \A i \in DOMAIN unwritten'["file"] : unwritten'["file"][i].from = follower'.inode
      BY <2>8, <2>9, <2>10, <2>17, <2>18
    <3> QED
      BY <1>0, <1>2, <2>16, <2>17, <2>18, <3>1 DEF FollowInv
  <2>23. NativeInv'
    <3>1. Logs!Replaced' <=> (t < o + 1)
      BY <1>2, <1>3, <2>1, <2>8, <2>18 DEF Logs!Replaced
    <3>2. ASSUME NEW k \in DOMAIN text, o + 1 < k PROVE k \in Nat /\ o < k /\ piece.n < text[k].n
      <4>1. o + 1 \in DOMAIN text /\ k \in Nat
        BY <2>1
      <4>2. Rising(text)
        BY <1>0, <1>3 DEF OrderInv
      <4>3. text[o + 1].n < text[k].n
        BY <3>2, <4>1, <4>2 DEF Rising
      <4> QED
        BY <2>1, <2>2, <3>2, <4>1, <4>3
    <3>3. ASSUME NEW k \in DOMAIN text, o + 1 < k, NEW i \in DOMAIN line PROVE line[i].n < text[k].n
      <4>1. CASE line[i] = piece
        BY <3>2, <3>3, <4>1
      <4>2. CASE i \in DOMAIN q /\ line[i] = q[i]
        BY <1>0, <1>1, <1>3, <1>4, <2>1, <3>2, <3>3, <4>2 DEF NativeInv
      <4> QED
        BY <2>10, <4>1, <4>2
    <3>4. ASSUME NEW k \in DOMAIN text, o + 1 < k, NEW p \in Pieces, Caught(logFiles', p),
                 p.by = "file"
          PROVE  p.n < text[k].n
      <4>1. CASE Caught(logFiles, p)
        BY <1>0, <1>1, <1>3, <2>1, <3>2, <3>4, <4>1 DEF NativeInv
      <4>2. CASE \E j \in DOMAIN line : p = line[j]
        BY <3>3, <3>4, <4>2
      <4> QED
        BY <2>14, <3>4, <4>1, <4>2 DEF Spread
    <3>5. \A k \in DOMAIN text : o + 1 < k => \A i \in DOMAIN unwritten'["file"] :
            unwritten'["file"][i].n < text[k].n
      <4>1. CASE ends
        BY <2>17, <4>1
      <4>2. CASE ~ends
        BY <2>17, <3>3, <4>2
      <4> QED
        BY <4>1, <4>2
    <3>6. ~(t < o + 1)
      BY <2>1
    <3>7. Rising(native'.text) /\ \A i \in DOMAIN native'.text : native'.text[i].n <= pieces'
      BY <1>0, <1>2 DEF OrderInv
    <3> QED
      BY <1>2, <1>3, <2>18, <3>1, <3>4, <3>5, <3>6, <3>7 DEF NativeInv
  <2>24. OrderInv'
    BY <2>14, <2>16, <2>23 DEF OrderInv, NativeInv
  <2> QED
    BY <2>14, <2>19, <2>21, <2>22, <2>24 DEF LogsInv
<1> QED
  BY <1>6, <1>7

-----------------------------------------------------------------------------
(* Files that are pruned, deleted or cleared *)

\* Each file is as it was, or empty.
Less == \A n \in DOMAIN logFiles' : n \in DOMAIN logFiles
    /\ (logFiles'[n] = logFiles[n] \/ logFiles'[n] = <<>>)

\* What is left of the lines is in order.
LEMMA LessIsTidy ==
  ASSUME Tidy(logFiles), Less
  PROVE  Tidy(logFiles') /\ \A p \in Pieces : Caught(logFiles', p) => Caught(logFiles, p)
<1>1. \A n \in DOMAIN logFiles' : \A i \in DOMAIN logFiles'[n] :
        n \in DOMAIN logFiles /\ i \in DOMAIN logFiles[n] /\ logFiles'[n][i] = logFiles[n][i]
  BY DEF Less
<1>2. ASSUME NEW m \in DOMAIN logFiles', NEW n \in DOMAIN logFiles',
             NEW i \in DOMAIN logFiles'[m], NEW k \in DOMAIN logFiles'[n],
             NEW j \in DOMAIN logFiles'[m][i], NEW l \in DOMAIN logFiles'[n][k],
             logFiles'[m][i][j].by = logFiles'[n][k][l].by, Logs!Precedes(m, i, j, n, k, l)
      PROVE  logFiles'[m][i][j].n < logFiles'[n][k][l].n
  <2>1. /\ m \in DOMAIN logFiles /\ i \in DOMAIN logFiles[m] /\ logFiles'[m][i] = logFiles[m][i]
        /\ n \in DOMAIN logFiles /\ k \in DOMAIN logFiles[n] /\ logFiles'[n][k] = logFiles[n][k]
    BY <1>1
  <2> QED
    BY <1>2, <2>1 DEF Tidy, InOrder
<1>3. ASSUME NEW n \in DOMAIN logFiles', NEW i \in DOMAIN logFiles'[n] PROVE Alike(logFiles'[n][i])
  BY <1>1 DEF Tidy
<1>4. ASSUME NEW p \in Pieces, Caught(logFiles', p) PROVE Caught(logFiles, p)
  <2>1. PICK n \in DOMAIN logFiles' : \E i \in DOMAIN logFiles'[n] : \E j
             \in DOMAIN logFiles'[n][i] : p = logFiles'[n][i][j]
    BY <1>4 DEF Caught
  <2>2. PICK i \in DOMAIN logFiles'[n] : \E j \in DOMAIN logFiles'[n][i] : p = logFiles'[n][i][j]
    BY <2>1
  <2> QED
    BY <1>1, <2>2 DEF Caught
<1> QED
  BY <1>2, <1>3, <1>4 DEF Tidy, InOrder

\* Nothing is newly caught, and who writes is where it was.
LEMMA OrderStays ==
  ASSUME OrderInv, Tidy(logFiles'), \A p \in Pieces : Caught(logFiles', p) => Caught(logFiles, p),
         UNCHANGED <<pieces, native, unwritten, follower>>
  PROVE  OrderInv'
<1>1. \A w \in Logs!Writers : /\ Rising(unwritten'[w]) /\ Below(logFiles', unwritten'[w])
                              /\ \A i \in DOMAIN unwritten'[w] : unwritten'[w][i].n <= pieces'
  BY DEF OrderInv, Below
<1>2. Logs!Replaced' <=> Logs!Replaced
  BY DEF Logs!Replaced
<1>3. \A p \in Pieces : Caught(logFiles', p) => p.n <= pieces'
  BY DEF OrderInv
<1>4. NativeInv'
  BY <1>2 DEF OrderInv, NativeInv
<1> QED
  BY <1>1, <1>3, <1>4 DEF OrderInv, NativeInv

\* The names are those of before.
LEMMA RoomIsLeft ==
  ASSUME RoomInv, DOMAIN logFiles' \subseteq DOMAIN logFiles,
         UNCHANGED <<pieces, native, unwritten, follower>>
  PROVE  RoomInv'
<1>1. InHand' = InHand
  BY DEF InHand, Ahead, Logs!Replaced
<1> QED
  BY <1>1 DEF RoomInv

\* Fewer files.
LEMMA PruneKeeps ==
  ASSUME LogsInv, NEW names, KeepsToday(names), logFiles' = [n \in names |-> logFiles[n]],
         UNCHANGED <<Logs!worldVars, logFile, unwritten, follower, reader>>,
         reader.file \in names /\ reader.generation = Logs!Generation(reader.file)'
           => reader.generation = Logs!Generation(reader.file)
  PROVE  /\ FilesInv' /\ RoomInv' /\ ReaderInv' /\ FollowInv' /\ OrderInv'
         /\ DOMAIN logFiles' \subseteq Logs!Names
             /\ logFiles' \in [DOMAIN logFiles' -> Seq(Seq(Pieces))]
<1>0. LogTypes /\ FilesInv /\ RoomInv /\ ReaderInv /\ FollowInv /\ OrderInv
  BY DEF LogsInv
<1>1. UNCHANGED <<day, logging, pieces, native>>
  BY DEF Logs!worldVars
<1>2. names \subseteq DOMAIN logFiles /\ DOMAIN logFiles' = names /\ \A n \in names :
        logFiles'[n] = logFiles[n]
  BY DEF KeepsToday
<1>3. FilesInv'
  BY <1>0, <1>1, <1>2 DEF FilesInv
<1>4. RoomInv'
  BY <1>0, <1>1, <1>2, RoomIsLeft
<1>5. ReaderInv'
  BY <1>0, <1>1, PrunedReader
<1>6. FollowInv'
  BY <1>0, <1>1 DEF FollowInv
<1>7. Tidy(logFiles') /\ \A p \in Pieces : Caught(logFiles', p) => Caught(logFiles, p)
  <2>1. Less
    BY <1>2 DEF Less
  <2> QED
    BY <1>0, <2>1, LessIsTidy DEF OrderInv
<1>8. OrderInv'
  BY <1>0, <1>1, <1>7, OrderStays
<1>9. DOMAIN logFiles' \subseteq Logs!Names /\ logFiles' \in [DOMAIN logFiles' -> Seq(Seq(Pieces))]
  BY <1>0, <1>2 DEF LogTypes
<1> QED
  BY <1>3, <1>4, <1>5, <1>6, <1>8, <1>9

LEMMA SetPolicyKeeps == ASSUME LogsInv, NEW p \in Policies, Logs!SetPolicy(p) PROVE LogsInv'
<1>0. LogTypes /\ FilesInv /\ RoomInv /\ ReaderInv /\ FollowInv /\ OrderInv
  BY DEF LogsInv
<1>1. PICK names : names = Logs!Retained(DOMAIN logFiles, logFile, p, day)
  OBVIOUS
<1>2. /\ policy' = p /\ logFiles' = [n \in names |-> logFiles[n]]
      /\ generations' = [n \in names \cap DOMAIN generations |-> generations[n]]
      /\ UNCHANGED <<Logs!worldVars, logFile, epoch, drawn, unwritten, follower, reader>>
  BY <1>1 DEF Logs!SetPolicy, Logs!Prune, Logs!Restrict
<1>3. KeepsToday(names)
  <2>1. logFile \in DOMAIN logFiles => \A n \in DOMAIN logFiles :
          n = logFile \/ Logs!Older(n, logFile)
    BY <1>0, NoFileIsNone DEF FilesInv, LogTypes
  <2>2. /\ Logs!Retained(DOMAIN logFiles, logFile, p, day) \subseteq DOMAIN logFiles
        /\ \A n \in DOMAIN logFiles : n[1] = day =>
             \E m \in Logs!Retained(DOMAIN logFiles, logFile, p, day) :
                 m[1] = day /\ (m = n \/ Logs!Older(n, m))
    BY <1>0, <2>1, NewestIsRetained
  <2> QED
    BY <1>1, <2>2 DEF KeepsToday
<1>4. reader.file \in names => Logs!Generation(reader.file)' = Logs!Generation(reader.file)
  BY <1>2 DEF Logs!Generation
<1>5. /\ FilesInv' /\ RoomInv' /\ ReaderInv' /\ FollowInv' /\ OrderInv'
      /\ DOMAIN logFiles' \subseteq Logs!Names
          /\ logFiles' \in [DOMAIN logFiles' -> Seq(Seq(Pieces))]
  BY <1>2, <1>3, <1>4, PruneKeeps
<1>6. DOMAIN generations' \subseteq Logs!Names
        /\ generations' \in [DOMAIN generations' -> 1 .. drawn]
  BY <1>0, <1>2 DEF LogTypes
<1>7. LogTypes'
  BY <1>0, <1>2, <1>5, <1>6 DEF LogTypes, Logs!worldVars
<1> QED
  BY <1>5, <1>7 DEF LogsInv

LEMMA LogDeleteKeeps == ASSUME LogsInv, NEW name \in DOMAIN logFiles, Logs!Delete(name)
                               PROVE LogsInv'
<1>0. LogTypes /\ FilesInv /\ RoomInv /\ ReaderInv /\ FollowInv /\ OrderInv
  BY DEF LogsInv
<1>1. PICK names : names = DOMAIN logFiles \ {name}
  OBVIOUS
<1>2. /\ name[1] # day /\ logFiles' = [n \in names |-> logFiles[n]]
      /\ generations' = [n \in DOMAIN generations \ {name} |-> generations[n]]
      /\ UNCHANGED <<Logs!worldVars, policy, logFile, epoch, drawn, unwritten, follower, reader>>
  BY <1>1 DEF Logs!Delete, Logs!Restrict
<1>3. KeepsToday(names)
  BY <1>1, <1>2 DEF KeepsToday
<1>4. reader.file \in names => Logs!Generation(reader.file)' = Logs!Generation(reader.file)
  BY <1>1, <1>2 DEF Logs!Generation
<1>5. /\ FilesInv' /\ RoomInv' /\ ReaderInv' /\ FollowInv' /\ OrderInv'
      /\ DOMAIN logFiles' \subseteq Logs!Names
          /\ logFiles' \in [DOMAIN logFiles' -> Seq(Seq(Pieces))]
  BY <1>2, <1>3, <1>4, PruneKeeps
<1>6. DOMAIN generations' \subseteq Logs!Names
        /\ generations' \in [DOMAIN generations' -> 1 .. drawn]
  BY <1>0, <1>2 DEF LogTypes
<1>7. LogTypes'
  BY <1>0, <1>2, <1>5, <1>6 DEF LogTypes, Logs!worldVars
<1> QED
  BY <1>5, <1>7 DEF LogsInv

LEMMA ClearKeeps == ASSUME LogsInv, NEW name \in DOMAIN logFiles, Logs!Clear(name) PROVE LogsInv'
<1>0. LogTypes /\ FilesInv /\ RoomInv /\ ReaderInv /\ FollowInv /\ OrderInv
  BY DEF LogsInv
<1>1. /\ logFiles' = [logFiles EXCEPT ![name] = <<>>] /\ drawn' = drawn + 1
      /\ generations' = [n \in DOMAIN generations \cup {name} |-> IF n = name THEN drawn'
          ELSE generations[n]]
      /\ UNCHANGED <<Logs!worldVars, policy, logFile, epoch, unwritten, follower, reader>>
  BY DEF Logs!Clear
<1>2. UNCHANGED <<day, logging, pieces, native>>
  BY <1>1 DEF Logs!worldVars
<1>3. /\ DOMAIN logFiles' = DOMAIN logFiles /\ logFiles'[name] = <<>>
      /\ \A n \in DOMAIN logFiles : n # name => logFiles'[n] = logFiles[n]
  BY <1>0, <1>1 DEF LogTypes
<1>4. drawn \in Nat /\ drawn' \in Nat
  BY <1>0, <1>1 DEF LogTypes
<1>5. LogTypes'
  <2>1. /\ epoch \in 1 .. drawn' /\ \A g \in 1 .. drawn : g \in 1 .. drawn'
        /\ drawn' \in 1 .. drawn' /\ \A g \in 0 .. drawn : g \in 0 .. drawn'
    BY <1>0, <1>1, <1>4 DEF LogTypes
  <2>2. logFiles' \in [DOMAIN logFiles' -> Seq(Seq(Pieces))]
    <3>1. <<>> \in Seq(Seq(Pieces))
      OBVIOUS
    <3> QED
      BY <1>0, <1>1, <3>1 DEF LogTypes
  <2>3. DOMAIN generations' \subseteq Logs!Names
          /\ generations' \in [DOMAIN generations' -> 1 .. drawn']
    BY <1>0, <1>1, <2>1 DEF LogTypes
  <2>4. reader' \in [file : Logs!Names \cup {Logs!NoFile}, generation : 0 .. drawn', from : Nat,
          offset : Nat,
                     text : Seq(Seq(Pieces))]
    BY <1>0, <1>1, <2>1 DEF LogTypes
  <2> QED
    BY <1>0, <1>1, <1>2, <1>3, <1>4, <2>1, <2>2, <2>3, <2>4 DEF LogTypes
<1>6. FilesInv'
  BY <1>0, <1>1, <1>2, <1>3 DEF FilesInv
<1>7. RoomInv'
  BY <1>0, <1>1, <1>2, <1>3, RoomIsLeft
<1>8. ReaderInv'
  <2>1. CASE reader.file = name
    <3>1. Logs!Generation(name)' = drawn'
      BY <1>1 DEF Logs!Generation
    <3>2. reader.generation \in 0 .. drawn
      BY <1>0 DEF LogTypes
    <3>3. reader.generation # drawn'
      BY <1>1, <1>4, <3>2
    <3>4. reader.generation # Logs!Generation(reader.file)'
      BY <1>1, <2>1, <3>3 DEF Logs!Generation
    <3> QED
      BY <1>0, <1>1, <1>3, <2>1, <3>4 DEF ReaderInv
  <2>2. CASE reader.file # name
    <3>1. Logs!Generation(reader.file)' = Logs!Generation(reader.file)
      BY <1>1, <2>2 DEF Logs!Generation
    <3> QED
      BY <1>0, <1>1, <1>2, <1>3, <2>2, <3>1 DEF ReaderInv
  <2> QED
    BY <2>1, <2>2
<1>9. FollowInv'
  BY <1>0, <1>1, <1>2 DEF FollowInv
<1>10. OrderInv'
  <2>1. Less
    BY <1>3 DEF Less
  <2>2. Tidy(logFiles') /\ \A p \in Pieces : Caught(logFiles', p) => Caught(logFiles, p)
    BY <1>0, <2>1, LessIsTidy DEF OrderInv
  <2> QED
    BY <1>0, <1>1, <1>2, <2>2, OrderStays
<1> QED
  BY <1>5, <1>6, <1>7, <1>8, <1>9, <1>10 DEF LogsInv

LEMMA RestartPanelKeeps == ASSUME LogsInv, Logs!RestartPanel PROVE LogsInv'
<1>0. LogTypes /\ FilesInv /\ RoomInv /\ ReaderInv /\ FollowInv /\ OrderInv
  BY DEF LogsInv
<1>1. PICK names : names = Logs!Retained(DOMAIN logFiles, Logs!NoFile, policy, day)
  OBVIOUS
<1>2. /\ logging' = 0 /\ drawn' = drawn + 1 /\ epoch' = drawn' /\ logFile' = Logs!NoFile
      /\ unwritten' = [w \in Logs!Writers |-> <<>>] /\ follower' = Logs!NotFollowing
      /\ logFiles' = [n \in names |-> logFiles[n]] /\ generations' = [n \in {} |-> n]
      /\ UNCHANGED <<day, pieces, native, policy, reader>>
  BY <1>1 DEF Logs!RestartPanel, Logs!Restrict
<1>3. KeepsToday(names)
  <2>1. Logs!NoFile \notin DOMAIN logFiles /\ policy \in Policies
    BY <1>0, NoFileIsNone DEF LogTypes
  <2>2. /\ Logs!Retained(DOMAIN logFiles, Logs!NoFile, policy, day) \subseteq DOMAIN logFiles
        /\ \A n \in DOMAIN logFiles : n[1] = day =>
             \E m \in Logs!Retained(DOMAIN logFiles, Logs!NoFile, policy, day) :
                 m[1] = day /\ (m = n \/ Logs!Older(n, m))
    BY <1>0, <2>1, NewestIsRetained
  <2> QED
    BY <1>1, <2>2 DEF KeepsToday
<1>4. drawn \in Nat /\ drawn' \in Nat
  BY <1>0, <1>2 DEF LogTypes
<1>5. names \subseteq DOMAIN logFiles /\ DOMAIN logFiles' = names /\ \A n \in names :
        logFiles'[n] = logFiles[n]
  BY <1>2, <1>3 DEF KeepsToday
<1>6. /\ follower'.on = FALSE /\ \A w \in Logs!Writers : unwritten'[w] = <<>>
      /\ "output" \in Logs!Writers /\ "file" \in Logs!Writers
  BY <1>2 DEF Logs!NotFollowing, Logs!Writers
<1>7. LogTypes'
  <2>1. epoch' \in 1 .. drawn' /\ \A g \in 0 .. drawn : g \in 0 .. drawn'
    BY <1>2, <1>4
  <2>2. /\ DOMAIN logFiles' \subseteq Logs!Names
            /\ logFiles' \in [DOMAIN logFiles' -> Seq(Seq(Pieces))]
        /\ DOMAIN generations' \subseteq Logs!Names
            /\ generations' \in [DOMAIN generations' -> 1 .. drawn']
    BY <1>0, <1>2, <1>5 DEF LogTypes
  <2>3. unwritten' \in [Logs!Writers -> Seq(Pieces)]
    <3>1. <<>> \in Seq(Pieces)
      OBVIOUS
    <3> QED
      BY <1>2, <3>1
  <2>4. follower' \in [on : BOOLEAN, inode : Nat, offset : Nat]
    BY <1>2 DEF Logs!NotFollowing
  <2>5. logging' \in 0 .. MaxPieces
    BY <1>2, LogBounds
  <2>6. reader' \in [file : Logs!Names \cup {Logs!NoFile}, generation : 0 .. drawn', from : Nat,
          offset : Nat,
                     text : Seq(Seq(Pieces))]
    BY <1>0, <1>2, <2>1 DEF LogTypes
  <2> QED
    BY <1>0, <1>2, <1>4, <2>1, <2>2, <2>3, <2>4, <2>5, <2>6 DEF LogTypes
<1>8. FilesInv'
  BY <1>0, <1>2, <1>5 DEF FilesInv
<1>9. RoomInv'
  <2>1. Ahead' = 0
    BY <1>6 DEF Ahead
  <2>2. Len(unwritten'["output"]) = 0 /\ Len(unwritten'["file"]) = 0
    BY <1>6
  <2>3. InHand' = 0
    BY <2>1, <2>2 DEF InHand
  <2>4. pieces \in Nat
    BY <1>0, Numbers
  <2>5. ASSUME NEW n \in DOMAIN logFiles' PROVE n[2] + 0 <= pieces
    <3>1. n \in DOMAIN logFiles
      BY <1>5
    <3>2. PICK k \in Nat, h \in Nat : k = n[2] /\ h = InHand
      BY <1>0, <3>1, Numbers
    <3>3. k + h <= pieces
      BY <1>0, <3>1, <3>2 DEF RoomInv
    <3>4. k <= pieces
      BY <2>4, <3>3
    <3> QED
      BY <3>2, <3>4
  <2> QED
    BY <1>2, <2>3, <2>4, <2>5 DEF RoomInv
<1>10. ReaderInv'
  <2>1. reader.generation \in 0 .. drawn
    BY <1>0 DEF LogTypes
  <2>2. Logs!Generation(reader.file)' = drawn'
    BY <1>2 DEF Logs!Generation
  <2>3. reader.generation # Logs!Generation(reader.file)'
    BY <1>2, <1>4, <2>1, <2>2
  <2> QED
    BY <1>0, <1>2, <1>3, <2>3, PrunedReader
<1>11. FollowInv'
  BY <1>0, <1>2, <1>6 DEF FollowInv
<1>12. OrderInv'
  <2>1. Less
    BY <1>5 DEF Less
  <2>2. Tidy(logFiles') /\ \A p \in Pieces : Caught(logFiles', p) => Caught(logFiles, p)
    BY <1>0, <2>1, LessIsTidy DEF OrderInv
  <2>3. \A w \in Logs!Writers : /\ Rising(unwritten'[w]) /\ Below(logFiles', unwritten'[w])
                                /\ \A i \in DOMAIN unwritten'[w] : unwritten'[w][i].n <= pieces'
    BY <1>6 DEF Rising, Below
  <2>4. NativeInv'
    BY <1>0, <1>2, <1>6 DEF OrderInv, NativeInv
  <2> QED
    BY <1>0, <1>2, <2>2, <2>3, <2>4 DEF OrderInv, NativeInv
<1> QED
  BY <1>7, <1>8, <1>9, <1>10, <1>11, <1>12 DEF LogsInv

-----------------------------------------------------------------------------
(* The other steps *)

LEMMA EnsureCurrentFileKeeps == ASSUME LogsInv, Logs!EnsureCurrentFile PROVE LogsInv'
<1>0. LogTypes /\ FilesInv /\ RoomInv /\ ReaderInv /\ FollowInv /\ OrderInv
  BY DEF LogsInv
<1>1. PICK lines \in Seq(Seq(Pieces)) : lines = <<>>
  <2>1. <<>> \in Seq(Seq(Pieces))
    OBVIOUS
  <2> QED
    BY <2>1
<1>2. Logs!append(lines) /\ UNCHANGED <<Logs!worldVars, policy, epoch, drawn, unwritten, follower,
        reader>>
  BY <1>1 DEF Logs!EnsureCurrentFile
<1>3. UNCHANGED <<day, logging, pieces, native, policy, epoch, drawn, unwritten, follower, reader>>
  BY <1>2 DEF Logs!worldVars
<1>4. Len(lines) <= 1 /\ DOMAIN lines = {}
  BY <1>1
<1>5. Tidy(logFiles)
  BY <1>0 DEF OrderInv
<1>6. /\ FileTypes' /\ FilesInv' /\ ReaderInv' /\ Tidy(logFiles')
      /\ \A p \in Pieces : Caught(logFiles', p) =>
           Caught(logFiles, p) \/ (1 \in DOMAIN lines /\ \E j \in DOMAIN lines[1] : p = lines[1][j])
      /\ \A n \in DOMAIN logFiles' :
           n \in DOMAIN logFiles \/ n[2] = 0
           \/ (lines # <<>> /\ \E m \in DOMAIN logFiles : n[2] = m[2] + 1)
  BY <1>0, <1>1, <1>2, <1>3, <1>4, <1>5, AppendKeeps
<1>7. LogTypes'
  BY <1>0, <1>3, <1>6 DEF LogTypes, FileTypes
<1>8. RoomInv'
  <2>1. Spread(<<>>, FALSE)
    BY <1>1, <1>4, <1>6 DEF Spread
  <2>2. InHand' = InHand
    BY <1>3 DEF InHand, Ahead, Logs!Replaced
  <2>3. /\ InHand' \in Nat /\ pieces' \in Nat /\ InHand' <= pieces' /\ pieces <= pieces'
        /\ InHand' + pieces <= InHand + pieces'
    BY <1>0, <1>3, <2>2, Numbers DEF RoomInv
  <2> QED
    BY <1>0, <2>1, <2>3, RoomStays
<1>9. FollowInv'
  BY <1>0, <1>3 DEF FollowInv
<1>10. OrderInv'
  BY <1>0, <1>3, <1>4, <1>6, OrderStays
<1> QED
  BY <1>6, <1>7, <1>8, <1>9, <1>10 DEF LogsInv

\* A chunk is a part of the file, from where it was asked for.
LEMMA ChunkIsPart ==
  ASSUME LogTypes, NEW name \in DOMAIN logFiles, NEW offset \in Nat, offset <= Len(logFiles[name]),
         NEW tail \in BOOLEAN, NEW c, c = Logs!Chunk(name, offset, tail)
  PROVE  /\ c.from \in Nat /\ c.next \in Nat /\ c.from <= c.next /\ c.next <= Len(logFiles[name])
         /\ c.text = SubSeq(logFiles[name], c.from + 1, c.next) /\ c.text \in Seq(Seq(Pieces))
         /\ tail \/ c.from = offset
<1>1. PICK size \in Nat : size = Len(logFiles[name]) /\ DOMAIN logFiles[name] = 1 .. size
           /\ offset <= size
                          /\ \A i \in 1 .. size : logFiles[name][i] \in Seq(Pieces)
  <2>1. logFiles[name] \in Seq(Seq(Pieces))
    BY DEF LogTypes
  <2> QED
    BY <2>1
<1>0. PICK most \in Nat : most = ChunkLines /\ most > 0
  BY LogBounds
<1>2. PICK start \in Nat : start = IF ~tail THEN offset ELSE IF size > ChunkLines
           THEN size - ChunkLines ELSE 0
  <2>1. (IF size > most THEN size - most ELSE 0) \in Nat
    OBVIOUS
  <2> QED
    BY <1>0, <2>1
<1>3. PICK end \in Nat : end = IF start + ChunkLines < size THEN start + ChunkLines ELSE size
  BY <1>0
<1>4. PICK skipped \in Nat : skipped = IF tail /\ start > 0 THEN 1 ELSE 0
  OBVIOUS
<1>5. c = [from |-> start + skipped, next |-> end,
        text |-> SubSeq(logFiles[name], start + skipped + 1, end)]
  BY <1>1, <1>2, <1>3, <1>4 DEF Logs!Chunk
<1>6. end <= size /\ start + skipped <= end /\ (~tail => start + skipped = offset)
  <2>1. end = IF start + most < size THEN start + most ELSE size
    BY <1>0, <1>3
  <2>2. CASE ~tail
    <3>1. start = offset /\ skipped = 0
      BY <1>2, <1>4, <2>2
    <3> QED
      BY <1>0, <1>1, <2>1, <2>2, <3>1
  <2>3. CASE tail
    <3>1. start = IF size > most THEN size - most ELSE 0
      BY <1>0, <1>2, <2>3
    <3>2. skipped = IF start > 0 THEN 1 ELSE 0
      BY <1>4, <2>3
    <3>3. end <= size /\ start + skipped <= end
      BY <1>0, <2>1, <3>1, <3>2
    <3> QED
      BY <2>3, <3>3
  <2> QED
    BY <2>2, <2>3
<1>7. SubSeq(logFiles[name], start + skipped + 1, end) \in Seq(Seq(Pieces))
  <2>1. \A i \in start + skipped + 1 .. end : logFiles[name][i] \in Seq(Pieces)
    BY <1>1, <1>6
  <2>2. start + skipped + 1 \in Int /\ end \in Int
    OBVIOUS
  <2> QED
    BY <2>1, <2>2, SubSeqProperties
<1> QED
  BY <1>1, <1>5, <1>6, <1>7

\* A reader that has put together a part of the file keeps everything else as it is.
LEMMA ReceiveKeeps ==
  ASSUME LogsInv, NEW name \in DOMAIN logFiles, NEW chunk, NEW anew,
         Logs!Receive(name, chunk, anew),
         NEW from \in Nat, NEW offset \in Nat, from <= offset, offset <= Len(logFiles[name]),
         reader'.from = from, reader'.offset = offset,
         reader'.text = SubSeq(logFiles[name], from + 1, offset), reader'.text \in Seq(Seq(Pieces))
  PROVE  LogsInv'
<1>0. LogTypes /\ FilesInv /\ RoomInv /\ ReaderInv /\ FollowInv /\ OrderInv
  BY DEF LogsInv
<1>7. PICK text \in Seq(Seq(Pieces)) : text = reader'.text
  OBVIOUS
<1>1. /\ UNCHANGED <<Logs!worldVars, Logs!fileVars, unwritten, follower, logEvents>>
      /\ reader' = [file |-> name, generation |-> Logs!Generation(name), offset |-> offset,
          from |-> from,
                    text |-> text]
  BY <1>7 DEF Logs!Receive
<1>2. UNCHANGED <<day, logging, pieces, native, logFiles, policy, logFile, epoch, generations,
        drawn, unwritten, follower>>
  BY <1>1 DEF Logs!worldVars, Logs!fileVars
<1>3. Logs!Generation(name) \in 0 .. drawn /\ name \in Logs!Names
  <2>1. drawn \in Nat /\ Logs!Generation(name) \in 1 .. drawn /\ name \in Logs!Names
    BY <1>0 DEF Logs!Generation, LogTypes
  <2> QED
    BY <2>1
<1>4. LogTypes'
  <2>1. reader' \in [file : Logs!Names \cup {Logs!NoFile}, generation : 0 .. drawn, from : Nat,
          offset : Nat,
                     text : Seq(Seq(Pieces))]
    BY <1>1, <1>3
  <2> QED
    BY <1>0, <1>2, <2>1 DEF LogTypes
<1>5. FilesInv' /\ RoomInv' /\ FollowInv' /\ OrderInv'
  <2>1. FilesInv'
    BY <1>0, <1>2 DEF FilesInv
  <2>2. RoomInv'
    BY <1>0, <1>2, RoomIsLeft
  <2>3. FollowInv'
    BY <1>0, <1>2 DEF FollowInv
  <2>4. OrderInv'
    BY <1>0, <1>2, OrderStays DEF OrderInv
  <2> QED
    BY <2>1, <2>2, <2>3, <2>4
<1>6. ReaderInv'
  <2>1. /\ reader'.file = name /\ name \in DOMAIN logFiles' /\ logFiles' = logFiles
    BY <1>1, <1>2
  <2> QED
    BY <2>1 DEF ReaderInv
<1> QED
  BY <1>4, <1>5, <1>6 DEF LogsInv

LEMMA readCoreLogKeeps == ASSUME LogsInv, NEW name \in DOMAIN logFiles, Logs!readCoreLog(name)
                                 PROVE LogsInv'
<1>0. PICK tail \in BOOLEAN, offset \in Nat : tail = TRUE /\ offset = 0
  OBVIOUS
<1>1. PICK c : c = Logs!Chunk(name, offset, tail)
  OBVIOUS
<1>2. Logs!Receive(name, c, TRUE)
  BY <1>0, <1>1 DEF Logs!readCoreLog
<1>3. /\ c.from \in Nat /\ c.next \in Nat /\ c.from <= c.next /\ c.next <= Len(logFiles[name])
      /\ c.text = SubSeq(logFiles[name], c.from + 1, c.next) /\ c.text \in Seq(Seq(Pieces))
  <2>1. LogTypes /\ offset <= Len(logFiles[name])
    <3>1. LogTypes
      BY DEF LogsInv
    <3>2. logFiles[name] \in Seq(Seq(Pieces))
      BY <3>1 DEF LogTypes
    <3> QED
      BY <1>0, <3>1, <3>2
  <2> QED
    BY <1>1, <2>1, ChunkIsPart
<1>4. reader'.from = c.from /\ reader'.offset = c.next /\ reader'.text = c.text
  BY <1>2 DEF Logs!Receive
<1> QED
  BY <1>2, <1>3, <1>4, ReceiveKeeps

LEMMA ReadKeeps == ASSUME LogsInv, Logs!Read PROVE LogsInv'
<1>0. LogTypes /\ ReaderInv
  BY DEF LogsInv
<1>1. PICK name \in DOMAIN logFiles : name = reader.file
  BY DEF Logs!Read
<1>2. PICK reset \in BOOLEAN : reset <=> reader.generation # Logs!Generation(name)
  OBVIOUS
<1>3. PICK offset \in Nat : offset = IF reset THEN 0 ELSE reader.offset
  BY <1>0 DEF LogTypes
<1>9. PICK tail \in BOOLEAN : tail = FALSE
  OBVIOUS
<1>4. PICK c : c = Logs!Chunk(name, offset, tail)
  OBVIOUS
<1>5. offset <= Len(logFiles[name]) /\ Logs!Receive(name, c, reset)
  BY <1>1, <1>2, <1>3, <1>4, <1>9 DEF Logs!Read
<1>6. /\ c.from \in Nat /\ c.next \in Nat /\ c.from <= c.next /\ c.next <= Len(logFiles[name])
      /\ c.text = SubSeq(logFiles[name], c.from + 1, c.next) /\ c.text \in Seq(Seq(Pieces))
          /\ c.from = offset
  <2>1. /\ c.from \in Nat /\ c.next \in Nat /\ c.from <= c.next /\ c.next <= Len(logFiles[name])
        /\ c.text = SubSeq(logFiles[name], c.from + 1, c.next) /\ c.text \in Seq(Seq(Pieces))
        /\ tail \/ c.from = offset
    <3>1. /\ LogTypes /\ name \in DOMAIN logFiles /\ offset \in Nat /\ offset <= Len(logFiles[name])
          /\ tail \in BOOLEAN /\ c = Logs!Chunk(name, offset, tail)
      BY <1>0, <1>4, <1>5
    <3> QED
      BY ONLY <3>1, ChunkIsPart
  <2> QED
    BY <1>9, <2>1
<1>7. CASE reset
  <2>1. reader'.from = c.from /\ reader'.offset = c.next /\ reader'.text = c.text
    BY <1>5, <1>7 DEF Logs!Receive
  <2> QED
    BY <1>5, <1>6, <2>1, ReceiveKeeps
<1>8. CASE ~reset
  <2>1. PICK s : s = logFiles[name] /\ s \in Seq(Seq(Pieces))
    BY <1>0 DEF LogTypes
  <2>2. PICK f \in Nat, o \in Nat : f = reader.from /\ o = reader.offset
    BY <1>0 DEF LogTypes
  <2>3. PICK z \in Nat, n \in Nat : z = Len(s) /\ n = c.next
    BY <1>6, <2>1
  <2>4. offset = o /\ f <= o /\ o <= n /\ n <= z
    BY <1>0, <1>3, <1>5, <1>6, <1>8, <2>1, <2>2, <2>3 DEF ReaderInv
  <2>5. reader.text = SubSeq(s, f + 1, o)
    BY <1>0, <1>1, <1>2, <1>8, <2>1, <2>2 DEF ReaderInv
  <2>6. c.text = SubSeq(s, o + 1, n)
    BY <1>6, <2>1, <2>3, <2>4
  <2>7. SubSeq(s, f + 1, o) \o SubSeq(s, o + 1, n) = SubSeq(s, f + 1, n)
    <3>1. f + 1 \in 1 .. Len(s) + 1 /\ o \in (f + 1) - 1 .. Len(s) /\ n \in o .. Len(s)
      BY <2>3, <2>4
    <3> QED
      BY <2>1, <3>1, ConcatAdjacentSubSeq
  <2>8. reader'.from = f /\ reader'.offset = n /\ reader'.text = reader.text \o c.text
    BY <1>5, <1>8, <2>2, <2>3 DEF Logs!Receive
  <2>9. reader'.text = SubSeq(logFiles[name], f + 1, n)
    BY <2>1, <2>5, <2>6, <2>7, <2>8
  <2>10. reader'.text \in Seq(Seq(Pieces))
    <3>1. reader.text \in Seq(Seq(Pieces)) /\ c.text \in Seq(Seq(Pieces))
      BY <1>0, <1>6 DEF LogTypes
    <3> QED
      BY <2>8, <3>1, ConcatProperties
  <2>11. f <= n /\ n <= Len(logFiles[name])
    BY <2>1, <2>3, <2>4
  <2> QED
    BY <1>5, <2>8, <2>9, <2>10, <2>11, ReceiveKeeps
<1> QED
  BY <1>7, <1>8

LEMMA FollowKeeps == ASSUME LogsInv, Logs!Follow PROVE LogsInv'
<1>0. LogTypes /\ FilesInv /\ RoomInv /\ ReaderInv /\ FollowInv /\ OrderInv
  BY DEF LogsInv
<1>1. /\ logging = 0 /\ ~follower.on /\ unwritten["output"] = <<>> /\ pieces < MaxPieces
          /\ logging' = pieces + 1
      /\ follower' = [on |-> TRUE, inode |-> native.inode, offset |-> Len(native.text)]
      /\ UNCHANGED <<day, pieces, native, Logs!fileVars, unwritten, reader>>
  BY DEF Logs!Follow
<1>2. UNCHANGED <<day, pieces, native, logFiles, policy, logFile, epoch, generations, drawn,
        unwritten, reader>>
  BY <1>1 DEF Logs!fileVars
<1>3. PICK t \in Nat : t = Len(native.text)
  BY <1>0, Numbers
<1>4. LogTypes'
  <2>1. logging' \in 0 .. MaxPieces
    BY <1>0, <1>1, Numbers
  <2>2. follower' \in [on : BOOLEAN, inode : Nat, offset : Nat]
    BY <1>0, <1>1, <1>3 DEF LogTypes
  <2> QED
    BY <1>0, <1>2, <2>1, <2>2 DEF LogTypes
<1>5. ~Logs!Replaced' /\ Ahead' = 0 /\ Ahead = 0
  <2>1. follower'.on /\ follower'.inode = native.inode /\ follower'.offset = t
    BY <1>1, <1>3
  <2>2. ~Logs!Replaced'
    BY <1>2, <1>3, <2>1 DEF Logs!Replaced
  <2>3. Ahead' = t - t
    BY <1>2, <1>3, <2>1, <2>2 DEF Ahead
  <2> QED
    BY <1>1, <2>2, <2>3 DEF Ahead
<1>6. FilesInv'
  BY <1>0, <1>2 DEF FilesInv
<1>7. RoomInv'
  <2>1. InHand' = InHand
    BY <1>2, <1>5 DEF InHand
  <2> QED
    BY <1>0, <1>2, <2>1 DEF RoomInv
<1>8. ReaderInv'
  BY <1>0, <1>2 DEF ReaderInv, Logs!Generation
<1>9. FollowInv'
  BY <1>0, <1>1, <1>2 DEF FollowInv
<1>10. OrderInv'
  <2>1. \A k \in DOMAIN native'.text : ~(follower'.offset < k)
    <3>1. native.text \in Seq(Pieces)
      BY <1>0 DEF LogTypes
    <3>2. \A k \in DOMAIN native.text : ~(t < k)
      BY <1>3, <3>1
    <3>3. follower'.offset = t
      BY <1>1, <1>3
    <3> QED
      BY <1>2, <3>2, <3>3
  <2> QED
    BY <1>0, <1>2, <1>5, <2>1 DEF OrderInv
<1> QED
  BY <1>4, <1>6, <1>7, <1>8, <1>9, <1>10 DEF LogsInv

LEMMA WriteNativeKeeps == ASSUME LogsInv, NEW ends \in BOOLEAN, Logs!WriteNative(ends)
                                 PROVE LogsInv'
<1>0. LogTypes /\ FilesInv /\ RoomInv /\ ReaderInv /\ FollowInv /\ OrderInv
  BY DEF LogsInv
<1>1. PICK piece : piece = [by |-> "file", from |-> native.inode, n |-> pieces + 1, ends |-> ends]
  OBVIOUS
<1>2. /\ logging # 0 /\ pieces < MaxPieces /\ pieces' = pieces + 1
      /\ native' = [native EXCEPT !.text = Append(@, piece)]
      /\ UNCHANGED <<day, logging, Logs!fileVars, unwritten, follower, reader>>
  BY <1>1 DEF Logs!WriteNative, Logs!Piece
<1>3. UNCHANGED <<day, logging, logFiles, policy, logFile, epoch, generations, drawn, unwritten,
        follower, reader>>
  BY <1>2 DEF Logs!fileVars
<1>4. piece \in Pieces /\ piece.n = pieces + 1 /\ piece.by = "file" /\ piece.from = native.inode
  <2>1. native.inode \in Nat
    BY <1>0 DEF LogTypes
  <2>2. pieces + 1 \in 1 .. MaxPieces
    BY <1>0, <1>2, Numbers
  <2> QED
    BY <1>1, <2>1, <2>2 DEF Pieces, Logs!Writers
<1>5. PICK s : s = native.text /\ s \in Seq(Pieces)
  BY <1>0 DEF LogTypes
<1>6. PICK t \in Nat, w \in Nat, o \in Nat : t = Len(s) /\ w = pieces /\ o = follower.offset
  BY <1>0, <1>5, Numbers
<1>7. PICK l : l = Append(s, piece)
  OBVIOUS
<1>8. /\ l \in Seq(Pieces) /\ Len(l) = t + 1 /\ DOMAIN l = 1 .. t + 1 /\ DOMAIN s = 1 .. t
      /\ \A i \in 1 .. t : l[i] = s[i] /\ s[i].n \in Int
      /\ l[t + 1] = piece
  <2>1. /\ l \in Seq(Pieces) /\ Len(l) = Len(s) + 1 /\ \A i \in 1 .. Len(s) : l[i] = s[i]
        /\ l[Len(s) + 1] = piece
    BY <1>4, <1>5, <1>7, AppendProperties
  <2>2. DOMAIN s = 1 .. Len(s) /\ DOMAIN l = 1 .. Len(l)
    BY <1>5, <2>1
  <2>3. \A i \in DOMAIN s : s[i].n \in Int
    BY <1>5, PieceNumbers
  <2> QED
    BY <1>6, <2>1, <2>2, <2>3
<1>9. native'.text = l /\ native'.inode = native.inode
        /\ native' \in [inode : Nat, text : Seq(Pieces)]
  BY <1>0, <1>2, <1>5, <1>7, <1>8 DEF LogTypes
<1>10. LogTypes'
  <2>1. pieces' \in 0 .. MaxPieces
    BY <1>0, <1>2, Numbers
  <2> QED
    BY <1>0, <1>3, <1>9, <2>1 DEF LogTypes
<1>11. Logs!Replaced' => Logs!Replaced
  <2>1. t + 1 < o => t < o
    OBVIOUS
  <2> QED
    BY <1>3, <1>5, <1>6, <1>8, <1>9, <2>1 DEF Logs!Replaced
<1>12. RoomInv'
  <2>1. PICK a \in Nat, b \in Nat, c \in Nat, x \in Nat :
          a = Len(unwritten["output"]) /\ b = Len(unwritten["file"]) /\ c = Ahead /\ x = Ahead'
    <3>1. Ahead' \in Nat
      <4>1. t + 1 - o \in Nat \/ t + 1 < o
        OBVIOUS
      <4> QED
        BY <1>3, <1>6, <1>8, <1>9, <4>1 DEF Ahead, Logs!Replaced
    <3> QED
      BY <1>0, <3>1, Numbers
  <2>2. x <= c + 1
    <3>1. CASE ~follower.on
      BY <1>3, <2>1, <3>1 DEF Ahead
    <3>2. CASE follower.on /\ Logs!Replaced'
      BY <1>3, <1>5, <1>6, <1>8, <1>9, <1>11, <2>1, <3>2 DEF Ahead
    <3>3. CASE follower.on /\ ~Logs!Replaced'
      <4>0. follower'.on /\ follower'.offset = o /\ Len(native'.text) = t + 1
        BY <1>3, <1>6, <1>8, <1>9, <3>3
      <4>1. x = t + 1 - o
        BY <2>1, <3>3, <4>0 DEF Ahead
      <4>2. c = t \/ c = t - o
        BY <1>5, <1>6, <2>1, <3>3 DEF Ahead
      <4> QED
        BY <4>1, <4>2
    <3> QED
      BY <3>1, <3>2, <3>3
  <2>3. InHand = a + b + c /\ InHand' = a + b + x /\ pieces = w /\ pieces' = w + 1
    BY <1>2, <1>3, <1>6, <2>1 DEF InHand
  <2>4. a + b + c <= w
    BY <1>0, <2>3 DEF RoomInv
  <2>5. InHand' <= pieces'
    BY <2>2, <2>3, <2>4
  <2>6. ASSUME NEW n \in DOMAIN logFiles PROVE n[2] + InHand' <= pieces'
    <3>1. PICK k \in Nat : k = n[2]
      BY <1>0, Numbers
    <3>2. k + (a + b + c) <= w
      BY <1>0, <2>3, <3>1 DEF RoomInv
    <3>3. k + (a + b + x) <= w + 1
      BY <2>2, <3>2
    <3> QED
      BY <2>3, <3>1, <3>3
  <2> QED
    BY <1>3, <2>5, <2>6 DEF RoomInv
<1>13. FilesInv' /\ ReaderInv'
  BY <1>0, <1>3 DEF FilesInv, ReaderInv, Logs!Generation
<1>14. FollowInv'
  <2>1. \A i \in DOMAIN l : l[i].by = "file" /\ l[i].from = native.inode
    <3>1. \A i \in DOMAIN s : s[i].by = "file" /\ s[i].from = native.inode
      BY <1>0, <1>5 DEF FollowInv
    <3>2. \A i \in 1 .. t + 1 : i \in 1 .. t \/ i = t + 1
      OBVIOUS
    <3> QED
      BY <1>4, <1>8, <3>1, <3>2
  <2> QED
    BY <1>0, <1>3, <1>9, <2>1 DEF FollowInv
<1>15. OrderInv'
  <2>0. \A i \in 1 .. t + 1 : i \in 1 .. t \/ i = t + 1
    OBVIOUS
  <2>1. /\ \A p \in Pieces : Caught(logFiles', p) => p.n <= w /\ p.n \in Int
        /\ \A v \in Logs!Writers : /\ Rising(unwritten'[v]) /\ Below(logFiles', unwritten'[v])
                                   /\ \A i \in DOMAIN unwritten'[v] : unwritten'[v][i].n <= w
                                       /\ unwritten'[v][i].n \in Int
    <3>1. \A v \in Logs!Writers : \A i \in DOMAIN unwritten[v] : unwritten[v][i].n \in Int
      BY <1>0, PieceNumbers DEF LogTypes
    <3>2. \A p \in Pieces : p.n \in Int
      BY LogBounds DEF Pieces
    <3> QED
      BY <1>0, <1>3, <1>6, <3>1, <3>2 DEF OrderInv
  <2>2. /\ \A p \in Pieces : Caught(logFiles', p) => p.n <= pieces'
        /\ \A v \in Logs!Writers : \A i \in DOMAIN unwritten'[v] : unwritten'[v][i].n <= pieces'
    BY <1>2, <1>6, <2>1
  <2>3. \A i \in DOMAIN s : s[i].n <= w
    BY <1>0, <1>5, <1>6 DEF OrderInv
  <2>4. Rising(l) /\ \A i \in DOMAIN l : l[i].n <= pieces'
    <3>1. \A i \in 1 .. t : s[i].n <= w /\ s[i].n \in Int
      BY <1>8, <2>3
    <3>2. \A i \in DOMAIN l : l[i].n <= pieces'
      BY <1>2, <1>4, <1>6, <1>8, <2>0, <3>1
    <3>3. ASSUME NEW i \in DOMAIN l, NEW j \in DOMAIN l, i < j PROVE l[i].n < l[j].n
      <4>1. i \in 1 .. t /\ l[i] = s[i]
        BY <1>8, <3>3
      <4>2. CASE j \in 1 .. t
        <5>1. Rising(s)
          BY <1>0, <1>5 DEF OrderInv
        <5> QED
          BY <1>8, <3>3, <4>1, <4>2, <5>1 DEF Rising
      <4>3. CASE j = t + 1
        BY <1>4, <1>6, <1>8, <3>1, <4>1, <4>3
      <4> QED
        BY <1>8, <2>0, <4>2, <4>3
    <3> QED
      BY <3>2, <3>3 DEF Rising
  <2>5. ASSUME follower'.on, NEW k \in DOMAIN l, Logs!Replaced' \/ follower'.offset < k
        PROVE  /\ \A i \in DOMAIN unwritten'["file"] : unwritten'["file"][i].n < l[k].n
               /\ \A p \in Pieces : Caught(logFiles', p) /\ p.by = "file" => p.n < l[k].n
    <3>1. CASE k \in 1 .. t
      BY <1>0, <1>3, <1>5, <1>8, <1>11, <2>5, <3>1 DEF OrderInv
    <3>2. CASE k = t + 1
      <4>1. l[k].n = w + 1
        BY <1>4, <1>6, <1>8, <3>2
      <4> QED
        BY <2>1, <4>1 DEF Logs!Writers
    <3> QED
      BY <1>8, <2>0, <3>1, <3>2
  <2>6. Tidy(logFiles')
    BY <1>0, <1>3 DEF OrderInv
  <2> QED
    BY <1>9, <2>1, <2>2, <2>4, <2>5, <2>6 DEF OrderInv
<1> QED
  BY <1>10, <1>12, <1>13, <1>14, <1>15 DEF LogsInv

LEMMA RotateNativeKeeps == ASSUME LogsInv, NEW replaced \in BOOLEAN, Logs!RotateNative(replaced)
                                  PROVE LogsInv'
<1>0. LogTypes /\ FilesInv /\ RoomInv /\ ReaderInv /\ FollowInv /\ OrderInv
  BY DEF LogsInv
<1>1. /\ native' = [inode |-> IF replaced THEN native.inode + 1 ELSE native.inode, text |-> <<>>]
      /\ UNCHANGED <<day, logging, pieces, logFiles, policy, logFile, epoch, generations, drawn,
          unwritten, follower, reader>>
  BY DEF Logs!RotateNative, Logs!fileVars
<1>2. native'.text = <<>> /\ native' \in [inode : Nat, text : Seq(Pieces)]
  <2>1. <<>> \in Seq(Pieces)
    OBVIOUS
  <2>2. native.inode \in Nat
    BY <1>0 DEF LogTypes
  <2> QED
    BY <1>1, <2>1, <2>2
<1>3. LogTypes'
  BY <1>0, <1>1, <1>2 DEF LogTypes
<1>4. FilesInv' /\ ReaderInv'
  BY <1>0, <1>1 DEF FilesInv, ReaderInv, Logs!Generation
<1>5. RoomInv'
  <2>1. PICK a \in Nat, b \in Nat, c \in Nat, w \in Nat, o \in Nat :
          a = Len(unwritten["output"]) /\ b = Len(unwritten["file"]) /\ c = Ahead /\ w = pieces
              /\ o = follower.offset
    BY <1>0, Numbers
  <2>2. Ahead' = 0
    <3>1. CASE ~follower.on \/ Logs!Replaced'
      BY <1>1, <1>2, <3>1 DEF Ahead
    <3>2. CASE follower.on /\ ~Logs!Replaced'
      <4>1. Ahead' = 0 - o /\ ~(0 < o)
        BY <1>1, <1>2, <2>1, <3>2 DEF Ahead, Logs!Replaced
      <4> QED
        BY <4>1
    <3> QED
      BY <3>1, <3>2
  <2>3. InHand = a + b + c /\ InHand' = a + b + 0 /\ pieces = w /\ pieces' = w
    BY <1>1, <2>1, <2>2 DEF InHand
  <2>4. a + b + c <= w
    BY <1>0, <2>3 DEF RoomInv
  <2>5. InHand' <= pieces'
    BY <2>3, <2>4
  <2>6. ASSUME NEW n \in DOMAIN logFiles PROVE n[2] + InHand' <= pieces'
    <3>1. PICK k \in Nat : k = n[2]
      BY <1>0, Numbers
    <3>2. k + (a + b + c) <= w
      BY <1>0, <2>3, <3>1 DEF RoomInv
    <3>3. k + (a + b + 0) <= w
      BY <3>2
    <3> QED
      BY <2>3, <3>1, <3>3
  <2> QED
    BY <1>1, <2>5, <2>6 DEF RoomInv
<1>6. FollowInv'
  BY <1>0, <1>1, <1>2 DEF FollowInv
<1>7. OrderInv'
  BY <1>0, <1>1, <1>2 DEF OrderInv, Rising
<1> QED
  BY <1>3, <1>4, <1>5, <1>6, <1>7 DEF LogsInv

LEMMA ExitKeeps == ASSUME LogsInv, Logs!Exit PROVE LogsInv'
<1>0. LogTypes /\ FilesInv /\ RoomInv /\ ReaderInv /\ FollowInv /\ OrderInv
  BY DEF LogsInv
<1>1. /\ logging' = 0
      /\ UNCHANGED <<day, pieces, native, logFiles, policy, logFile, epoch, generations, drawn,
          unwritten, follower, reader>>
  BY DEF Logs!Exit, Logs!fileVars
<1>2. LogTypes'
  <2>1. logging' \in 0 .. MaxPieces
    BY <1>0, <1>1, Numbers
  <2> QED
    BY <1>0, <1>1, <2>1 DEF LogTypes
<1>3. FilesInv' /\ ReaderInv'
  BY <1>0, <1>1 DEF FilesInv, ReaderInv, Logs!Generation
<1>4. RoomInv'
  BY <1>0, <1>1, RoomIsLeft
<1>5. FollowInv'
  BY <1>0, <1>1 DEF FollowInv
<1>6. OrderInv'
  BY <1>0, <1>1, OrderStays DEF OrderInv
<1> QED
  BY <1>2, <1>3, <1>4, <1>5, <1>6 DEF LogsInv

LEMMA TomorrowKeeps == ASSUME LogsInv, Logs!Tomorrow PROVE LogsInv'
<1>0. LogTypes /\ FilesInv /\ RoomInv /\ ReaderInv /\ FollowInv /\ OrderInv
  BY DEF LogsInv
<1>1. /\ day < MaxDay /\ day' = day + 1
      /\ UNCHANGED <<logging, pieces, native, logFiles, policy, logFile, epoch, generations, drawn,
          unwritten, follower, reader>>
  BY DEF Logs!Tomorrow, Logs!fileVars
<1>2. PICK d \in Nat : d = day
  BY <1>0, Numbers
<1>3. \A n \in DOMAIN logFiles : n[1] \in Int /\ n[1] <= d
  BY <1>0, <1>2, NameNumbers, LogBounds DEF LogTypes, FilesInv
<1>4. LogTypes'
  <2>1. day' \in 0 .. MaxDay
    BY <1>0, <1>1, LogBounds DEF LogTypes
  <2> QED
    BY <1>0, <1>1, <2>1 DEF LogTypes
<1>5. FilesInv'
  BY <1>0, <1>1, <1>2, <1>3 DEF FilesInv
<1>6. ReaderInv'
  <2>1. ASSUME reader.file \notin DOMAIN logFiles PROVE reader.file[1] < d + 1
    <3>1. reader.file[1] < d \/ \E n \in DOMAIN logFiles : n[1] = d /\ Logs!Older(reader.file, n)
      BY <1>0, <1>2, <2>1 DEF ReaderInv
    <3>2. reader.file[1] \in Int
      <4>1. reader.file \in Logs!Names \cup {Logs!NoFile}
        BY <1>0 DEF LogTypes
      <4>2. Logs!NoFile[1] \in Int
        BY DEF Logs!NoFile
      <4>3. \A n \in Logs!Names : n[1] \in Int
        BY NameNumbers, LogBounds
      <4> QED
        BY <4>1, <4>2, <4>3
    <3>3. reader.file[1] <= d
      BY <3>1, <3>2 DEF Logs!Older
    <3> QED
      BY <3>2, <3>3
  <2> QED
    BY <1>0, <1>1, <1>2, <2>1 DEF ReaderInv, Logs!Generation
<1>7. RoomInv'
  BY <1>0, <1>1, RoomIsLeft
<1>8. FollowInv'
  BY <1>0, <1>1 DEF FollowInv
<1>9. OrderInv'
  BY <1>0, <1>1, OrderStays DEF OrderInv
<1> QED
  BY <1>4, <1>5, <1>6, <1>7, <1>8, <1>9 DEF LogsInv

LEMMA LogsStay == ASSUME LogsInv, UNCHANGED Logs!logVars PROVE LogsInv'
<1>0. LogTypes /\ FilesInv /\ RoomInv /\ ReaderInv /\ FollowInv /\ OrderInv
  BY DEF LogsInv
<1>1. UNCHANGED <<day, logging, pieces, native, logFiles, policy, logFile, epoch, generations,
        drawn, unwritten, follower, reader>>
  BY DEF Logs!logVars, Logs!worldVars, Logs!fileVars
<1>2. LogTypes'
  BY <1>0, <1>1 DEF LogTypes
<1>3. FilesInv' /\ ReaderInv'
  BY <1>0, <1>1 DEF FilesInv, ReaderInv, Logs!Generation
<1>4. RoomInv'
  BY <1>0, <1>1, RoomIsLeft
<1>5. FollowInv'
  BY <1>0, <1>1 DEF FollowInv
<1>6. OrderInv'
  BY <1>0, <1>1, OrderStays DEF OrderInv
<1> QED
  BY <1>2, <1>3, <1>4, <1>5, <1>6 DEF LogsInv

LEMMA LogsBegin == Logs!Init => LogsInv
<1>1. SUFFICES ASSUME Logs!Init PROVE LogsInv
  OBVIOUS
<1>2. /\ day = 0 /\ logging = 0 /\ pieces = 0 /\ native = [inode |-> 1, text |-> <<>>]
      /\ logFiles = [n \in {} |-> n] /\ policy \in Policies /\ logFile = Logs!NoFile
      /\ epoch = 1 /\ generations = [n \in {} |-> n] /\ drawn = 1
      /\ unwritten = [w \in Logs!Writers |-> <<>>] /\ follower = Logs!NotFollowing
          /\ reader = Logs!NoReader
  BY <1>1 DEF Logs!Init
<1>3. <<>> \in Seq(Pieces) /\ <<>> \in Seq(Seq(Pieces)) /\ 0 \in 0 .. MaxDay /\ 0 \in 0 .. MaxPieces
  <2>1. <<>> \in Seq(Pieces)
    OBVIOUS
  <2>2. <<>> \in Seq(Seq(Pieces))
    OBVIOUS
  <2> QED
    BY <2>1, <2>2, LogBounds
<1>4. /\ DOMAIN logFiles = {} /\ ~follower.on /\ native.text = <<>> /\ \A w \in Logs!Writers :
          unwritten[w] = <<>>
      /\ "output" \in Logs!Writers /\ "file" \in Logs!Writers
  BY <1>2 DEF Logs!NotFollowing, Logs!Writers
<1>5. LogTypes
  <2>1. logFiles \in [DOMAIN logFiles -> Seq(Seq(Pieces))] /\ DOMAIN generations = {}
        /\ generations \in [DOMAIN generations -> 1 .. drawn]
    BY <1>2
  <2>2. unwritten \in [Logs!Writers -> Seq(Pieces)]
    BY <1>2, <1>3
  <2>3. follower \in [on : BOOLEAN, inode : Nat, offset : Nat]
    BY <1>2 DEF Logs!NotFollowing
  <2>4. reader \in [file : Logs!Names \cup {Logs!NoFile}, generation : 0 .. drawn, from : Nat,
          offset : Nat,
                    text : Seq(Seq(Pieces))]
    BY <1>2, <1>3 DEF Logs!NoReader
  <2>5. native \in [inode : Nat, text : Seq(Pieces)]
    BY <1>2, <1>3
  <2>6. drawn \in Nat /\ epoch \in 1 .. drawn
    BY <1>2
  <2> QED
    BY <1>2, <1>3, <1>4, <2>1, <2>2, <2>3, <2>4, <2>5, <2>6 DEF LogTypes
<1>6. FilesInv
  BY <1>2, <1>4 DEF FilesInv
<1>7. RoomInv
  <2>1. Ahead = 0 /\ Len(unwritten["output"]) = 0 /\ Len(unwritten["file"]) = 0
    BY <1>4 DEF Ahead
  <2>2. InHand = 0
    BY <2>1 DEF InHand
  <2> QED
    BY <1>2, <1>4, <2>2 DEF RoomInv
<1>8. ReaderInv
  <2>1. reader.file = Logs!NoFile /\ reader.from = 0 /\ reader.offset = 0
    BY <1>2 DEF Logs!NoReader
  <2>2. reader.file[1] < day
    BY <1>2, <2>1, NoFileIsNone
  <2> QED
    BY <1>4, <2>1, <2>2 DEF ReaderInv
<1>9. FollowInv
  BY <1>2, <1>4 DEF FollowInv
<1>10. OrderInv
  BY <1>4 DEF OrderInv, Tidy, InOrder, Rising, Below, Caught
<1> QED
  BY <1>5, <1>6, <1>7, <1>8, <1>9, <1>10 DEF LogsInv

LEMMA LogsStep == ASSUME LogsInv, [Logs!Next]_(Logs!logVars) PROVE LogsInv'
<1>1. ASSUME Logs!EnsureCurrentFile PROVE LogsInv'
  BY <1>1, EnsureCurrentFileKeeps
<1>2. ASSUME NEW p \in Policies, Logs!SetPolicy(p) PROVE LogsInv'
  BY <1>2, SetPolicyKeeps
<1>3. ASSUME NEW name \in DOMAIN logFiles, Logs!Delete(name) PROVE LogsInv'
  BY <1>3, LogDeleteKeeps
<1>4. ASSUME NEW name \in DOMAIN logFiles, Logs!Clear(name) PROVE LogsInv'
  BY <1>4, ClearKeeps
<1>5. ASSUME NEW name \in DOMAIN logFiles, Logs!readCoreLog(name) PROVE LogsInv'
  BY <1>5, readCoreLogKeeps
<1>6. ASSUME Logs!Read PROVE LogsInv'
  BY <1>6, ReadKeeps
<1>7. ASSUME Logs!Follow PROVE LogsInv'
  BY <1>7, FollowKeeps
<1>8. ASSUME NEW ends \in BOOLEAN, Logs!Output(ends) PROVE LogsInv'
  BY <1>8, OutputKeeps
<1>9. ASSUME NEW ends \in BOOLEAN, Logs!WriteNative(ends) PROVE LogsInv'
  BY <1>9, WriteNativeKeeps
<1>10. ASSUME NEW ends \in BOOLEAN, Logs!RotateNative(ends) PROVE LogsInv'
  BY <1>10, RotateNativeKeeps
<1>11. ASSUME Logs!readNew PROVE LogsInv'
  BY <1>11, ReadNewKeeps
<1>12. ASSUME Logs!Exit PROVE LogsInv'
  BY <1>12, ExitKeeps
<1>13. ASSUME Logs!Close PROVE LogsInv'
  BY <1>13, CloseKeeps
<1>14. ASSUME Logs!Reap PROVE LogsInv'
  BY <1>14, ReapKeeps
<1>15. ASSUME Logs!RestartPanel PROVE LogsInv'
  BY <1>15, RestartPanelKeeps
<1>16. ASSUME Logs!Tomorrow PROVE LogsInv'
  BY <1>16, TomorrowKeeps
<1>17. ASSUME UNCHANGED Logs!logVars PROVE LogsInv'
  BY <1>17, LogsStay
<1> QED
  BY <1>1, <1>2, <1>3, <1>4, <1>5, <1>6, <1>7, <1>8, <1>9, <1>10, <1>11, <1>12, <1>13, <1>14,
     <1>15, <1>16, <1>17 DEF Logs!Next

LEMMA LogsAreRight == LogsInv => Logs!TypeOK /\ Logs!ReadersSeeTheFile /\ Logs!CaptureIsInOrder
<1>1. SUFFICES ASSUME LogsInv PROVE Logs!TypeOK /\ Logs!ReadersSeeTheFile /\ Logs!CaptureIsInOrder
  OBVIOUS
<1>2. LogTypes /\ ReaderInv /\ FollowInv /\ OrderInv
  BY <1>1 DEF LogsInv
<1>3. Logs!TypeOK
  <2>1. \A w \in Logs!Writers : DOMAIN unwritten[w] = 1 .. Len(unwritten[w])
    BY <1>2 DEF LogTypes
  <2> QED
    BY <1>2, <2>1 DEF Logs!TypeOK, LogTypes, FollowInv
<1>4. Logs!ReadersSeeTheFile
  BY <1>2 DEF Logs!ReadersSeeTheFile, ReaderInv
<1>5. Logs!CaptureIsInOrder
  <2>1. SUFFICES ASSUME NEW m \in DOMAIN logFiles, NEW n \in DOMAIN logFiles,
                        NEW i \in DOMAIN logFiles[m], NEW k \in DOMAIN logFiles[n],
                        NEW j \in DOMAIN logFiles[m][i], NEW l \in DOMAIN logFiles[n][k]
                 PROVE  /\ m = n /\ i = k => /\ logFiles[m][i][j].by = logFiles[n][k][l].by
                                             /\ logFiles[m][i][j].from = logFiles[n][k][l].from
                        /\ logFiles[m][i][j].by = logFiles[n][k][l].by
                            /\ Logs!Precedes(m, i, j, n, k, l)
                             => logFiles[m][i][j].n < logFiles[n][k][l].n
    BY DEF Logs!CaptureIsInOrder
  <2> QED
    BY <1>2 DEF OrderInv, Tidy, InOrder, Alike
<1> QED
  BY <1>3, <1>4, <1>5

(***************************************************************************)
(* The types of the logs, where files, readers and what is pending stand.  *)
(***************************************************************************)
THEOREM LogsInvariant == Logs!Spec => []LogsInv
<1>1. LogsInv /\ [Logs!Next]_(Logs!logVars) => LogsInv'
  BY LogsStep
<1> QED
  BY <1>1, LogsBegin, PTL DEF Logs!Spec

-----------------------------------------------------------------------------
(* The records as this host keeps them *)

\* The ledger of this host behaves as Traffic says.
LEMMA HostHasTraffic == Spec => Ledger!Spec
<1>1. Init => Ledger!Init
  BY DEF Init
<1>2. [Next]_<<part, moveVars, catalogVars, coresVars, trafficVars, corelogsVars, updateVars,
        serviceVars>>
        => [Ledger!Next]_(Ledger!trafficVars)
  BY DEF Next, trafficVars, Ledger!trafficVars
<1> QED
  BY <1>1, <1>2, PTL DEF Spec, Ledger!Spec

\* The logs of this host behave as CoreLogs says.
LEMMA HostHasLogs == Spec => Logs!Spec
<1>1. Init => Logs!Init
  BY DEF Init
<1>2. [Next]_<<part, moveVars, catalogVars, coresVars, trafficVars, corelogsVars, updateVars,
        serviceVars>>
        => [Logs!Next]_(Logs!logVars)
  BY DEF Next, corelogsVars, Logs!logVars, Logs!worldVars, Logs!fileVars
<1> QED
  BY <1>1, <1>2, PTL DEF Spec, Logs!Spec

(***************************************************************************)
(* The books never hold more than the processes have counted, whatever     *)
(* the collector, the live sample and the checkpoint lose to restarts of   *)
(* the core, of the panel, and to clocks that are set back                 *)
(* (saveTrafficObservation, RecordTrafficCollection).                      *)
(***************************************************************************)
THEOREM BytesAreBookedOnce == Spec => []TrafficIsBookedOnce
<1>1. LedgerInv => TrafficIsBookedOnce
  BY LedgerCounts DEF TrafficIsBookedOnce
<1> QED
  BY <1>1, HostHasTraffic, LedgerInvariant, PTL

(***************************************************************************)
(* A bucket of the history says "complete" exactly when complete samples   *)
(* cover its every instant, and all buckets together show no more than is  *)
(* booked (GetMetricsHistory).                                             *)
(***************************************************************************)
THEOREM CompleteMeansCovered == Spec => []CoverageIsProven
<1>1. LedgerInv => CoverageIsProven
  BY CoverageHolds DEF CoverageIsProven
<1> QED
  BY <1>1, HostHasTraffic, LedgerInvariant, PTL

(***************************************************************************)
(* The chunks that a reader puts together are the file as it is, as long   *)
(* as its cursor is accepted: through appends, pruning, deletion, clearing *)
(* and restarts of the panel nothing is missing or twice (Read, Clear,     *)
(* pruneLocked).                                                           *)
(***************************************************************************)
THEOREM ReadersAlwaysSeeTheFile == Spec => []ReadersSeeTheFile
<1>1. LogsInv => ReadersSeeTheFile
  BY LogsAreRight DEF ReadersSeeTheFile
<1> QED
  BY <1>1, HostHasLogs, LogsInvariant, PTL

(***************************************************************************)
(* Every captured line is of one run or one followed file, and the lines   *)
(* of each of the two are in the order in which they were written, over    *)
(* segments, days, rotations and restarts (append, readNew, Close).        *)
(***************************************************************************)
THEOREM CaptureStaysInOrder == Spec => []CaptureIsInOrder
<1>1. LogsInv => CaptureIsInOrder
  BY LogsAreRight DEF CaptureIsInOrder
<1> QED
  BY <1>1, HostHasLogs, LogsInvariant, PTL
=============================================================================
