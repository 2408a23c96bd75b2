------------------------------- MODULE Traffic -------------------------------
(***************************************************************************)
(* Accounting of traffic: application/traffic_collector.go,                *)
(* store/traffic_collector.go, traffic_months.go, metrics_history.go and   *)
(* the sampler in server/runtime.go.                                       *)
(*                                                                         *)
(* A process of the core counts from zero. The sampler asks it every       *)
(* second, remembers the last accepted sample and writes a checkpoint to   *)
(* the database every ten; what was added since the last checkpoint of the  *)
(* same process is booked to the month of the sample. Between the steps of *)
(* one collection the core may be replaced, so that the answer is that of   *)
(* another process, the clock may be set back and the panel be restarted.   *)
(***************************************************************************)
EXTENDS Integers, FiniteSets, FiniteSetsExt

CONSTANTS
  Processes, NoProcess,
  MaxCount,          \* bound: what a process counts
  MaxTime,           \* bound: clock
  MonthLength,       \* time units of a month
  PersistAfter,      \* time units between checkpoints
  CompleteGap,       \* maximumCompleteSampleGap
  Retention,         \* time units for which samples are kept
  MaxSetBacks        \* bound: clocks set back

VARIABLES
  core,              \* process that answers at the endpoint
  observed,          \* the observation in the database
  counted,           \* per process: what it has really counted
  clock,
  sampling,          \* the collection at work: step, the observation it began with, the answer
  collector,         \* c.identity, c.previous, c.persistedAt
  checkpoint,        \* traffic_checkpoint
  months,            \* traffic_months
  samples,           \* traffic_samples, the accepted ones
  peak,              \* history: highest sample the collector accepted for its process
  setBacks

trafficVars == <<core, observed, counted, clock, sampling, collector, checkpoint, months, samples, peak, setBacks>>

Never == -1
NoSample == [count |-> 0, at |-> Never]
NoCheckpoint == [process |-> NoProcess, count |-> 0, at |-> Never]
NoCollector == [process |-> NoProcess, previous |-> NoSample, persistedAt |-> Never]
Idle == [step |-> "idle", process |-> NoProcess, sample |-> NoSample]
Samples == [count : 0 .. MaxCount, at : Never .. MaxTime]
Rows == [at : 0 .. MaxTime, start : Never .. MaxTime, delta : 0 .. MaxCount, complete : BOOLEAN]
monthStart(at) == at \div MonthLength

SumOf(f) == MapThenSumSet(LAMBDA x : f[x], DOMAIN f)
\* aggregateTrafficPeriod over the whole ledger.
Booked == SumOf(months)

TypeOK ==
  /\ core \in Processes \cup {NoProcess} /\ observed \in Processes \cup {NoProcess}
  /\ counted \in [Processes -> 0 .. MaxCount] /\ clock \in 0 .. MaxTime
  /\ sampling \in [step : {"idle", "asked", "answered"}, process : Processes \cup {NoProcess}, sample : Samples]
  /\ collector \in [process : Processes \cup {NoProcess}, previous : Samples, persistedAt : Never .. MaxTime]
  /\ checkpoint \in [process : Processes \cup {NoProcess}, count : 0 .. MaxCount, at : Never .. MaxTime]
  /\ \A m \in DOMAIN months : months[m] >= 0
  /\ samples \subseteq Rows /\ peak \in Samples

Init ==
  /\ core = NoProcess /\ observed = NoProcess /\ counted = [p \in Processes |-> 0] /\ clock = 0
  /\ sampling = Idle /\ collector = NoCollector /\ checkpoint = NoCheckpoint
  /\ months = [m \in 0 .. monthStart(MaxTime) |-> 0] 
  /\ samples = {} /\ peak = NoSample /\ setBacks = 0

-----------------------------------------------------------------------------
(* Recording a sample; the books are the three tables *)

Books == [checkpoint |-> checkpoint, months |-> months, samples |-> samples]

\* Mutant: a sample of any time is accepted.
AcceptsAnyTime(books, p, sample) == books.checkpoint.process = p => sample.count >= books.checkpoint.count

Accepts(books, p, sample) ==
  /\ sample.at > books.checkpoint.at
  /\ books.checkpoint.process = p => sample.count >= books.checkpoint.count

\* What is added: nothing for the first sample of a process.
Delta(books, p, sample) == IF books.checkpoint.process = p THEN sample.count - books.checkpoint.count ELSE 0

\* The row, with the interval since the checkpoint of the same process.
Row(books, p, sample) ==
  LET start == IF books.checkpoint.process = p THEN books.checkpoint.at ELSE Never
  IN [at |-> sample.at, start |-> start, delta |-> Delta(books, p, sample),
      complete |-> /\ start # Never /\ monthStart(start) = monthStart(sample.at)
                   /\ sample.at - start <= CompleteGap]

\* RecordTrafficSample, one transaction; a rejected sample leaves the rest alone
\* (its own row, which only shows that there was one, is left out).
Record(books, p, sample) ==
  IF ~Accepts(books, p, sample) THEN books
  ELSE [checkpoint |-> [process |-> p, count |-> sample.count, at |-> sample.at],
        months |-> [books.months EXCEPT ![monthStart(sample.at)] = @ + Delta(books, p, sample)],
        samples |-> books.samples \cup {Row(books, p, sample)}]

-----------------------------------------------------------------------------
(* A collection: SampleLimitedTraffic under c.mu *)

\* collectTrafficSample reads the observation and the identity of its process; a
\* new one resets the collector.
Ask ==
  /\ sampling = Idle /\ observed # NoProcess /\ core = observed
  /\ sampling' = [Idle EXCEPT !.step = "asked", !.process = observed]
  /\ IF collector.process = observed THEN UNCHANGED <<collector, peak>>
     ELSE collector' = [NoCollector EXCEPT !.process = observed] /\ peak' = NoSample
  /\ UNCHANGED <<core, observed, counted, clock, checkpoint, months, samples, setBacks>>

\* Connections: whoever holds the endpoint answers, the observed process or the next one.
Answer ==
  /\ sampling.step = "asked" /\ core # NoProcess
  /\ sampling' = [sampling EXCEPT !.step = "answered", !.sample = [count |-> counted[core], at |-> clock]]
  /\ UNCHANGED <<core, observed, counted, clock, collector, checkpoint, months, samples, peak, setBacks>>

Regressed(sample) ==
  collector.previous # NoSample /\ (sample.at <= collector.previous.at \/ sample.count < collector.previous.count)

\* Mutant: the evidence in memory is not written before a rejected sample.
FlushNothing(sample) == Books

\* The accepted sample in memory goes to the database before a lower one.
Flush(sample) ==
  IF Regressed(sample) /\ collector.previous.at > collector.persistedAt
    THEN Record(Books, collector.process, collector.previous) ELSE Books

\* The answer is used if the observation is still the same.
Use ==
  LET s == sampling.sample
      p == collector.process
      flushed == Flush(s)
      persist == Regressed(s) \/ collector.persistedAt = Never \/ s.at - collector.persistedAt >= PersistAfter
      accepted == IF persist THEN Accepts(flushed, p, s) ELSE TRUE
      books == IF persist THEN Record(flushed, p, s) ELSE flushed
  IN /\ sampling.step = "answered" /\ observed = sampling.process
     /\ checkpoint' = books.checkpoint /\ months' = books.months /\ samples' = books.samples
     /\ collector' =
          [collector EXCEPT
             !.persistedAt = IF persist /\ accepted THEN s.at
                             ELSE IF flushed # Books THEN collector.previous.at ELSE @,
             !.previous = IF accepted THEN s ELSE @]
     /\ peak' = IF accepted /\ (peak = NoSample \/ s.count >= peak.count) THEN s ELSE peak
     /\ sampling' = Idle /\ UNCHANGED <<core, observed, counted, clock, setBacks>>

\* The older sample is written, the write of the newer one fails.
FlushOnly ==
  /\ sampling.step = "answered" /\ observed = sampling.process /\ Flush(sampling.sample) # Books
  /\ LET books == Flush(sampling.sample)
     IN checkpoint' = books.checkpoint /\ months' = books.months /\ samples' = books.samples
  /\ collector' = [collector EXCEPT !.persistedAt = collector.previous.at]
  /\ sampling' = Idle /\ UNCHANGED <<core, observed, counted, clock, peak, setBacks>>

\* No answer within two seconds, "runtime changed during traffic collection", or a
\* write that fails.
GiveUp ==
  /\ sampling # Idle /\ sampling' = Idle
  /\ UNCHANGED <<core, observed, counted, clock, collector, checkpoint, months, samples, peak, setBacks>>

-----------------------------------------------------------------------------
(* The history that the dashboard draws *)

\* The part of an interval that lies in a bucket.
Clip(row, b) ==
  LET start == IF row.start > b.from THEN row.start ELSE b.from
      end == IF row.at < b.to THEN row.at ELSE b.to
  IN IF end > start THEN end - start ELSE 0

\* A bucket of MetricsHistory: what the intervals inside it carried, and whether
\* the complete ones reach from end to end and add up to its length.
Bucket(from, to) ==
  LET b == [from |-> from, to |-> to]
      evidence == {r \in samples : r.start # Never /\ r.at > from /\ r.start < to}
      complete == {r \in evidence : r.complete}
      inside == {r \in evidence : r.start >= from /\ r.at <= to}
  IN [from |-> from, to |-> to, bytes |-> SumOf([r \in inside |-> r.delta]),
      coverage |->
        IF /\ \E r \in complete : r.start <= from
           /\ \E r \in complete : r.at >= to
           /\ SumOf([r \in complete |-> Clip(r, b)]) = to - from
        THEN "complete"
        ELSE IF evidence # {} \/ (\E r \in samples : r.at >= from /\ r.at < to) THEN "partial" ELSE "missing"]

MetricsHistory(from, to, size) ==
  [i \in 0 .. (to - from + size - 1) \div size - 1 |->
     Bucket(from + i * size, IF from + (i + 1) * size < to THEN from + (i + 1) * size ELSE to)]

\* DeleteTrafficSamplesBefore.
DeleteSamples ==
  /\ samples' = {r \in samples : r.at >= clock - Retention}
  /\ UNCHANGED <<core, observed, counted, clock, sampling, collector, checkpoint, months, peak, setBacks>>

-----------------------------------------------------------------------------
(* The core, the clock and the panel *)

Started(p) == core = NoProcess /\ counted[p] = 0 /\ p # observed /\ p # checkpoint.process
StartCore(p) == /\ Started(p) /\ core' = p
                /\ UNCHANGED <<observed, counted, clock, sampling, collector, checkpoint, months, samples, peak, setBacks>>
Observe == /\ observed # core /\ observed' = core
           /\ UNCHANGED <<core, counted, clock, sampling, collector, checkpoint, months, samples, peak, setBacks>>
Exit == /\ core # NoProcess /\ core' = NoProcess
        /\ UNCHANGED <<observed, counted, clock, sampling, collector, checkpoint, months, samples, peak, setBacks>>
Transfer == /\ core # NoProcess /\ counted[core] < MaxCount /\ counted' = [counted EXCEPT ![core] = @ + 1]
            /\ UNCHANGED <<core, observed, clock, sampling, collector, checkpoint, months, samples, peak, setBacks>>
Tick == /\ clock < MaxTime /\ clock' = clock + 1
        /\ UNCHANGED <<core, observed, counted, sampling, collector, checkpoint, months, samples, peak, setBacks>>
SetBack == /\ clock > 0 /\ setBacks < MaxSetBacks /\ clock' = clock - 1 /\ setBacks' = setBacks + 1
           /\ UNCHANGED <<core, observed, counted, sampling, collector, checkpoint, months, samples, peak>>
RestartPanel == /\ sampling' = Idle /\ collector' = NoCollector /\ peak' = NoSample
                /\ UNCHANGED <<core, observed, counted, clock, checkpoint, months, samples, setBacks>>

Next ==
  \/ Ask \/ Answer \/ Use \/ FlushOnly \/ GiveUp \/ DeleteSamples
  \/ (\E p \in Processes : StartCore(p)) \/ Observe \/ Exit \/ Transfer \/ Tick \/ SetBack \/ RestartPanel

Spec == Init /\ [][Next]_trafficVars

-----------------------------------------------------------------------------
\* No byte is booked that was not transferred, also when an answer is that of
\* the process after the observed one; and what the collector has accepted is not lost to a lower
\* answer that came between two checkpoints: a later checkpoint of the same
\* process is no lower than the highest accepted sample.
TrafficIsBookedOnce ==
  /\ Booked <= SumOf(counted)
  /\ checkpoint.process = collector.process /\ peak # NoSample /\ checkpoint.at > peak.at => checkpoint.count >= peak.count

\* A bucket of any history is called complete only when complete intervals cover its
\* every instant, although only their number of seconds and their ends are compared;
\* and the buckets together show no more than was booked.
CoverageIsProven ==
  \A from \in 0 .. MaxTime - 1, size \in 1 .. 2 : \A to \in from + 1 .. MaxTime :
    LET history == MetricsHistory(from, to, size)
    IN /\ \A i \in DOMAIN history :
            history[i].coverage = "complete" <=>
              \A t \in history[i].from .. history[i].to - 1 : \E r \in samples : r.complete /\ r.start <= t /\ t < r.at
       /\ SumOf([i \in DOMAIN history |-> history[i].bytes]) <= Booked
=============================================================================
