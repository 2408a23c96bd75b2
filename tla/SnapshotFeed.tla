----------------------------- MODULE SnapshotFeed -----------------------------
(***************************************************************************)
(* The feed of snapshots that the dashboards share:                        *)
(* application/snapshot_feed.go, telemetry.go and httpapi/snapshot_stream.go. *)
(*                                                                         *)
(* While somebody is subscribed one goroutine collects a snapshot every    *)
(* interval and puts it into the channels, each of which holds the newest  *)
(* one only. When the last subscriber leaves the goroutine is cancelled,   *)
(* maybe after it has collected, and the next subscriber starts another.   *)
(***************************************************************************)
EXTENDS Integers, FiniteSets

CONSTANTS
  Readers,
  Interval,
  MaxVersion, MaxTime, MaxGenerations   \* bounds

VARIABLES
  version,           \* of what there is to collect
  time,
  cached,            \* f.cached and f.collected
  generation,        \* f.generation
  workers,           \* the goroutines of run
  subscribers,
  channel,           \* per reader: the result that waits in its channel
  shown              \* per reader: the newest version it was sent

feedVars == <<version, time, cached, generation, workers, subscribers, channel, shown>>

Empty == 0
Failed == -1
NoResult == [version |-> Empty, at |-> 0]

TypeOK ==
  /\ version \in 1 .. MaxVersion /\ time \in 0 .. MaxTime /\ generation \in 0 .. MaxGenerations + 1
  /\ cached \in [version : Empty .. MaxVersion, at : 0 .. MaxTime]
  /\ workers \subseteq [generation : 1 .. MaxGenerations, due : 0 .. MaxTime + Interval, version : Empty .. MaxVersion]
  /\ subscribers \subseteq Readers
  /\ channel \in [Readers -> Failed .. MaxVersion] /\ shown \in [Readers -> Empty .. MaxVersion]

Init ==
  /\ version = 1 /\ time = 0 /\ cached = NoResult /\ generation = 0 /\ workers = {} /\ subscribers = {}
  /\ channel = [r \in Readers |-> Empty] /\ shown = [r \in Readers |-> Empty]

-----------------------------------------------------------------------------

Current(w) == w.generation = generation
Fresh == cached # NoResult /\ time - cached.at < Interval

\* A fresh result is there at once; the first subscriber starts a goroutine.
subscribe(r) ==
  /\ r \notin subscribers /\ generation < MaxGenerations
  /\ subscribers' = subscribers \cup {r}
  /\ channel' = [channel EXCEPT ![r] = IF Fresh THEN cached.version ELSE Empty]
  /\ IF subscribers # {} THEN UNCHANGED <<generation, workers>>
     ELSE /\ generation' = generation + 1
          /\ workers' = workers \cup {[generation |-> generation', version |-> Empty,
                                       due |-> IF Fresh THEN cached.at + Interval ELSE time]}
  /\ UNCHANGED <<version, time, cached, shown>>

\* The last one to leave cancels the goroutine.
Leave(r) ==
  /\ subscribers' = subscribers \ {r} /\ channel' = [channel EXCEPT ![r] = Empty]
  /\ generation' = IF subscribers = {r} THEN generation + 1 ELSE generation
unsubscribe(r) == r \in subscribers /\ Leave(r) /\ UNCHANGED <<version, time, cached, workers, shown>>

\* run collects what there is; a cancelled one ends here.
Load(w) ==
  /\ w.version = Empty /\ w.due <= time
  /\ workers' = IF Current(w) THEN (workers \ {w}) \cup {[w EXCEPT !.version = version]} ELSE workers \ {w}
  /\ UNCHANGED <<version, time, cached, generation, subscribers, channel, shown>>

Send(w, result) ==
  /\ channel' = [r \in Readers |-> IF r \in subscribers THEN result ELSE channel[r]]
  /\ workers' = (workers \ {w}) \cup {[w EXCEPT !.version = Empty, !.due = time + Interval]}
  /\ cached' = IF result = Failed THEN cached ELSE [version |-> result, at |-> time]
  /\ UNCHANGED <<version, time, generation, subscribers, shown>>

\* Mutant: what a cancelled goroutine has collected is sent.
PublishAnyway(w, failed) == w.version # Empty /\ Send(w, IF failed THEN Failed ELSE w.version)

\* Under the mutex; a goroutine that was cancelled meanwhile ends.
Publish(w, failed) ==
  /\ w.version # Empty
  /\ IF Current(w) THEN Send(w, IF failed THEN Failed ELSE w.version)
     ELSE workers' = workers \ {w} /\ UNCHANGED <<version, time, cached, generation, subscribers, channel, shown>>

\* streamSnapshots sends what is in the channel; a failure ends the stream.
Deliver(r) ==
  /\ r \in subscribers /\ channel[r] # Empty
  /\ IF channel[r] = Failed THEN Leave(r) /\ UNCHANGED shown
     ELSE /\ shown' = [shown EXCEPT ![r] = channel[r]] /\ channel' = [channel EXCEPT ![r] = Empty]
          /\ UNCHANGED <<subscribers, generation>>
  /\ UNCHANGED <<version, time, cached, workers>>

Change == version < MaxVersion /\ version' = version + 1 /\ UNCHANGED <<time, cached, generation, workers, subscribers, channel, shown>>
Tick == time < MaxTime /\ time' = time + 1 /\ UNCHANGED <<version, cached, generation, workers, subscribers, channel, shown>>

Next ==
  \/ \E r \in Readers : subscribe(r) \/ unsubscribe(r) \/ Deliver(r)
  \/ \E w \in workers : Load(w) \/ (\E failed \in BOOLEAN : Publish(w, failed))
  \/ Change \/ Tick

Spec == Init /\ [][Next]_feedVars

-----------------------------------------------------------------------------
\* Nobody is shown an older snapshot after a newer one, also after a reconnection
\* and when a goroutine that was cancelled finishes late; and what waits in a
\* channel is the newest one that there is (snapshotFeed: "a slow reader always
\* receives the newest result").
SnapshotsNeverGoBack ==
  [][/\ cached'.version >= cached.version
     /\ \A r \in Readers : /\ shown'[r] >= shown[r]
                           /\ channel'[r] \notin {Empty, Failed} => channel'[r] = cached'.version]_feedVars
=============================================================================
