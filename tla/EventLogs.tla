------------------------------ MODULE EventLogs ------------------------------
(***************************************************************************)
(* The recorded events and how they are read: store/logs.go,               *)
(* runtime_history.go, panel_logs.go, application/logs.go, dashboard.go    *)
(* and the routes in httpapi/observability_routes.go.                      *)
(*                                                                         *)
(* A list is read in pages, newest first, each with a request of its own   *)
(* after the last row of the one before; a stream polls for the entries    *)
(* after the last one it sent and is resumed by its reader. A behaviour    *)
(* has one of the two. Meanwhile rows are added and deleted. An entry      *)
(* takes its time before its insertion, so a row may come to lie before    *)
(* one that has been read. The lists of cores, sources, channels, users    *)
(* and tokens use the same order and cursor.                               *)
(***************************************************************************)
EXTENDS Integers, FiniteSets, Sequences, SequencesExt

CONSTANTS
  Recorders, NoEntry,
  LogSources, AnySource,
  PageLimit,
  MaxRows, MaxTime   \* bounds

VARIABLES
  now,
  rows,              \* log_entries and runtime_transitions
  recording,         \* per recorder: the entry that it is about to insert
  walk,              \* a reader of a list
  stream,            \* a reader of the stream, over its reconnections
  added,             \* history: the number of entries that were begun
  late, gone         \* history: rows added behind the stream, rows deleted under the walk

eventVars == <<now, rows, recording, walk, stream, added, late, gone>>

Tables == {"log", "runtime"}   \* also the prefixes of ListPanelLogs
Rows == [table : Tables, at : 0 .. MaxTime, id : 1 .. MaxRows, source : LogSources]
Never == MaxTime + 1
NoWalk == [listing |-> "none", source |-> AnySource, until |-> Never, cursor |-> <<>>, seen |-> <<>>, begun |-> {}, more |-> FALSE]
NoStream == [open |-> FALSE, since |-> Never, after |-> <<>>, got |-> <<>>]

TypeOK ==
  /\ now \in 0 .. MaxTime /\ rows \subseteq Rows
  /\ \A p \in Recorders : recording[p] = NoEntry \/ recording[p] \in Rows
  /\ walk.listing \in {"none", "logs", "transitions", "panel"} /\ ToSet(walk.seen) \subseteq Rows
  /\ stream.open \in BOOLEAN /\ ToSet(stream.got) \subseteq Rows /\ added \in 0 .. MaxRows

Init ==
  /\ now = 0 /\ rows = {} /\ recording = [p \in Recorders |-> NoEntry]
  /\ walk = NoWalk /\ stream = NoStream /\ added = 0 /\ late = {} /\ gone = {}

-----------------------------------------------------------------------------
(* The order of rows and what a request selects *)

\* Mutant: a cursor that is a time and no identifier.
BeforeInTime(r, s) == r.at < s.at

\* (occurred_at, id); the list of the panel puts the table before the identifier.
Before(r, s) ==
  \/ r.at < s.at
  \/ r.at = s.at /\ r.table = "log" /\ s.table = "runtime"
  \/ r.at = s.at /\ r.table = s.table /\ r.id < s.id

NewestFirst(S) ==
  CHOOSE s \in [1 .. Cardinality(S) -> S] : \A i, j \in DOMAIN s : i < j => s[i] # s[j] /\ ~Before(s[i], s[j])
Limit(s) == SubSeq(s, 1, IF Len(s) < PageLimit THEN Len(s) ELSE PageLimit)

\* logFilterClauses and runtimeHistoryClauses.
Matches(r, w) ==
  /\ r.table \in (CASE w.listing = "logs" -> {"log"} [] w.listing = "transitions" -> {"runtime"} [] OTHER -> Tables)
  /\ w.source \in {AnySource, r.source} /\ r.at < w.until
Selected(w) == {r \in rows : Matches(r, w) /\ (w.cursor # <<>> => Before(r, w.cursor[1]))}

-----------------------------------------------------------------------------
(* Recording and deleting *)

Unused(id, table) == \A r \in rows \cup {recording[p] : p \in {q \in Recorders : recording[q] # NoEntry}} : r.table = table => r.id # id

\* RecordLog takes a random identifier and the time, AppendLogEntry follows.
RecordLog(p, id, source) ==
  /\ recording[p] = NoEntry /\ added < MaxRows /\ Unused(id, "log") /\ added' = added + 1
  /\ recording' = [recording EXCEPT ![p] = [table |-> "log", at |-> now, id |-> id, source |-> source]]
  /\ UNCHANGED <<now, rows, walk, stream, late, gone>>

AppendLogEntry(p) ==
  /\ recording[p] # NoEntry
  /\ rows' = rows \cup {recording[p]} /\ recording' = [recording EXCEPT ![p] = NoEntry]
  /\ late' = IF stream.after # <<>> /\ ~Before(stream.after[1], recording[p]) THEN late \cup {recording[p]} ELSE late
  /\ UNCHANGED <<now, walk, stream, added, gone>>

\* A transition is inserted once, with the next number and no source of its own.
AppendRuntimeTransition(id) ==
  /\ added < MaxRows /\ added' = added + 1 /\ id = Cardinality({r \in rows : r.table = "runtime"}) + 1
  /\ rows' = rows \cup {[table |-> "runtime", at |-> now, id |-> id, source |-> CHOOSE s \in LogSources : TRUE]}
  /\ UNCHANGED <<now, recording, walk, stream, late, gone>>

Delete(S) == rows' = rows \ S /\ gone' = gone \cup S /\ UNCHANGED <<now, recording, walk, stream, added, late>>
ClearLogEntries(source, before) ==
  Delete({r \in rows : r.table = "log" /\ source \in {AnySource, r.source} /\ r.at < before})
DeleteLogEntry(r) == r \in rows /\ r.table = "log" /\ Delete({r})

-----------------------------------------------------------------------------
(* Reading a list: a page, then the next one after its last row *)

Open(listing, source, until) ==
  /\ walk = NoWalk /\ stream = NoStream
  /\ walk' = [NoWalk EXCEPT !.listing = listing, !.source = source, !.until = until, !.more = TRUE, !.begun = rows]
  /\ gone' = {} /\ UNCHANGED <<now, rows, recording, stream, added, late>>

listDurableLogs(source) == Open("logs", source, Never)
listPanelLogs == Open("panel", AnySource, Never)
coreRuntimeHistory == Open("transitions", AnySource, Never)
\* The dashboard reads the transitions up to now.
dashboardRuntimeHistory == Open("transitions", AnySource, now)

ReadPage(page) ==
  /\ walk.more
  /\ walk' = [walk EXCEPT !.seen = @ \o page, !.more = Cardinality(Selected(walk)) > PageLimit,
                          !.cursor = IF page = <<>> THEN @ ELSE <<Last(page)>>]
  /\ UNCHANGED <<now, rows, recording, stream, added, late, gone>>

ListLogEntries == walk.listing = "logs" /\ ReadPage(Limit(NewestFirst(Selected(walk))))
ListRuntimeTransitions == walk.listing = "transitions" /\ ReadPage(Limit(NewestFirst(Selected(walk))))
ListPanelLogs == walk.listing = "panel" /\ ReadPage(Limit(NewestFirst(Selected(walk))))

-----------------------------------------------------------------------------
(* The stream *)

\* streamDurableLogs: a new reader gets what comes from now on, one that has got
\* an event names it and goes on after it.
Connect ==
  /\ ~stream.open /\ walk = NoWalk
  /\ stream' = [stream EXCEPT !.open = TRUE, !.after = IF stream.got = <<>> THEN <<>> ELSE <<Last(stream.got)>>,
                              !.since = IF stream.got = <<>> THEN now ELSE Never]
  /\ late' = IF stream.got = <<>> THEN {} ELSE late
  /\ UNCHANGED <<now, rows, recording, walk, added, gone>>

\* logFilterClauses of a tail: from a time on, or after a cursor.
Tailed == {r \in rows : r.table = "log" /\ IF stream.after = <<>> THEN r.at >= stream.since ELSE Before(stream.after[1], r)}

\* TailLogEntries and writeLogEvents; the connection may break while the entries
\* are written, and the reader gets a part of them.
Poll(n, broken) ==
  LET batch == Limit(Reverse(NewestFirst(Tailed)))
      got == SubSeq(batch, 1, n)
  IN /\ stream.open /\ batch # <<>> /\ n \in 0 .. Len(batch) /\ (~broken => n = Len(batch))
     /\ stream' = [stream EXCEPT !.open = ~broken, !.got = @ \o got,
                                 !.after = <<Last(batch)>>, !.since = Never]
     /\ UNCHANGED <<now, rows, recording, walk, added, late, gone>>

Disconnect == stream.open /\ stream' = [stream EXCEPT !.open = FALSE] /\ UNCHANGED <<now, rows, recording, walk, added, late, gone>>
Tick == now < MaxTime /\ now' = now + 1 /\ UNCHANGED <<rows, recording, walk, stream, added, late, gone>>

Next ==
  \/ \E p \in Recorders : (\E id \in 1 .. MaxRows, s \in LogSources : RecordLog(p, id, s)) \/ AppendLogEntry(p)
  \/ \E id \in 1 .. MaxRows : AppendRuntimeTransition(id)
  \/ \E s \in LogSources \cup {AnySource}, before \in 1 .. Never : ClearLogEntries(s, before)
  \/ \E r \in rows : DeleteLogEntry(r)
  \/ (\E s \in LogSources \cup {AnySource} : listDurableLogs(s))
  \/ listPanelLogs \/ coreRuntimeHistory \/ dashboardRuntimeHistory
  \/ ListLogEntries \/ ListRuntimeTransitions \/ ListPanelLogs
  \/ Connect \/ (\E n \in 0 .. PageLimit, broken \in BOOLEAN : Poll(n, broken)) \/ Disconnect \/ Tick

Spec == Init /\ [][Next]_eventVars

-----------------------------------------------------------------------------
\* A list read to its end has shown every row that was there from its beginning to
\* its end, and no row twice, whatever was added or deleted between its pages. A
\* stream has sent each entry once and in order; it has left out none, also of one
\* instant and over a broken connection, save those added behind its position.
EventsAreReadOnce ==
  /\ IsInjective(walk.seen) /\ IsInjective(stream.got)
  /\ walk.listing # "none" /\ ~walk.more => {r \in walk.begun \ gone : Matches(r, walk)} \subseteq ToSet(walk.seen)
  /\ \A i \in 1 .. Len(stream.got) - 1 : Before(stream.got[i], stream.got[i + 1])
  /\ stream.got # <<>> =>
       {r \in rows \ late : r.table = "log" /\ Before(stream.got[1], r) /\ Before(r, Last(stream.got))} \subseteq ToSet(stream.got)
=============================================================================
