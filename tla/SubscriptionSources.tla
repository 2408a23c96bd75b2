------------------------- MODULE SubscriptionSources -------------------------
(***************************************************************************)
(* The sources of subscription nodes, their versions and their refreshing, *)
(* and the channels that share their limits: internal/store/subscription_  *)
(* {sources,source_versions,refresh,channels,common}.go, the application   *)
(* and the routes of the same names, and the ticker of the server.         *)
(*                                                                         *)
(* Every write names the update it was made from and is refused when the   *)
(* row has changed since. A refresh reads a source, fetches its document   *)
(* without a lock, reads the source again to plan the next refresh, and    *)
(* saves; an update in between must make it fail and must not be undone.   *)
(* updated_at, which strictly increases, is a number of the update here.   *)
(***************************************************************************)
EXTENDS Integers, FiniteSets, Functions

CONSTANTS
  Sources, Channels,     \* identifiers; one that was used is not drawn again
  URLs, Documents,       \* what a fetch asks for, and what it may answer
  LongURLs,              \* the URLs that make a configuration of two bytes; others have one
  Refreshes, Ticker,     \* requests to refresh or to upload, and the server's goroutine
  RefreshSlots,          \* capacity of Application.refreshSlots
  Intervals,             \* configured refresh intervals in ticks; 0 is none
  Requested,             \* the configurations that requests carry
  MinimumInterval,       \* minimumSubscriptionRefreshIntervalMinutes
  MaxEnabledSources, MaxEnabledChannels, InputBudget,   \* limits of enabled rows
  ChannelSizes,          \* sizes of the configurations of channels
  MaxUpdates, MaxChannelUpdates, MaxClock   \* bounds: updates of a row, ticks

VARIABLES
  clock,
  drawn,        \* identifiers in use and those that were deleted
  sources,      \* the table: kind, url, interval, size, enabled, current version, update
  versions,     \* per source its append-only versions
  schedules,    \* per scheduled source the update that it was planned for and its time
  channels,     \* the table: enabled, size of the policy, update
  due,          \* what the ticker's query returned and it has not yet handled
  jobs          \* refreshes and uploads under way

sourceVars == <<sources, versions, schedules>>
vars == <<clock, drawn, sourceVars, channels, due, jobs>>

NoVersion == <<>>
Body == (URLs \cup {"upload"}) \X Documents
Config == [kind : {"remote"}, url : URLs, interval : Intervals]
            \cup [kind : {"local"}, url : {"upload"}, interval : {0}]
Source == [config : Config, enabled : BOOLEAN, current : Body \cup {NoVersion}, update : 1 .. MaxUpdates]
Schedule == [update : 1 .. MaxUpdates, at : Nat]
Channel == [size : ChannelSizes, enabled : BOOLEAN, update : 1 .. MaxChannelUpdates]
Jobs == Refreshes \cup {Ticker}
Job == [step : {"fetching", "saving", "failed"}, source : Sources, copy : Source,
        body : Body \cup {NoVersion}, interval : Intervals \cup {0}]
Idle == [step |-> "idle"]

PartialOn(S, T) == UNION {[D -> T] : D \in SUBSET S}
Without(f, x) == [y \in DOMAIN f \ {x} |-> f[y]]
With(f, x, v) == [y \in DOMAIN f \cup {x} |-> IF y = x THEN v ELSE f[y]]

TypeOK ==
  /\ clock \in 0 .. MaxClock /\ drawn \subseteq Sources \cup Channels
  /\ DOMAIN sources \subseteq drawn \cap Sources /\ Range(sources) \subseteq Source
  /\ DOMAIN versions = DOMAIN sources
  /\ \A s \in DOMAIN sources : versions[s] \subseteq Body /\ sources[s].current \in versions[s] \cup {NoVersion}
  /\ DOMAIN schedules \subseteq DOMAIN sources /\ Range(schedules) \subseteq Schedule
  /\ DOMAIN channels \subseteq drawn \cap Channels /\ Range(channels) \subseteq Channel
  /\ due \subseteq Sources \X (1 .. MaxUpdates)
  /\ \A j \in Jobs : jobs[j] \in Job \cup {Idle}
  /\ Cardinality({j \in Refreshes : jobs[j] # Idle}) <= RefreshSlots

Empty == [x \in {} |-> x]

Init ==
  /\ clock = 0 /\ drawn = {} /\ due = {}
  /\ sources = Empty /\ versions = Empty /\ schedules = Empty /\ channels = Empty
  /\ jobs = [j \in Jobs |-> Idle]

-----------------------------------------------------------------------------
(* Limits of the enabled rows *)

Enabled(rows) == {x \in DOMAIN rows : rows[x].enabled}
Size(config) == IF config.url \in LongURLs THEN 2 ELSE 1
Bytes(sizes) == Cardinality(UNION {{x} \X (1 .. sizes[x]) : x \in DOMAIN sizes})   \* one by one
SourceBytes(S) == Bytes([s \in S |-> Size(sources[s].config)])
ChannelBytes(C) == Bytes([c \in C |-> channels[c].size])

\* Mutant: a channel is weighed against the other channels only.
ChannelFitsAlone(c, row) ==
  row.enabled => /\ Cardinality(Enabled(channels) \ {c}) < MaxEnabledChannels
                 /\ ChannelBytes(Enabled(channels) \ {c}) + row.size <= InputBudget

WithinBudget(S, C, size) == SourceBytes(S) + ChannelBytes(C) <= InputBudget - size

\* ensureSubscriptionChannelLimits and ensureSubscriptionSourceLimits: a row that
\* is to be enabled, with the row that it replaces left out.
ChannelFits(c, row) ==
  row.enabled => /\ Cardinality(Enabled(channels) \ {c}) < MaxEnabledChannels
                 /\ WithinBudget(Enabled(sources), Enabled(channels) \ {c}, row.size)
SourceFits(s, row) ==
  row.enabled => /\ Cardinality(Enabled(sources) \ {s}) < MaxEnabledSources
                 /\ WithinBudget(Enabled(sources) \ {s}, Enabled(channels), Size(row.config))

-----------------------------------------------------------------------------
(* Schedules *)

\* saveSubscriptionRefreshScheduleTx with the row of this update; 0 deletes.
Scheduled(s, update, interval) ==
  schedules' = IF interval = 0 THEN Without(schedules, s)
               ELSE With(schedules, s, [update |-> update, at |-> clock + interval])

\* configuredSubscriptionSourceRefreshSchedule.
Planned(config, enabled) == IF config.kind = "remote" /\ enabled THEN config.interval ELSE 0

\* Mutant: a failed refresh plans again whatever has become of the source.
RescheduleAnyway(j) ==
  /\ jobs[j].step = "failed" /\ jobs' = [jobs EXCEPT ![j] = Idle]
  /\ IF jobs[j].source \in DOMAIN sources
       THEN Scheduled(jobs[j].source, jobs[j].copy.update,
                      IF jobs[j].copy.config.interval = 0 THEN MinimumInterval
                                                          ELSE jobs[j].copy.config.interval)
       ELSE UNCHANGED schedules
  /\ UNCHANGED <<clock, drawn, sources, versions, channels, due>>

\* scheduleNextSubscriptionSourceRefresh after a failure: with the interval of
\* the copy, or the shortest one for a first document, unless the source has
\* changed; a source that is only refreshed on request is not scheduled.
Reschedule(j) ==
  LET s == jobs[j].source  copy == jobs[j].copy
  IN /\ jobs[j].step = "failed" /\ jobs' = [jobs EXCEPT ![j] = Idle]
     /\ IF /\ copy.enabled
           /\ copy.config.interval # 0 \/ copy.current = NoVersion
           /\ s \in DOMAIN sources /\ sources[s].update = copy.update
          THEN Scheduled(s, copy.update, IF copy.config.interval = 0 THEN MinimumInterval
                                                                     ELSE copy.config.interval)
          ELSE UNCHANGED schedules
     /\ UNCHANGED <<clock, drawn, sources, versions, channels, due>>

\* DueSubscriptionRefreshes.
Due == {<<s, schedules[s].update>> : s \in
         {t \in DOMAIN schedules : /\ schedules[t].at <= clock
                                   /\ sources[t].enabled /\ sources[t].config.kind = "remote"
                                   /\ sources[t].update = schedules[t].update}}

-----------------------------------------------------------------------------
(* Sources *)

\* The row that a request names with the update it has seen.
CurrentSource(s, update) == s \in DOMAIN sources /\ sources[s].update = update /\ update < MaxUpdates

\* The rows of the store's three writes of a source; its versions and its schedule
\* go with it.
InsertSource(s, row, due_now) ==
  /\ s \notin drawn /\ drawn' = drawn \cup {s}
  /\ SourceFits(s, row) /\ sources' = With(sources, s, row)
  /\ versions' = With(versions, s, {})
  /\ schedules' = IF due_now THEN With(schedules, s, [update |-> row.update, at |-> clock]) ELSE schedules

StoreSource(s, row, interval) ==
  /\ SourceFits(s, row) /\ CurrentSource(s, row.update - 1)
  /\ sources' = With(sources, s, row)
  /\ Scheduled(s, row.update, interval)

RemoveSource(s, update) ==
  /\ CurrentSource(s, update)
  /\ sources' = Without(sources, s) /\ versions' = Without(versions, s)
  /\ schedules' = Without(schedules, s)

\* A new remote source is due at once.
CreateSource(s, config, enabled) ==
  /\ InsertSource(s, [config |-> config, enabled |-> enabled, current |-> NoVersion, update |-> 1],
                  config.kind = "remote" /\ enabled)
  /\ UNCHANGED <<clock, channels, due, jobs>>

UpdateSource(s, update, config, enabled) ==
  /\ s \in DOMAIN sources
  /\ StoreSource(s, [config |-> config, enabled |-> enabled, current |-> sources[s].current,
                     update |-> update + 1], Planned(config, enabled))
  /\ UNCHANGED <<clock, drawn, versions, channels, due, jobs>>

DeleteSource(s, update) ==
  /\ RemoveSource(s, update)
  /\ UNCHANGED <<clock, drawn, channels, due, jobs>>

\* ActivateSubscriptionSourceVersionWithSchedule. The source is read before the
\* transaction for its plan; only the same update can be written in it.
RestoreVersion(s, update, body) ==
  /\ CurrentSource(s, update) /\ body \in versions[s]
  /\ sources' = [sources EXCEPT ![s].current = body, ![s].update = update + 1]
  /\ Scheduled(s, update + 1, Planned(sources[s].config, sources[s].enabled))
  /\ UNCHANGED <<clock, drawn, versions, channels, due, jobs>>

-----------------------------------------------------------------------------
(* Refreshes and uploads *)

Begin(j, s) ==
  jobs' = [jobs EXCEPT ![j] = [step |-> "fetching", source |-> s, copy |-> sources[s],
                               body |-> NoVersion, interval |-> 0]]

SlotFree == Cardinality({j \in Refreshes : jobs[j] # Idle}) < RefreshSlots

\* RefreshSubscriptionSource reads the source in one of the slots.
RefreshSource(j, s) ==
  /\ j \in Refreshes /\ jobs[j] = Idle /\ SlotFree
  /\ s \in DOMAIN sources /\ sources[s].config.kind = "remote"
  /\ Begin(j, s)
  /\ UNCHANGED <<clock, drawn, sourceVars, channels, due>>

\* CreateSubscriptionSourceVersion up to its second read of the source, which
\* gives the plan; it need not be the update that is expected.
Prepared(j, s, body) ==
  IF s \in DOMAIN sources
    THEN jobs' = [jobs EXCEPT ![j] = [@ EXCEPT !.step = "saving", !.body = body,
                    !.interval = Planned(sources[s].config, sources[s].enabled)]]
    ELSE jobs' = [jobs EXCEPT ![j].step = "failed"]

\* The fetch answers, or it or the parser fails.
Fetched(j, document) ==
  /\ jobs[j].step = "fetching" /\ Prepared(j, jobs[j].source, <<jobs[j].copy.config.url, document>>)
  /\ UNCHANGED <<clock, drawn, sourceVars, channels, due>>

FetchFails(j) ==
  /\ jobs[j].step = "fetching" /\ jobs' = [jobs EXCEPT ![j].step = "failed"]
  /\ UNCHANGED <<clock, drawn, sourceVars, channels, due>>

\* The settings cannot be read, or the request is over: nothing is planned.
RefreshEnds(j) ==
  /\ jobs[j].step \in {"fetching", "failed"} /\ jobs' = [jobs EXCEPT ![j] = Idle]
  /\ UNCHANGED <<clock, drawn, sourceVars, channels, due>>

\* A document that a client sends for the update it has seen; slots are for fetches.
UploadVersion(j, s, document) ==
  /\ j \in Refreshes /\ jobs[j] = Idle /\ SlotFree /\ s \in DOMAIN sources
  /\ jobs' = [jobs EXCEPT ![j] = [step |-> "saving", source |-> s, copy |-> sources[s],
                 body |-> <<"upload", document>>,
                 interval |-> Planned(sources[s].config, sources[s].enabled)]]
  /\ UNCHANGED <<clock, drawn, sourceVars, channels, due>>

Refreshing(job) == job.body[1] # "upload"

\* Mutant: the update that was read before the fetch is not compared.
SaveUnconditionally(j) ==
  LET s == jobs[j].source
  IN /\ jobs[j].step = "saving" /\ s \in DOMAIN sources /\ sources[s].update < MaxUpdates
     /\ sources' = [sources EXCEPT ![s].current = jobs[j].body, ![s].update = @ + 1]
     /\ versions' = [versions EXCEPT ![s] = @ \cup {jobs[j].body}]
     /\ Scheduled(s, sources[s].update + 1, jobs[j].interval)
     /\ jobs' = [jobs EXCEPT ![j] = Idle]
     /\ UNCHANGED <<clock, drawn, channels, due>>

\* SaveSubscriptionSourceVersion: a known document is activated again.
Save(j) ==
  LET s == jobs[j].source  update == jobs[j].copy.update
  IN /\ jobs[j].step = "saving"
     /\ IF CurrentSource(s, update)
          THEN /\ sources' = [sources EXCEPT ![s].current = jobs[j].body, ![s].update = update + 1]
               /\ versions' = [versions EXCEPT ![s] = @ \cup {jobs[j].body}]
               /\ Scheduled(s, update + 1, jobs[j].interval)
               /\ jobs' = [jobs EXCEPT ![j] = Idle]
          ELSE /\ jobs' = [jobs EXCEPT ![j] = IF Refreshing(jobs[j]) THEN [@ EXCEPT !.step = "failed"]
                                                                     ELSE Idle]
               /\ UNCHANGED sourceVars
     /\ UNCHANGED <<clock, drawn, channels, due>>

\* RefreshDueSubscriptionSources: one query, then one source after the other,
\* each read again and skipped when it has changed.
ReadDue ==
  /\ jobs[Ticker] = Idle /\ due = {} /\ due' = Due
  /\ UNCHANGED <<clock, drawn, sourceVars, channels, jobs>>

RefreshDue(s, update) ==
  /\ jobs[Ticker] = Idle /\ <<s, update>> \in due /\ due' = due \ {<<s, update>>}
  /\ IF s \in DOMAIN sources /\ sources[s].enabled /\ sources[s].update = update
       THEN Begin(Ticker, s) ELSE UNCHANGED jobs
  /\ UNCHANGED <<clock, drawn, sourceVars, channels>>

-----------------------------------------------------------------------------
(* Channels *)

CurrentChannel(c, update) == c \in DOMAIN channels /\ channels[c].update = update /\ update < MaxChannelUpdates

StoreChannel(c, row) ==
  /\ ChannelFits(c, row) /\ channels' = With(channels, c, row)
  /\ UNCHANGED <<clock, sourceVars, due, jobs>>

InsertChannel(c, row) == c \notin drawn /\ drawn' = drawn \cup {c} /\ StoreChannel(c, row)

CreateChannel(c, size, enabled) == InsertChannel(c, [size |-> size, enabled |-> enabled, update |-> 1])

UpdateChannel(c, update, size, enabled) ==
  /\ CurrentChannel(c, update) /\ UNCHANGED drawn
  /\ StoreChannel(c, [size |-> size, enabled |-> enabled, update |-> update + 1])

DeleteChannel(c, update) ==
  /\ CurrentChannel(c, update) /\ channels' = Without(channels, c)
  /\ UNCHANGED <<clock, drawn, sourceVars, due, jobs>>

-----------------------------------------------------------------------------
(* The routes; a write carries the update of its If-Match header *)

Post(s) == \E config \in Requested, enabled \in BOOLEAN : CreateSource(s, config, enabled)
Put(s) == \E update \in 1 .. MaxUpdates, config \in Requested, enabled \in BOOLEAN :
            UpdateSource(s, update, config, enabled)
Delete(s) == \E update \in 1 .. MaxUpdates : DeleteSource(s, update)
PostRefresh(s) == \E j \in Refreshes : RefreshSource(j, s)
PostVersion(s) == \E j \in Refreshes, d \in Documents : UploadVersion(j, s, d)
PostRestore(s) == \E update \in 1 .. MaxUpdates, body \in Body : RestoreVersion(s, update, body)

\* subscriptionManagementHandler.
SourceRequests(s) ==
  Post(s) \/ Put(s) \/ Delete(s) \/ PostRefresh(s) \/ PostVersion(s) \/ PostRestore(s)

PostChannel(c) == \E size \in ChannelSizes, enabled \in BOOLEAN : CreateChannel(c, size, enabled)
PutChannel(c) == \E update \in 1 .. MaxChannelUpdates, size \in ChannelSizes, enabled \in BOOLEAN :
                   UpdateChannel(c, update, size, enabled)
RemoveChannel(c) == \E update \in 1 .. MaxChannelUpdates : DeleteChannel(c, update)

ChannelRequests(c) == PostChannel(c) \/ PutChannel(c) \/ RemoveChannel(c)

\* startSubscriptionRefresh beside the requests.
Refresh(j) ==
  \/ \E d \in Documents : Fetched(j, d)
  \/ FetchFails(j) \/ RefreshEnds(j) \/ Save(j) \/ Reschedule(j)

\* The panel ends: its goroutines are gone, the tables remain.
Restart ==
  /\ jobs' = [j \in Jobs |-> Idle] /\ due' = {}
  /\ UNCHANGED <<clock, drawn, sourceVars, channels>>

ClockTick == clock < MaxClock /\ clock' = clock + 1 /\ UNCHANGED <<drawn, sourceVars, channels, due, jobs>>

Next ==
  \/ \E s \in Sources : SourceRequests(s) \/ \E update \in 1 .. MaxUpdates : RefreshDue(s, update)
  \/ \E c \in Channels : ChannelRequests(c)
  \/ \E j \in Jobs : Refresh(j)
  \/ ReadDue \/ Restart \/ ClockTick

Spec == Init /\ [][Next]_vars

-----------------------------------------------------------------------------
(* Properties *)

\* The schedule is that of the sources as they are, whatever was edited, fetched
\* or restored at the same time: an enabled remote source with an interval is
\* planned for its present update within the interval, and nothing else is
\* planned but the first document of a new source.
ScheduleMatchesSources ==
  \A s \in DOMAIN sources :
    LET row == sources[s]
    IN /\ Planned(row.config, row.enabled) # 0 =>
            /\ s \in DOMAIN schedules
            /\ schedules[s].at <= clock + row.config.interval
       /\ s \in DOMAIN schedules =>
            /\ row.config.kind = "remote" /\ row.enabled /\ schedules[s].update = row.update
            /\ row.config.interval = 0 => row.current = NoVersion

\* A refresh that saves has fetched from the URL that the source still has, and
\* one of the ticker saves only for a source that is still enabled.
RefreshesMatchTheirSource ==
  [][\A j \in Jobs :
       /\ jobs[j] # Idle /\ jobs[j].step = "saving" /\ Refreshing(jobs[j])
       /\ jobs'[j] = Idle /\ sources' # sources
       => LET source == sources[jobs[j].source]
          IN /\ source.config.kind = "remote" /\ source.config.url = jobs[j].body[1]
             /\ j = Ticker => source.enabled]_vars

\* The enabled rows of both tables stay within the limits of a rendering.
InputsAreBounded ==
  /\ Cardinality(Enabled(sources)) <= MaxEnabledSources
  /\ Cardinality(Enabled(channels)) <= MaxEnabledChannels
  /\ SourceBytes(Enabled(sources)) + ChannelBytes(Enabled(channels)) <= InputBudget
=============================================================================
