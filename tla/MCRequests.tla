----------------------------- MODULE MCRequests -----------------------------
(***************************************************************************)
(* What requests change and readers see, on small instances: subscription  *)
(* sources with their channels, keys, nodes and the rendering of a channel, *)
(* and the settings, the logins, the event logs and the dashboards. These  *)
(* parts write different tables and files. Subscriptions meet in one read  *)
(* transaction of a download, which SubscriptionKeys and ChannelRendering  *)
(* begin with; so each behaviour runs one part, which part names. A        *)
(* variable whose name two parts use has another name here.                *)
(***************************************************************************)
EXTENDS TLC, Integers, Sequences, FiniteSets

CONSTANTS
  u1, u2,
  Sources, Channels, URLs, LongURLs, SourceDocuments, Refreshes, Ticker, RefreshSlots, Intervals,
  Requested, MinimumInterval, MaxEnabledSources, MaxEnabledChannels, InputBudget, ChannelSizes,
  MaxUpdates, MaxChannelUpdates, MaxClock,
  Users, NoUser, Tokens, Downloads, Unlimited, Limits, MaxUserUpdates, MaxDay, MaxAnswers,
  Nodes, Tags, NoTag, Remotes, RemoteTags, Members, Editors, MaxManualNodes, MaxRevisions, MaxMarks,
  Outbounds, Groups, o1, o2, o3, g1, g2, NoDetour, Drafts,
  Requests, Documents, Broken, None, MaxSaves, MaxEdits, MaxSessions, MaxRevision,
  Peers, Fingerprints, NoFingerprint, Logins, PeerLimit, GlobalLimit, Window, MaxLogins, MaxClients,
  MaxLoginTime, Recorders, NoEntry, LogSources, AnySource, PageLimit, MaxRows, MaxEventTime,
  Readers, Interval, MaxGenerations, MaxVersion, MaxFeedTime

VARIABLES part,
  clock, drawn, sources, versions, schedules, channels, due, jobs,
  today, users, tokens, issued, available, downloads, delivered,
  manual, feeds, used, visibility, orders, grants, views,
  draft, step, eligible, resolved, document,
  file, pending, marker, configuration, sessions, writer, fileLock, panel, pc, call, answer,
  announced, ids, sessionTokens, edits, lingering,
  loginClock, entries, global, inFlight, nextCleanup, stage, sender, hashing, admissions,
  eventClock, eventRows, recording, walk, stream, added, late, gone,
  version, feedClock, snapshot, generation, workers, subscribers, channel, shown

(* The drafts: every graph of detours over three nodes with policies that   *)
(* leave nodes out, and pairs of groups that name nodes, each other, or     *)
(* what is not there.                                                       *)
NoGroups == [g \in Groups |-> [enabled |-> FALSE, type |-> "select", order |-> <<>>,
                               rule |-> [kind |-> "direct"], place |-> 1]]
NodeDrafts ==
  [format : {"sing-box", "mihomo"}, present : {Outbounds, Outbounds \ {o1}},
   remote : {Outbounds, Outbounds \ {o2}}, detour : [Outbounds -> Outbounds \cup {NoDetour}],
   policy : {"include"}, selected : {{o1}}, excluded : {{}, {o3}}, strict : BOOLEAN,
   groups : {NoGroups}, exit : {[kind |-> "direct"]}]
Candidates(S) == {<<>>} \cup {<<x>> : x \in S} \cup {<<x, y>> : x, y \in S}
GroupOf(S, rules, place) ==
  [enabled : BOOLEAN, type : {"select", "fallback"}, order : Candidates(S), rule : rules, place : {place}]
GroupDrafts ==
  {[format |-> "mihomo", present |-> nodes, remote |-> Outbounds, detour |-> [n \in Outbounds |-> NoDetour],
    policy |-> "exclude", selected |-> {o1, o2}, excluded |-> {}, strict |-> FALSE,
    groups |-> (g1 :> a @@ g2 :> b), exit |-> [kind |-> "group", id |-> g1]] :
     nodes \in {{o1}, {o2}},
     a \in GroupOf({o1, "direct", g2}, {[kind |-> "group-default"], [kind |-> "node", id |-> o1]}, 2),
     b \in GroupOf({o2, g1, "reject"}, {[kind |-> "group-default"]}, 1)}
MCDrafts == NodeDrafts \cup GroupDrafts

(* The second settings document changes the rest, the third the credentials. *)
MCDocuments == {[auth |-> 1, rest |-> 1], [auth |-> 1, rest |-> 2], [auth |-> 2, rest |-> 1]}
MCBroken == [auth |-> 0, rest |-> 0]

\* A source that the ticker refreshes, one that only requests do, one without a URL.
MCRequested == {[kind |-> "remote", url |-> u1, interval |-> 1],
                [kind |-> "remote", url |-> u2, interval |-> 0],
                [kind |-> "local", url |-> "upload", interval |-> 0]}

SourceParts == INSTANCE SubscriptionSources WITH Documents <- SourceDocuments
KeyParts == INSTANCE SubscriptionKeys
NodeParts == INSTANCE SubscriptionNodes
Rendering == INSTANCE ChannelRendering
SharedFile == INSTANCE PanelSettings WITH lock <- fileLock, tokens <- sessionTokens
Shared == INSTANCE SharedSettings WITH value <- SharedFile!Effective,
  Documents <- Documents \cup {Broken}, Sessions <- SharedFile!Session
Limiter == INSTANCE LoginLimiter WITH now <- loginClock, MaxTime <- MaxLoginTime
Events == INSTANCE EventLogs WITH now <- eventClock, rows <- eventRows, MaxTime <- MaxEventTime
Feed == INSTANCE SnapshotFeed WITH time <- feedClock, cached <- snapshot,
  MaxTime <- MaxFeedTime

\* What the proofs need: requests are finitely many, limits, counters and times are numbers,
\* and what stands for nothing or for the command line is none of the others.
ASSUME ConstantsAssumption ==
  /\ IsFiniteSet(Downloads) /\ Limits \subseteq Nat /\ Interval \in Nat
  /\ MaxDay \in Nat /\ MaxAnswers \in Nat /\ MaxUserUpdates \in Nat \ {0} /\ MaxGenerations \in Nat
  /\ None \notin Documents \cup Requests \cup SharedFile!Journal /\ "cli" \notin Requests \cup {None}
  /\ Requested \subseteq SourceParts!Config /\ Intervals \subseteq Nat /\ MinimumInterval \in Nat
  /\ "upload" \notin URLs /\ Ticker \notin Refreshes /\ IsFiniteSet(Refreshes) /\ RefreshSlots \in Nat
  /\ MaxEnabledSources \in Nat /\ MaxEnabledChannels \in Nat /\ InputBudget \in Nat
  /\ ChannelSizes \subseteq Nat
  /\ MaxUpdates \in Nat \ {0} /\ MaxChannelUpdates \in Nat \ {0} /\ MaxClock \in Nat
  /\ MaxSaves \in Nat /\ MaxEdits \in Nat /\ MaxSessions \in Nat /\ MaxRevision \in Nat
  /\ PeerLimit \in Nat \ {0} /\ GlobalLimit \in Nat /\ PeerLimit <= GlobalLimit
  /\ Window \in Nat \ {0} /\ MaxLogins \in Nat /\ MaxClients \in Nat /\ MaxLoginTime \in Nat
  /\ IsFiniteSet(Logins) /\ "all" \notin Peers \cup Fingerprints
  /\ MaxVersion \in Nat \ {0} /\ MaxFeedTime \in Nat
  /\ IsFiniteSet(Nodes) /\ IsFiniteSet(Remotes) /\ IsFiniteSet(RemoteTags) /\ IsFiniteSet(Members)
  /\ IsFiniteSet(Tags) /\ NoTag \notin Tags
  /\ MaxManualNodes \in Nat /\ MaxRevisions \in Nat /\ MaxMarks \in Nat
  /\ IsFiniteSet(Outbounds) /\ IsFiniteSet(Groups) /\ NoDetour \notin Outbounds
  /\ Outbounds \cap Groups = {} /\ (Outbounds \cup Groups) \cap Rendering!Builtins = {}
  /\ Drafts \subseteq Rendering!Draft

\* Pages have a size, and a log can be written for some core.
ASSUME EventAssumption ==
  /\ MaxRows \in Nat /\ MaxEventTime \in Nat /\ PageLimit \in Nat \ {0}
  /\ NoEntry \notin Events!Rows /\ LogSources # {}

sourceVars == <<clock, drawn, sources, versions, schedules, channels, due, jobs>>
keyVars == <<today, users, tokens, issued, available, downloads, delivered>>
nodeVars == <<manual, feeds, used, visibility, orders, grants, views>>
renderVars == <<draft, step, eligible, resolved, document>>
settingsVars == <<file, pending, marker, configuration, sessions, writer, fileLock, panel, pc, call,
  answer, announced, ids, sessionTokens, edits, lingering>>
limiterVars == <<loginClock, entries, global, inFlight, nextCleanup, stage, sender, hashing,
  admissions>>
eventsVars == <<eventClock, eventRows, recording, walk, stream, added, late, gone>>
feedVars == <<version, feedClock, snapshot, generation, workers, subscribers, channel, shown>>

\* What a part begins with is left open in it, and fixed while another runs.
Init ==
  /\ part \in {"sources", "keys", "nodes", "rendering", "settings", "limiter", "events", "feed"}
  /\ SourceParts!Init /\ KeyParts!Init /\ NodeParts!Init
  /\ SharedFile!Init /\ Limiter!Init /\ Events!Init /\ Feed!Init
  /\ part # "settings" => file = [auth |-> 1, rest |-> 1]
  /\ IF part = "rendering" THEN Rendering!Init
     ELSE /\ draft = [format |-> "none"] /\ step = "none"
          /\ eligible = {} /\ resolved = {} /\ document = [nodes |-> {}]

Next ==
  /\ UNCHANGED part
  /\ \/ part = "sources" /\ SourceParts!Next
        /\ UNCHANGED <<keyVars, nodeVars, renderVars, settingsVars, limiterVars, eventsVars, feedVars>>
     \/ part = "keys" /\ KeyParts!Next
        /\ UNCHANGED <<sourceVars, nodeVars, renderVars, settingsVars, limiterVars, eventsVars, feedVars>>
     \/ part = "nodes" /\ NodeParts!Next
        /\ UNCHANGED <<sourceVars, keyVars, renderVars, settingsVars, limiterVars, eventsVars, feedVars>>
     \/ part = "rendering" /\ Rendering!Next
        /\ UNCHANGED <<sourceVars, keyVars, nodeVars, settingsVars, limiterVars, eventsVars, feedVars>>
     \/ part = "settings" /\ SharedFile!Next
        /\ UNCHANGED <<sourceVars, keyVars, nodeVars, renderVars, limiterVars, eventsVars, feedVars>>
     \/ part = "limiter" /\ Limiter!Next
        /\ UNCHANGED <<sourceVars, keyVars, nodeVars, renderVars, settingsVars, eventsVars, feedVars>>
     \/ part = "events" /\ Events!Next
        /\ UNCHANGED <<sourceVars, keyVars, nodeVars, renderVars, settingsVars, limiterVars, feedVars>>
     \/ part = "feed" /\ Feed!Next
        /\ UNCHANGED <<sourceVars, keyVars, nodeVars, renderVars, settingsVars, limiterVars, eventsVars>>

Spec == Init /\ [][Next]_<<part, sourceVars, keyVars, nodeVars, renderVars, settingsVars, limiterVars, eventsVars, feedVars>>

Symmetry == Permutations(Downloads) \cup Permutations(Tokens)

(* The properties of the parts, where they are explained; each speaks of the *)
(* states of its part, and the first of a part of the types there too.     *)

\* The schedule of refreshes is that of the sources as they are.
ScheduleMatchesSources == part = "sources" => SourceParts!TypeOK /\ SourceParts!ScheduleMatchesSources
\* A refresh saves for the URL that the source still has.
RefreshesMatchTheirSource == SourceParts!RefreshesMatchTheirSource
\* The enabled rows of sources and channels stay within one budget.
InputsAreBounded == part = "sources" => SourceParts!InputsAreBounded
\* The tokens of one lineage share one quota of downloads.
QuotaIsShared == part = "keys" => KeyParts!TypeOK /\ KeyParts!QuotaIsShared
\* A token that stopped to be good while its download was rendered is not served.
OnlyGoodTokensAreServed == KeyParts!OnlyGoodTokensAreServed
\* The detours of manual nodes never form a circle.
NoDependencyCycle == part = "nodes" => NodeParts!TypeOK /\ NodeParts!NoDependencyCycle
\* A rendered document names only what it contains.
DocumentIsClosed == part = "rendering" => Rendering!TypeOK /\ Rendering!DocumentIsClosed
\* A missing node or group ends in a rejection.
ExitsFailClosed == part = "rendering" => Rendering!ExitsFailClosed
\* No session outlives a change of the credentials by the panel.
SessionsAreCurrent == part = "settings" => SharedFile!TypeOK /\ SharedFile!SessionsAreCurrent
\* The file, the journal and the mark together are one register: it changes in
\* the one step that commits a save, together with the sessions, or by an edit,
\* whatever crashes, fails or is reported wrongly in between.
ImplementsSharedSettings ==
  /\ part = "settings" => Shared!Init
  /\ [][part = "settings" => [Shared!Next]_(Shared!vars)]_settingsVars
\* A call that reports success tells the truth.
AnswersAreTrue == SharedFile!AnswersAreTrue
\* Logins that are let through within a window are limited, whatever is dropped.
AttemptsAreLimited == part = "limiter" => Limiter!TypeOK /\ Limiter!AttemptsAreLimited
\* Walks and streams show every entry once, in order.
EventsAreReadOnce == part = "events" => Events!TypeOK /\ Events!EventsAreReadOnce
\* No reader is shown an older snapshot after a newer one.
SnapshotsNeverGoBack == [](part = "feed" => Feed!TypeOK) /\ Feed!SnapshotsNeverGoBack
=============================================================================
