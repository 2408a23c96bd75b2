# Verification of sing-box-panel

TLA+ models of the panel, TLC configurations that check them on small
instances, and theorems about them checked by TLAPS. The models are written from
the Go code and the SQL schema under `src/`; paths below are relative to
`src/internal/` unless they start with `src/`.

* [1. The system](#1-the-system)
* [2. Modules and code](#2-modules-and-code)
* [3. Runs](#3-runs)
* [4. Disagreements between code and documentation](#4-disagreements-between-code-and-documentation)
* [5. Proofs](#5-proofs)
* [6. What is left out](#6-what-is-left-out)
* [7. Plan](#7-plan)

## 1. The system

One panel process owns a data directory (by a file lock), a SQLite database in
it, and at most one `sing-box` child process. Operators change settings, core
binaries, configuration documents and subscriptions over HTTP or a control
socket; the panel checks a configuration with the binary, starts the child, and
keeps it running.

| Component | State it keeps | Operations | Interacts with |
|---|---|---|---|
| `runtime` (`config_files.go`) | user counts and names of startup configuration files on disk | acquire, close of a handle, prune | handles are held by startups, checks and children |
| `runtime` (`manager*.go`, `check.go`) | status, owned process, generation, closing and closed | Start, Stop, Restart, Check, CheckHealth, Close, Wait; a reaper goroutine per child | executor (fork, signals, wait), health probe, the files above |
| `server` (`runtime*.go`, `configuration_runtime.go`) | the lane's mutex, the reconciler's fence | execute an intent, tick of the reconciler, reconcile at startup, close | manager, store, clash API |
| `store` (`runtime_*.go`) | `hub_state`, `runtime_recovery`, `runtime_observation`, `runtime_transitions`, `startup_artifacts` | begin, bind and complete an intent, record and delete an observation, schedule a recovery | called by the lane, one SQLite transaction each |
| `application` (`runtime*.go`, `configuration_runtime.go`) | none of its own | prepare an apply, start, restart, rollback, enable, disable | store, lane |
| `application` (`panel_settings*.go`, `authentication.go`), `settings` | settings file, journal, a row with the last commit, sessions | save, restore, recover, log in and out | store; command line and editors write the same file |
| `installation` (`data_move*.go`) | data directories, their markers, the record of location and move | move, resume, finish | settings, lease of `panelprocess` |
| `application` (`traffic_collector.go`), `store` | the sampler's last counters, durable checkpoint, months, buckets | sample, persist, read the history | clash API, observation |
| `application` (`snapshot_feed.go`) | subscribers, generation, cancel function | subscribe, load, publish | HTTP streams |
| `application`, `store` (subscriptions) | sources, versions, schedules, channels, nodes, users, tokens | refresh, edit, grant, rotate, download | remote sources, subscribers |
| `subscription` | none | parse, convert, render | called by a download |
| `artifactstore`, `coreartifact`, `catalog` | immutable directories of binaries, catalog of releases with its validators | install, import, remove, refresh | remote releases; startup artifacts refer to cores |
| `store` (logs), `corelogs` | event logs and transitions; files of captured output | record, clear, page, stream; capture, rotate, prune, read | manager, HTTP readers |
| `selfupdate`, `release` | the executable, a lock beside it | resolve, verify, stage, replace | remote releases |
| `systemd` | unit, sysusers and tmpfiles files, account, ownership | install, control, move, uninstall | systemctl, data move |
| `panelprocess`, `httpapi`, `auth` | lease, budgets of login attempts | serve, log in | all of the above |

What makes the system hard:

* **The child lives by itself.** It may exit at any line of a call; its exit is
  published, its file released and the manager's status settled in three steps
  of a goroutine that no call synchronises with except by waiting.
* **Calls overlap.** Stop, Restart and Close cancel a startup of another caller
  before they wait for the operation lock; contexts end at any time.
* **Two facts must agree and no transaction spans them.** The process is changed
  first; the row that says so is written afterwards, may fail, or may have been
  written although the write reported an error.
* **The panel crashes.** The kernel then kills the child, and the next panel
  must recognise or fence whatever is on record.
* **Recovery is a persistent retry** with a budget that must survive restarts
  and must not be renewed by them.
* **Files and rows are one thing to the reader.** A save of the settings, an
  installed core and a moved directory are each several writes with a crash
  possible after any; the next start must find one of two states.
* **Reads are used after they are stale.** A refresh fetches without a lock, a
  download renders outside of its transaction, a page follows a page, an update
  replaces the file that it hashed earlier.
* **Limits are shared.** Sources with channels, all tokens of a rotation, all
  logins of a window, and each writer sees only part of the sum.
* **Documents must fail closed.** A missing node or group must end in a
  rejection and never in a direct connection.

What makes each part correct is stated by the properties of section 3; the list
of hazards, each at its line, is in `PROJECT.json`.

## 2. Modules and code

```
StartupConfigs  <-(INSTANCE)-  RuntimeManager  -(implements)->  OwnedChild
      |                            |
StartupConfigsProofs <-(INSTANCE)- RuntimeManagerProofs

RuntimeControl  <-  RuntimeControlProofs

MCRequests   parts:  SubscriptionSources  SubscriptionKeys  SubscriptionNodes
                     ChannelRendering  LoginLimiter  EventLogs  SnapshotFeed
                     PanelSettings  -(implements)->  SharedSettings
   <-  RequestProofs, SubscriptionProofs (with InductionLemmas)

MCHost       parts:  DataMove  CoreCatalog  CoreArtifacts  Traffic  CoreLogs
                     SelfUpdate  SystemService
   <-  HostProofs, RecordProofs (with InductionLemmas)
```

The runtime modules model the core's life. The parts below them write different
tables and files and share no step, so one run checks several: each behaviour of
`MCRequests` and `MCHost` runs the one part that the variable `part` names, and
the variables of the others keep their initial values. Nothing is lost by that:
a product of parts that share no variable has, for each part, the behaviours of
that part with stutters between, and every property speaks of one part. The
parts that do meet are in one module: a source with the channels that share its
budget, the settings with the sessions, the cores with the startup artifacts and
the link, the traffic with the observation, the service with the data move.

### StartupConfigs — `runtime/config_files.go`, `runtime/materialize.go`

`held[h]` is the digest an open handle refers to, `users` and `tracked` are the
map of counters (a missing key and a zero are told apart by `tracked`), `disk`
the directory. `Acquire` is `acquire`, `AcquireFails` a materialisation that
fails before or after the link, `Release` is `startupConfigFile.Close` with its
`sync.Once` and its attempt to remove every unused file, any of which may fail.
`Prune`, `PruneCancelled` and `Crash` complete the file. `Temp` stands for the
temporary files a crash may leave.

### RuntimeManager — `runtime/manager*.go`, `check.go`, `probe.go`, `verify.go`

Each caller runs through the steps of its call (`pc`), one action for each
critical section of `mu` and for each subprocess, signal or wait. `opHolder` is
`operationMu`, `target` the process a call captured before it released `mu`,
`reaper[g]` the progress of the goroutine of child `g`: waiting, exited (the
channel `exited` is closed), released (the file), settled (the status), done. A
child is named by the generation of its startup. A bundle is its own digest,
artifact and version; `VerifyVersion` may find any version. The files are the
instance `Configs` of StartupConfigs over the handles of callers and children,
and `Adopt` passes a handle from the startup to the child.

`OwnedChild` is what a caller may rely on: a slot that is empty, alive or dead,
an announced state, and a door that shuts once. `ImplementsOwnedChild` maps the
slot to the child of the latest generation until its reaper has settled.

### RuntimeControl — `server/runtime*.go`, `store/runtime_*.go`, `application/`

The lane is serialized by `runtimeServices.mu` and the lease, so the model has
one intent at a time and one `pc`; a transaction is one action. An intent is
begun by a command (`Begin*`) or by a due recovery (`Resume`), optionally checks
and binds a candidate (`Preflight`, `Bind`), changes the process (`Perform`,
`Replace`, `Launch*`, `Halt`), records and confirms it (`Record`, `Confirm`,
`PrepareCommit`), is undone when that fails (`StopLost`, `Uncertain`) and
completes in one transaction (`Complete`, `CompleteFails`). Between any two of
these the child may exit and be reaped, the request's context may end, the
configuration file may be saved, and the panel may crash.

The manager appears as RuntimeManager shows it to its one caller: a call returns
with the child running, gone, or killed and not yet reaped. The disturbances are
a constant, `Faults`, so that a run can ask a question under those that matter:
`save`, `cancel`, `read`, `slow`, `spawn`, `commit`, `crash`. `hub`, `recovery`
and `observation` are the rows of those tables; of `runtime_transitions` the
model keeps the newest state (`latest`) and the keys of failures without an
observation (`unobserved`), whose uniqueness a transaction may violate.
`intent` and `run` are the local variables of `executeIntent` and
`performRuntimeIntent`. `tries` and `forgiven` are history: recovery attempts in
a row, and a start of the panel that took a spent budget for a clean stop.

Abstractions: a bundle stands for a startup artifact with its activation bundle;
time is abstracted to whether a deadline has passed and whether two ticks saw
the same incarnation long enough; the clash API answers or does not; paginated
reads of the history and keys of transitions that name an observation (unique by
process incarnation) are left out, and so is the conflict of a key that a panel
restart may repeat with another generation (`panel_restart_gap`).

### PanelSettings, SharedSettings — `application/panel_settings*.go`, `panel_backup.go`, `authentication.go`, `settings/file.go`

`file` is the document on disk, `pending` the journal beside it with both
documents, `marker` the row that says which journal was committed. A request
takes the file lock, recovers what is pending (`Resume`, `RecoverForward`,
`Recover`, `Clear`), reads, writes the journal, publishes the file and commits
row and revoked sessions in one transaction (`WriteJournal`, `Publish`,
`Committed`), or rolls back. A commit may report an error after it was written.
The command line (`CliWrite`), editors (`HandEdit`) and a crash come between any
two steps. SharedSettings is one register of a document that changes as a whole,
with the sessions revoked in the same step.

### Subscriptions — `store/subscription_*.go`, `application/subscription_*.go`

`SubscriptionSources` has one action for each route that writes, each refused
when the row was updated since it was read, and the refresh as the code splits
it: read and claim a slot, fetch without a lock, plan again, save; the ticker
takes due sources, and a restart of the panel forgets its jobs. Sources and
channels check one budget, each for its own table. `SubscriptionKeys` has users,
tokens, rotation into the same lineage, and a download as read, render, record
and answer. `SubscriptionNodes` has manual nodes with their detours, what
sources publish, visibility, orders and grants, each written against a catalog
that was read earlier. `ChannelRendering` is one draft of a policy from
`Validate` over `Prepare` (the resolution of detours) to `Render`, for both
formats; `Chain` and `Lands` are what the document means to a client.

### LoginLimiter, SnapshotFeed, EventLogs — `httpapi/login_limiter.go`, `application/snapshot_feed.go`, `store/logs.go`

A login spends an attempt of the process, of its peer and later of its
fingerprint; windows are kept in a table that is swept and has a limit. The feed
is a goroutine per generation, a channel per reader and a cached snapshot. The
event logs are rows read by a walk of pages or by a stream that reconnects,
while recorders take their time before they insert, so that rows arrive out of
order.

### DataMove — `installation/data_move*.go`

`disk[d]` is what a directory holds, with its marker, `location` the record
beside the settings, `at[p]` the step of a start and `moving` the one that holds
the lock of the settings. Two starts compete for the lock and the lease; copying, verification, the ready mark, the removal of each
entry and the new record are steps of their own, after any of which the process
may end, a directory be damaged or the setting be edited.

### CoreCatalog, CoreArtifacts — `catalog/github*.go`, `artifactstore`, `application/core_artifact.go`

The catalog asks page by page with validators and keeps what it has when every
page is unchanged and none follows the last. An installation stages, verifies,
publishes archive and binary under their digest, syncs each directory and
records the core; a crash of the machine may take what was not synced. Startup
artifacts and the applied core hold a core against its removal.

### Traffic, CoreLogs — `application/traffic_collector.go`, `corelogs`

A collection is asked, answered and used in three steps, between which the core
may be replaced, the clock set back and the panel restarted. `counted` is what
each process has counted, against which months and buckets are judged. CoreLogs
cuts the output and the followed file into lines and segments; a reader puts
chunks together while files are cleared, pruned and written.

### SelfUpdate, SystemService — `selfupdate`, `release`, `systemd`

An updater resolves, verifies, hashes, locks, compares, stages and renames;
`executable` and `durable` are what runs and what survives a power failure.
SystemService has each command of the unit as a sequence of steps of which any
may fail or be the last, beside edits, panels started by hand and the account's
removal.


## 3. Runs

| Run | Instance | What it shows |
|---|---|---|
| `MCStartupConfigs` | 2 digests, 3 handles | held files stay, nothing on disk is forgotten |
| `MCRuntimeManager` | 2 callers, 2 bundles, 2 startups | one owned child, returned values are true, files stay under living children, closing is final, refinement of OwnedChild |
| `MCRuntimeManagerLive` | 2 callers, 1 bundle | every call returns |
| `MCRuntimeControl` | 2 bundles, all commands, all faults, 3 generations, 3 processes | what the database says of the service after every intent |
| `MCRuntimeRecovery` | 1 bundle, `apply`, crashes, 5 generations, 5 processes | the retry budget across restarts; a service that should run is recovered or given up |
| `MCRequests` | 8 parts, see below | what requests change and readers see |
| `MCHost` | 7 parts, see below | what the panel keeps on its host |
| `MCKeyConflict`, `MCBudgetForgotten`, `MCFenceErased`, `MCFailedStop`, `MCServiceStuck` | see section 4 | statements of the documentation that the code violates |

**Bounds.** Two handles of one digest and one of another are what a shared file
needs; a third handle is the one opened while a release is under way. Two callers show
every pair of calls, one of which waits for the lock while the other runs; two
startups show a predecessor and a successor. In `RuntimeControl` a rollback
needs two bundles and two applies, so three generations show a selection, its
replacement and its return, with a crash or a cancellation at any point; the
recovery run needs five, one explicit apply, the three attempts of the budget
and one more that the property forbids. The runs of StartupConfigs and
RuntimeManager check for deadlock. Those of RuntimeControl do not: a panel that
starts with a recovery due needs one more generation, and at the bound there is
none, so the instance, not the program, stops there; that a service waits for
nothing for ever is checked as `RecoveryResolves`. `MCRequests` and `MCHost` do not
either: their bounds on edits, crashes, clocks and releases end every behaviour.

| Part | Bounds, and what they let happen |
|---|---|
| sources | 1 source, 1 channel, 1 document, a request and the ticker, the configurations `MCRequested` (ticked, on request, uploaded), 3 updates: an edit, a removal and a re-creation under one fetch; a budget that either table alone would fit |
| keys | 1 user, 2 tokens, 2 downloads, quota 1, 1 midnight: two downloads of a lineage at its limit, a rotation between read and answer |
| nodes | 3 nodes, 2 tags, 1 remote tag, 1 editor, 2 revisions: the longest circle that a limit of two manual nodes allows, closed by renames |
| rendering | every graph of detours over 3 nodes with each node missing or excluded; every pair of groups that name nodes, each other, or nothing |
| settings | 3 documents, 1 request, 2 saves, 1 outside edit, 1 session: a save holds the file lock from its first read to its last step, so a second request adds only logins and checks between; two requests with one save and two documents were also checked and show the same |
| limiter | 2 logins, 2 addresses, limits 1 and 2, a window of 2 ticks, room for 2 clients: overflow and sweep inside an open window |
| events | 2 recorders, 3 rows, pages of 1, 2 instants: entries of one instant and entries recorded late, on both sides of a page's edge |
| feed | 2 readers, 3 goroutines: a cancelled one and its successor, both loading |
| move | 3 directories, 2 starters, 2 moves, 2 edits of the setting or the disk: a resumed move whose target is edited away, a second move back |
| catalog | 3 releases on pages of 1, 4 changes: publication and withdrawal between any two pages |
| cores | 2 digests (one not sound), 2 jobs, 2 crashes, each of the process or of the machine |
| traffic | 2 processes, 1 count, 2 ticks, a month of 2, 1 clock set back: a replaced process, a month's end and a set-back between ask, answer and flush |
| corelogs | 3 pieces of output, 2 days, 1 event; the retention policy by files is the first, the other may be set later |
| update | 2 updaters, 3 versions, one build that is no panel, 1 replacement by hand, 1 outage |
| service | 3 directories, one that cannot be used, 1 edit by hand; a command may stop after any step |

**Symmetry.** Bundles and callers are interchangeable in the safety runs of the
manager, tokens and downloads in `MCRequests`; the liveness runs use none.

**Properties.** Each one relates several steps or several pieces of state; the
comment above its definition names the code.

* `HeldFilesStay`, `NothingIsForgotten` (StartupConfigs).
* `OneOwnedChild`, `RunningIsVerified`, `ReturnsTellTheTruth`,
  `LivingChildrenKeepFiles` (the types and `LivingChildKeepsFile`), `ClosedIsFinal`, `ImplementsOwnedChild`, `CallsReturn`
  (RuntimeManager).
* `RestingServiceIsOnRecord`: between intents a living child is on record, runs
  the applied bundle and history says so. `SelectionIsSound`, `HistoryIsClosed`.
  `EvidenceFencesTheLiving`: evidence is given up only for a process that is
  gone. `OnlyCheckedBundlesReplace`: a candidate that fails its check leaves the
  running service alone. `BoundedRecovery`, `RecoveryResolves` (RuntimeControl).
* Of `MCRequests`: `ScheduleMatchesSources`, `RefreshesMatchTheirSource`,
  `InputsAreBounded` (sources); `QuotaIsShared`, `OnlyGoodTokensAreServed` (keys);
  `NoDependencyCycle` (nodes); `DocumentIsClosed`, `ExitsFailClosed` (rendering);
  `ImplementsSharedSettings`, `SessionsAreCurrent`, `AnswersAreTrue` (settings);
  `AttemptsAreLimited` (limiter); `EventsAreReadOnce` (events);
  `SnapshotsNeverGoBack` (feed).
* Of `MCHost`: `NothingIsLost`, `ServesTheData` (move); `RefreshIsExact` (catalog);
  `CoresAreInstalled` (cores); `TrafficIsBookedOnce`, `CoverageIsProven` (traffic);
  `ReadersSeeTheFile`, `CaptureIsInOrder` (corelogs); `UpdatesReplaceWhatTheySaw`
  (update); `AccountLeavesNothingBehind` (service).
* The types of each part are checked with the first of its properties. Those of
  StartupConfigs and RuntimeControl, and `UsersCountHandles`, are proved
  (section 5) and not repeated in a run.

**Fairness.** For the manager: goroutines are scheduled, `operationMu` is handed
to a waiter eventually (Go's mutex hands it over to a waiter that starved for a
millisecond, hence strong fairness of `Enter`), subprocesses and probes end by
themselves or with their timeout, and a process that was sent SIGKILL dies. A
child that was not killed may live for ever; callers need not call and contexts
need not end. For the lane: its goroutine and the reaper run, deadlines pass,
the reconciler ticks, killed processes end, a shutdown proceeds, and the
supervisor starts the panel again (the systemd unit restarts it). Commands,
crashes and the end of contexts are never assumed. The other modules state
safety only, and no fairness.

## 4. Disagreements between code and documentation

Each is a run that ends in a counterexample of the stated property.

* `MCKeyConflict` (`RecoveryResolves`). A start that fails before a process
  exists leaves no start time, so the key of its transition repeats for the same
  bundle, while the comparison of the stored record also includes generation and
  time. The second such failure conflicts inside the transaction that schedules
  the recovery, at every tick: the service is neither retried nor given up.
* `MCBudgetForgotten` (`BudgetIsSpentOnce`). The tick that exhausts the budget
  clears the observation and leaves `succeeded` set; the next start of the panel
  takes that for a clean stop and grants three more attempts. The documented
  reset needs five minutes of healthy runtime or an explicit request.
  `BoundedRecovery`, with this case excepted by `forgiven`, holds.
* `MCFenceErased` (`FenceOutlivesProcess`). A panel that refuses to start beside
  a process of an earlier one deletes that process's evidence in its deferred
  `Close`, although the observation is kept as a fence for a later decision.
* `MCFailedStop` (`FailedStopChangesNothing`). A stop whose request ends has
  killed the child already; the child is found present, which the comment takes
  to mean that nothing changed, and the intent completes without evidence.
* `MCServiceStuck` (`RelocationCanBeRetried`). A restart moves the data and is
  interrupted before it renews the unit and gives the directory to the account.
  The next start finds the data where the settings name it, returns before the
  renewal (`systemd/data_move.go:44`, `prepare.go:136`), and systemctl starts the
  old unit, whose directory is gone; the guide says that a failed relocation can
  be retried.

## 5. Proofs

The theorems hold for every value of the constants that satisfies the modules'
assumptions (finite sets, null values outside of them, bounds in `Nat`). The
parts of `MCRequests` and `MCHost` are proved about with the variables that they
have there; what they need is `ConstantsAssumption` of MCRequests (finitely many
requests, limits and times that are numbers, a budget of logins per peer no
larger than that of the process, values that stand for nothing apart from the
others, requests that carry configurations of their kinds, drafts that are
graphs over finitely many outbounds and groups), its `EventAssumption` (pages
have a size, `normalizePageLimit` of the store), and `HostAssumption` and
`RecordAssumption` of MCHost; the last takes from `settings.go:242` that the
logs of a day are kept for a day at least.

| Module | Invariant | Theorem | Property it states |
|---|---|---|---|
| StartupConfigsProofs | `ConfigsInvariant` | `ConfigsSafe` | `HeldFilesStay`, `UsersCountHandles`, `TypeOK` |
| | | `ConfigsForgetNothing` | `NothingIsForgotten` |
| RuntimeManagerProofs | `ManagerInvariant` | `ManagerOwnsOneChild` | `OneOwnedChild` |
| | | `NoChildAfterClose` | `ClosedIsFinal` |
| | `StateInvariant` | `ManagerRefinesOwnedChild` | `ImplementsOwnedChild` |
| | `ReturnInvariant` | `ReportsWhatRuns` | `RunningIsVerified` |
| | | `CallsTellTheTruth` | `ReturnsTellTheTruth` |
| | | `FilesOutliveChildren` | `LivingChildrenKeepFiles` |
| RuntimeControlProofs | `ShapeInvariant` | `ControlTypesCorrect` | `TypeOK` |
| | `ControlInvariant` | `SelectionStaysSound` | `SelectionIsSound` |
| | | `HistoryStaysClosed` | `HistoryIsClosed` |
| | | `ReplacementsAreChecked` | `OnlyCheckedBundlesReplace` |
| | `LaneInvariant` | `RestingServiceStaysOnRecord` | `RestingServiceIsOnRecord` |
| | | `EvidenceStaysWithTheLiving` | `EvidenceFencesTheLiving` |
| | | `RecoveryIsBounded` | `BoundedRecovery` |
| HostProofs | `MoveInvariant` | `MovesLoseNothing` | `NothingIsLost` |
| | | `PanelsServeTheData` | `ServesTheData` |
| | `CoresInvariant` | `CoresAreAlwaysInstalled` | `CoresAreInstalled` |
| | `CatalogInvariant` | `RefreshesAreExact` | `RefreshIsExact` |
| | `UpdateInvariant` | `UpdatesKeepTheirPromise` | `UpdatesReplaceWhatTheySaw` |
| | `ServiceInvariant` | `AccountsLeaveNothingBehind` | `AccountLeavesNothingBehind` |
| RequestProofs | `KeysInvariant` | `QuotasHold` | `QuotaIsShared` |
| | | `DownloadsAreChecked` | `OnlyGoodTokensAreServed` |
| | (`FeedInv`) | `DashboardsNeverGoBack` | `SnapshotsNeverGoBack` |
| | `SettingsInvariant` | `SessionsHold` | `SessionsAreCurrent` |
| | | `SettingsImplementOneDocument` | `ImplementsSharedSettings` |
| | | `AnswersAreKept` | `AnswersAreTrue` |
| | `SourcesInvariant` | `SchedulesHold` | `ScheduleMatchesSources` |
| | | `RefreshesHold` | `RefreshesMatchTheirSource` |
| | | `InputsHold` | `InputsAreBounded` |
| | `LimiterCounts` | `LimitsHold` | `AttemptsAreLimited` |
| SubscriptionProofs | `NodesInvariant` | `DetoursNeverCircle` | `NoDependencyCycle` |
| | `RenderingInvariant` | `DocumentsAreClosed` | `DocumentIsClosed` |
| | | `ExitsAlwaysFailClosed` | `ExitsFailClosed` |
| | `EventsInvariant` | `EventsAreAlwaysReadOnce` | `EventsAreReadOnce` |
| RecordProofs | `LedgerInvariant` | `BytesAreBookedOnce` | `TrafficIsBookedOnce` |
| | | `CompleteMeansCovered` | `CoverageIsProven` |
| | `LogsInvariant` | `ReadersAlwaysSeeTheFile` | `ReadersSeeTheFile` |
| | | `CaptureStaysInOrder` | `CaptureIsInOrder` |

**Parts and compositions.** Each part of `MCRequests` and `MCHost` has an
invariant over its own specification. `RequestsHave...` and `HostHas...` show
that a behaviour of the composition is one of the part: a step of the
composition is a step of the part or leaves its variables alone. The theorems in
the table then state the property that the run checks, with the types.

**StartupConfigs.** `HeldFilesStay` is not inductive: a release removes a file
whose counter is zero, so the counter must be known to be the number of open
handles (`UsersCountHandles`, a cardinality), and a name with a counter must be
tracked. `ConfigsInv` joins the three with the types; the lemmas `HoldersGrow`
and `HoldersShrink` count the holders after each step.

**RuntimeManager.** `ManagerInv` says who holds the operation lock at each step,
that a startup finds no process and names a child not used before, that a
captured process is the owned one or gone, that the reaper's progress and
`process` agree, that a living child has its reaper or is about to be adopted by
the holder of the lock, and that after Close no call past the lock is a start.
`StateInv` adds that "starting" is announced exactly while a startup runs and
what each reaper's progress says of its child. With both, every step is a step
of OwnedChild or a stutter: `QuietStep` for the steps it does not see,
`VisibleStep` and `ChildStep` for those it does.

What a call returns is true because of what was true when it last looked, some
steps and reaper steps earlier. `ReturnInv` carries that along: each step belongs
to an operation (`OperationInv`), the cancel function that the manager keeps is
that of the startup under way (`CancelInv`), a child that is condemned, stopped or
waited for will be settled as the call that waits for it is going to report
(`OutcomeInv`), the status fills up in the order of the verification
(`VerifiedInv`), and the handle on the startup file is with the call up to the
adoption and with the child's reaper from then on (`HandleInv`). The last one
uses `ConfigsInv` of the instance: its lemmas are those of StartupConfigsProofs,
and `Adopt` is the only step that is not one of StartupConfigs, since it renames a
holder without changing a count.

**RuntimeControl.** The types are not inductive alone: that a launch names a
process within the bound rests on the check made when its intent began
(`SpawnInv`), that a logged failure names a bundle on what the manager's status
implies (`ProcessInv`), and that history gets a state on what an intent gathers
(`RunInv`); `ShapeInv` joins them with the kind of intent at each step
(`IntentInv`). `ControlInv` adds that a bundle past its check is ready and
desired (`Checked`), that no verdict is given beside a preflight (`Checking`),
that a rollback still names `hub.rollback` when it commits (`RollsBack`), and
what each kind of evidence will say when the transaction writes it (`Evidence`:
deleted evidence is never logged as "running", recorded evidence names a
process). A step is one of six kinds (`StepKinds`), and the frame lemmas
(`OutsideKeeps`, `LeavingKeeps`, `SchedulingKeeps`, `LaneMoves`) settle the kinds
that cannot disturb a conjunct.

That a resting service is on record speaks of the time between intents only;
`LaneInv` says what holds within them. `ServedAt` names, for each step, the bundle
that a living child may run and whether it is on record yet or will be by the step that
comes (`ServiceInv`); `FenceInv` says that process numbers are not used twice,
that whatever lives is the observation or what `run.fence` remembers of it, and
that a step about to clear the observation clears one of a process that is
gone; `BudgetInv` relates the attempts made in a row to the row
`runtime_recovery` at each step of an episode, across the restart that resumes
it. `RecoveryIsBounded` follows from the last, with the exception `forgiven` that
section 4 describes.

**DataMove.** Where the newest data is depends on how far the record says that the
move has come. `DataInv` reads: without a move the recorded directory has
everything; with one that is not ready the source has; with one that is ready
the copy has, or what was damaged in the copy is still at the source
(`CopyInv`). This is inductive only together with what each step of the mover has done
already and whom the leases keep out (`MoverInv`), with the agreement of markers
and record (`RecordInv`), and with the fact that nobody serves from a place that
the record does not name (`LeaseInv`). Each step has a lemma (`ClaimKeeps` to
`RecordKeeps`); the crash after each is `EndsKeeps`.

**CoreArtifacts.** That files are present is not inductive, since a crash takes
what was not synced: `CoresInv` says that the entries of a recorded core are
durable, how much of its core each job has made durable, and that a binary on
disk has a durable archive. `LinkAdds` and `SyncKeeps` say what publication and
sync do to the entries, `OthersKeep` that the other jobs keep their promises.

**CoreCatalog.** The stored catalog may be of pages that upstream never showed
together, so nothing relates it to the list. But a validator stands for what its
page had, whence `ListedInv`: the catalog is what the stored validators stand for,
if every page had one. A refresh that finds the first pages unchanged while upstream
rests has so seen that the catalog covers the list as far as those pages go
(`ProbeInv`), and one that loads has seen the same of what it loaded (`LoadInv`).
`PageShows` says that the places up to a page and those of the page are the
places up to the next; `InjectiveFits`, that the list is no longer than there are
releases, a cardinality of an injection.

**SelfUpdate.** An update checks one thing per step and relies on it several
steps later. `UpdaterInv` says for each step what has been checked and why it is
still so: the release is newer (`own` does not change), the checksums were signed
for it (`SignedChecksums`: nobody signs those of another build), the staged file
belongs to the holder of the lock, and the executable is the hashed one because
whoever else replaces it needs that lock. Only an operator does not ask for it, whom
`blind` records. `BystanderKeeps` settles the other updaters for every step.

**SystemService.** The property says nothing of a removal under way, which has
checked that nobody runs and has gathered the paths to give back. `RemovalInv` does:
as long as the removal holds the account's locks nothing runs, and what the account
still owns of the places that files, settings or record name is among the
gathered paths. The steps that change neither account, group, owners nor record
are one lemma (`QuietServiceSteps`); the others are `OtherServiceSteps`.

**SnapshotFeed.** Only the goroutine of the current generation publishes, it is
the only one of it, and what it holds was collected after what is cached
(`OneCurrent`, `CachedIsOldest`); what waits in a channel is what is cached
(`ChannelsAreFresh`).

**SubscriptionKeys.** A body is counted before it is sent, so the invariant bounds
`Spent`, what was sent and what is counted and under way, a cardinality. One token
of a lineage at most is not revoked and all have one limit (`LineageInv`), and what
was never issued is nowhere (`IssuedInv`), so that a new token starts with nothing
spent. `TokensGo`, `TokenComes` and `NothingSpent` sort the steps by what they do to
the sum.

**PanelSettings.** A save writes a journal, a file and a row, and a crash, an edit or
a commit that reports an error after it was written may come between any two.
`FileInv` says for each step of the holder of the lock what journal, file and mark
are to each other; `NumberInv` that the identifier of a journal is not that of any
mark before, so that writing a journal changes nothing for a reader; `LockInv`
that nobody else is past the lock. With these the commit is the only step of a
save that changes the value (`CommitKeeps`), an edit makes the file the value
whatever the journal says (`EditKeeps`), and every recovery that is begun agrees
with the mark (`RecoverKeeps`, `ClearKeeps`). One lemma per step shows the
invariant, the step of SharedSettings and the truth of an answer together
(`Kept`), since all three rest on the same facts.

**SubscriptionSources.** An identifier is drawn once, so an update number names
one row: a job's copy with the present update is the present row (`CopyInv`), and a
job's plan is that of the update which it may save (`JobInv`). `StoredKeeps` treats
every write of a source at once, `OtherFits` the plans that it leaves alone; a
failed refresh that plans again is `RescheduleKeeps`. The budget of the enabled
rows is a sum over two tables, which are checked in different orders; it is
counted as a set of units, so that the sum is a cardinality. A write adds the
units of one row and takes those of the row that it replaces.

**LoginLimiter.** That no time of one window's length lets through two whole
budgets of a key is not visible in the table, which forgets: an entry that is over is
dropped, or renewed in place. `Counts` says of a window what the forgotten
ones leave behind: the attempts since it began are as many as it says, and the
length of one window before it saw no more than the limit less one. The last is why
`KeyInv` has to know that an entry begins with an attempt: when it is over, the
time of one window's length before now has lost that attempt (`Renews`). A key
without an entry is as one whose window would begin now, which time moves on
(`TickKeeps`). The process's window may begin with a refusal, so it carries a
whole limit (`GlobalInv`). Each attempt of the history is an element of its own, so
that counts are cardinalities (`AdmitsWithin`).

**SubscriptionNodes.** `NoDependencyCycle` is inductive together with the types;
the difficulty is that a save checks one walk and the property speaks of every set
of names. What the walk computes is a recursive function, which InductionLemmas
characterizes (`Iteration`). If a save closed a circle, the part of it off the walk
would be a circle of the earlier catalog, so all of it lies on the walk; the walk
ends, so it leaves every member for a last time, and the member that is left first
is led to by one that is left even before (`SaveKeepsOrder`). The types need that
no revision exceeds the sum which bounds the writes (`SumBounds`).

**ChannelRendering.** The renderer follows two graphs, and both walks have to
end. The walk along the detours stops where it comes back to itself, so it is no
longer than there are outbounds (`PathIsShort`, a cardinality) and is what the
loop of the code computes (`WalkIs`). A node is `Whole` if its chain of detours
leads through nodes that are there and ends at one without a detour. `Sorted` is
the invariant of the loop: what it took out is not whole, what it resolved and
left in is, whatever the order in which the nodes are taken; all nodes of one
walk are alike (`SameWhole`), so one turn decides on all of them
(`ResolveSorts`). For the groups, an accepted policy refers to groups without a
circle, so a table of what each renders to exists, and the document is what that
table says: it names members that are kept, and an exit over groups ends where
the policy puts it first or in a rejection.

**EventLogs.** Between two pages rows come and go, and one that is deleted may
come back as another with its identifier and instant. `IdsInv` keeps identifiers
unique among the rows that are there or on their way, so that the order places
any two of them (`BeforeOrders`) and a page can be cut (`NewestFirstSorts`,
`PageOfList`, `PageOfStream`): what a page leaves out lies beyond its last row,
and a page below the limit leaves out nothing. `WalkInv` says of an open list
that whatever was there at its beginning, is not deleted and is not older than
the cursor has been shown. `StreamInv` says the same of a stream, between its
first entry and its last; when a connection breaks while a batch is written the
position is ahead of what was got, and the reconnection takes it back to that.

**Traffic.** No counter says what was booked of which process: a month is one
number, and a process is replaced while its sample is still under way.
`LedgerInv` therefore says that an attribution exists (`Attributed`): booked
bytes can be given to processes, to each at most what it counted, to that of the
checkpoint at most the checkpoint's count as long as its samples may add
something, and none yet to a process that came up during a collection. An
accepted sample extends the attribution in one of two ways, as its process is
that of the checkpoint or not; what is refused changes nothing. That what a
history shows is never more follows from the rows, which lie one after the other
up to the checkpoint (`Kept`). A bucket is complete exactly if complete rows
cover its every instant: rows do not overlap, so the parts that lie in a bucket
add up to the number of instants they cover (`TotalOfParts`).

**CoreLogs.** A reader continues in a file by name and generation, so a file
that was begun must not be made again with another content. It is not, because
pruning always leaves the newest file of today (a day is kept at least and the
newest file is never the one over the limit), and the next file takes a number
above it; clearing a file starts a new generation (`FilesInv`, `ReaderInv`). A
number for one more file is always left: `RoomInv` counts the pieces that are
written and not stored yet, each of which can make one file. That what is
captured is in order is inductive in the chain that a line goes along: what is
in files was written before what is pending, and that before what is still to be
read of the core's own file (`OrderInv`, `FollowInv`), across rotations of that
file and restarts of the core.

**InductionLemmas.** The induction theorems of the library take an operator as a
parameter, which the provers cannot instantiate. The module states induction for
sets instead: a set of numbers has a least one (from the library's theorem that
a well-founded relation has minimal elements), hence induction over numbers,
over finite sets, and what functions that are defined by recursion over them
compute, in particular the sums of module Folds (`TotalTakes`, `TotalChanges`,
`TotalAdds`, `TotalOfParts`). A finite set has an enumeration in the order of a
key (`OrderedExists`), whence lists that are sorted by a choice exist.

The invariants were checked with TLC on the instances of section 3, or smaller
ones, before they were proved.

**Model-checked only.** Liveness (`CallsReturn`, `RecoveryResolves`), because
the prover does not handle fairness. The runs that end in a counterexample
(section 4) have nothing to prove. Every safety invariant and every action
property that a passing run checks is the statement of a theorem.

## 6. What is left out

Parsers of share links and documents, compilation and validation of documents,
and the encoding of settings are pure conversions and appear, where they matter,
as a choice of their outcome. Decoding of HTTP requests, the control endpoint,
the installation clean-up, the output of commands and the web interface keep no
state of their own. The clash API client is a choice in `Confirm` and `Answer`.
`PROJECT.json` names every part with its reason. Within the modelled parts the
following is abstracted or left out.

* **Settings.** `Publish` and `Recover` compare the file and rename over it in
  one step; in the code an edit by hand between the two would be lost, although
  `src/docs/guides/configuration-and-runtime.md:495` says a conflicting edit is
  never overwritten. Editors do not write the very bytes of a save under way. The
  command line reads without the lock and may see a document whose row is not
  committed. A save that was committed while its commit reported an error is not
  announced to the running panel.
* **Subscriptions.** Lists, previews and the fetch itself. The retry of the
  initial fetch is lost when a source that was never fetched and has no interval
  is edited (`src/docs/guides/subscriptions-and-observability.md:173` describes
  the retry). Of a node the renderer's model keeps its identity, its detour and
  whether it is there; of the rules only where they end.
* **Traffic.** The rows of rejected samples, the filter by bundle and the lists
  of periods. A bucket called complete may miss the bytes of an interval that
  crosses its border, and bytes counted while a process takes over the endpoint
  of another may be booked to the first; neither is counted twice.
* **Logs.** Paging by offset; an entry recorded late with an older time is not
  streamed. Of the core logs the output of the check and version commands, writes
  that fail half-way, bytes of a line without bound, and a clock set back by days
  (a file that is created again then keeps its generation).
* **Cores, updates.** Progress, quotas of uploads, leftovers of temporary files,
  errors when the lock file is created; on other platforms the update lock does
  nothing.
* **Service.** The user scope, drop-ins, the restart policy, fragments of other
  installations, processes of the account other than a panel started by hand. A
  custom data directory of an earlier installation that was never used and is
  empty may stay owned by a removed user. The data move is two steps here;
  DataMove has its detail.
* **Data move.** A crash between the removal of the emptied source's marker and
  of the source itself (`installation/data_move_files.go:307`, `:310`) makes later
  starts refuse (`installation/data_move.go:278`), though `store.go:81` promises
  recovery. DataMove shows the state; nothing is lost in it, and no run states
  the promise, which is one of liveness over crashes that may repeat.
* **Runtime.** Hazards that the models cover only in part: recovery of a bundle
  other than the applied one is refused before the transaction
  (`store/runtime_recovery.go:163`); a failed apply leaves the desired and the
  applied bundle apart (`store/runtime_intents.go:128`); two completions share the
  ten seconds of one deadline (`server/runtime_control.go:118`); a failure to
  renew the link of the enabled core is only logged (`:131`).

## 7. Plan

Written, in this order: `StartupConfigs`; `RuntimeManager` with `OwnedChild`;
`RuntimeControl`; `PanelSettings` with `SharedSettings`; `DataMove`; `Traffic`;
`SnapshotFeed`; subscriptions, logs, cores, updates and the service. To do:

1. Liveness of DataMove: a start after the last crash serves, or says which of
   the two directories to restore.
