------------------------------- MODULE MCHost -------------------------------
(***************************************************************************)
(* What the panel does on its host, on small instances: it moves its data, *)
(* reads the catalog of releases, installs cores, keeps the books of their *)
(* traffic and their logs, updates and is installed as a service. These    *)
(* parts keep their state in files and tables of their own and share no    *)
(* step, so each behaviour runs one of them, which part names. A variable  *)
(* whose name two parts use has another name here.                         *)
(***************************************************************************)
EXTENDS Integers, FiniteSets

CONSTANTS
  Dirs, NoDir, Starters, NoStarter, MaxWrites, MaxMoves, MaxDirEdits,
  Releases, Stable, PerPage, MaximumPages, RefreshInterval, MaxChanges, MaxCatalogTime,
  Digests, Sound, Assets, UserSources, Jobs, NoDigest, MaxCrashes,
  Processes, NoProcess, MaxCount, MonthLength, PersistAfter, CompleteGap, Retention, MaxSetBacks,
  MaxTrafficTime,
  Policies, ChunkLines, LinePieces, MaxPieces, MaxDay, MaxEvents,
  Updaters, NoUpdater, MaxVersion, Rebuilt, Misbuilt, MaxReplacements, MaxOutages,
  ServiceDirs, DefaultDir, Unusable, Settings, MaxEdits

\* What the proofs need: nothing is none of the names, counters are bounded by numbers.
ASSUME HostAssumption ==
  /\ NoDir \notin Dirs /\ NoStarter \notin Starters
  /\ MaxWrites \in Nat \ {0} /\ MaxMoves \in Nat
  /\ MaxVersion \in Nat \ {0} /\ NoUpdater \notin Updaters
  /\ DefaultDir \in ServiceDirs
  /\ IsFiniteSet(Releases) /\ "none" \notin Releases
  /\ PerPage \in Nat \ {0} /\ MaximumPages \in Nat

\* The same for the books and the logs; settings keep a day at least, and every chunk has room.
ASSUME RecordAssumption ==
  /\ IsFiniteSet(Processes) /\ NoProcess \notin Processes
  /\ MaxCount \in Nat /\ MaxTrafficTime \in Nat /\ MonthLength \in Nat \ {0}
  /\ PersistAfter \in Int /\ CompleteGap \in Int /\ Retention \in Int
  /\ ChunkLines \in Nat \ {0} /\ MaxPieces \in Nat /\ MaxDay \in Nat
  /\ \A p \in Policies : p.days \in Nat \ {0} /\ p.files \in Nat /\ p.lines \in Nat

VARIABLES part,
  configured, location, disk, written, moving, at, survivor, moves, dirEdits,
  listed, catalogState, refresh, catalogClock, changes,
  running, stored, coreRows, startups, applied, link, coreJobs, uploads, crashes,
  counting, observed, counted, trafficClock, sampling, collector, checkpoint, months, samples, peak,
  setBacks,
  day, logging, pieces, native, logFiles, policy, logFile, epoch, generations, drawn, unwritten,
  follower, reader, logEvents,
  releases, executable, durable, updateLock, updateStep, own, resolvedTag, expected, seen, staged,
  blind, replacements, outages,
  serviceFiles, loaded, enabled, serviceDir, manual, account, group, owner, serviceData,
  serviceLocation, cmd, handEdits

MCPolicies == {[days |-> 1, files |-> 0, lines |-> 2], [days |-> 2, files |-> 2, lines |-> 1]}
\* The first build of release 2 is not a panel for this platform.
MCMisbuilt == {<<2, 1>>}

Move == INSTANCE DataMove WITH latest <- written, core <- survivor
Catalog == INSTANCE CoreCatalog WITH upstream <- listed, time <- catalogClock,
  state <- catalogState, MaxTime <- MaxCatalogTime
Cores == INSTANCE CoreArtifacts WITH rows <- coreRows, jobs <- coreJobs
Ledger == INSTANCE Traffic WITH core <- counting, clock <- trafficClock,
  MaxTime <- MaxTrafficTime
Logs == INSTANCE CoreLogs WITH core <- logging, written <- pieces, files <- logFiles,
  active <- logFile, pending <- unwritten, events <- logEvents
Update == INSTANCE SelfUpdate WITH upstream <- releases, cached <- executable, lock <- updateLock,
  step <- updateStep, latest <- resolvedTag, edits <- replacements, MaxEdits <- MaxReplacements
Service == INSTANCE SystemService WITH files <- serviceFiles, active <- serviceDir,
  configured <- serviceData, location <- serviceLocation, edits <- handEdits, Dirs <- ServiceDirs

moveVars == <<configured, location, disk, written, moving, at, survivor, moves, dirEdits>>
catalogVars == <<listed, catalogState, refresh, catalogClock, changes>>
coresVars == <<running, stored, coreRows, startups, applied, link, coreJobs, uploads, crashes>>
trafficVars == <<counting, observed, counted, trafficClock, sampling, collector, checkpoint, months,
  samples, peak, setBacks>>
corelogsVars == <<day, logging, pieces, native, logFiles, policy, logFile, epoch, generations,
  drawn, unwritten, follower, reader, logEvents>>
updateVars == <<releases, executable, durable, updateLock, updateStep, own, resolvedTag, expected,
  seen, staged, blind, replacements, outages>>
serviceVars == <<serviceFiles, loaded, enabled, serviceDir, manual, account, group, owner,
  serviceData, serviceLocation, cmd, handEdits>>

\* What a part begins with is left open in it, and fixed while another runs.
Init ==
  /\ part \in {"move", "catalog", "cores", "traffic", "corelogs", "update", "service"}
  /\ Move!Init /\ Catalog!Init /\ Cores!Init /\ Ledger!Init
  /\ Logs!Init /\ Update!Init /\ Service!Init
  /\ part # "move" => configured = CHOOSE d \in Dirs : TRUE
  /\ policy.files = 2
  /\ part # "update" => executable = Update!Stored(Update!Dev, TRUE)

Next ==
  /\ UNCHANGED part
  /\ \/ part = "move" /\ Move!Next
        /\ UNCHANGED <<catalogVars, coresVars, trafficVars, corelogsVars, updateVars, serviceVars>>
     \/ part = "catalog" /\ Catalog!Next
        /\ UNCHANGED <<moveVars, coresVars, trafficVars, corelogsVars, updateVars, serviceVars>>
     \/ part = "cores" /\ Cores!Next
        /\ UNCHANGED <<moveVars, catalogVars, trafficVars, corelogsVars, updateVars, serviceVars>>
     \/ part = "traffic" /\ Ledger!Next
        /\ UNCHANGED <<moveVars, catalogVars, coresVars, corelogsVars, updateVars, serviceVars>>
     \/ part = "corelogs" /\ Logs!Next
        /\ UNCHANGED <<moveVars, catalogVars, coresVars, trafficVars, updateVars, serviceVars>>
     \/ part = "update" /\ Update!Next
        /\ UNCHANGED <<moveVars, catalogVars, coresVars, trafficVars, corelogsVars, serviceVars>>
     \/ part = "service" /\ Service!Next
        /\ UNCHANGED <<moveVars, catalogVars, coresVars, trafficVars, corelogsVars, updateVars>>

Spec == Init /\ [][Next]_<<part, moveVars, catalogVars, coresVars, trafficVars, corelogsVars, updateVars, serviceVars>>

(* The properties of the parts, where they are explained; each speaks of the *)
(* states of its part, and the first of a part of the types there too.     *)

\* The version of every item written last is in some directory that survives.
NothingIsLost == part = "move" => Move!TypeOK /\ Move!NothingIsLost
\* A panel that serves finds what was written last.
ServesTheData == part = "move" => Move!ServesTheData
\* A refreshed catalog is the list at upstream at one moment.
RefreshIsExact == [](part = "catalog" => Catalog!TypeOK) /\ Catalog!RefreshIsExact
\* Every recorded core is completely stored, also after a crash.
CoresAreInstalled == part = "cores" => Cores!TypeOK /\ Cores!CoresAreInstalled
\* The books never hold more than what the processes have counted.
TrafficIsBookedOnce == part = "traffic" => Ledger!TypeOK /\ Ledger!TrafficIsBookedOnce
\* A bucket that calls itself complete is covered by samples.
CoverageIsProven == part = "traffic" => Ledger!CoverageIsProven
\* Chunks that are put together are the file, as long as their cursor is accepted.
ReadersSeeTheFile == part = "corelogs" => Logs!TypeOK /\ Logs!ReadersSeeTheFile
\* The captured lines are in the order in which the core wrote them.
CaptureIsInOrder == part = "corelogs" => Logs!CaptureIsInOrder
\* An update replaces the executable that it compared, with a newer signed one.
UpdatesReplaceWhatTheySaw == [](part = "update" => Update!TypeOK) /\ Update!UpdatesReplaceWhatTheySaw
\* Removal of the account leaves no service without it and nothing owned by nobody.
AccountLeavesNothingBehind == part = "service" => Service!TypeOK /\ Service!AccountLeavesNothingBehind
=============================================================================
