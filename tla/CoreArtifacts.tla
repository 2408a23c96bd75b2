---------------------------- MODULE CoreArtifacts ----------------------------
(***************************************************************************)
(* Cores on disk and in the database: internal/artifactstore,              *)
(* application/core_artifact.go, core_uploads.go, enabled_core.go,         *)
(* store/core_artifact*.go and the routes that install and import them.    *)
(*                                                                         *)
(* An archive is received into a private stage, verified, published under  *)
(* its digest and then recorded. Jobs run concurrently and may publish the *)
(* same digest. A directory entry that was not synced may be gone after a  *)
(* power failure. A startup artifact refers to a core, an intent applies   *)
(* it, and the link "current" shows the applied one.                       *)
(***************************************************************************)
EXTENDS Integers, FiniteSets

CONSTANTS
  Digests,           \* archives that may be received
  Sound,             \* those in which everything is verified successfully
  Assets,            \* official assets in the catalog
  UserSources,       \* descriptions of imported archives
  Jobs, NoDigest,
  MaxCrashes         \* bound

VARIABLES
  running,           \* the panel serves
  stored,            \* sha256/<digest>: how durable its entries are
  rows,              \* core_artifacts: source and digest, which are its identity
  startups,          \* core rows that a startup artifact refers to
  applied,           \* the core of the applied bundle, if any
  link,              \* digest that "current" points to
  jobs,              \* requests at work
  uploads,           \* staged files in imports/, by the request that wrote them
  crashes

coreVars == <<running, stored, rows, startups, applied, link, jobs, uploads, crashes>>

Entries == {"directory", "archive", "binary"}
Levels == {"absent", "cached", "durable"}
Sources == Assets \cup UserSources
Core(source, digest) == [source |-> source, digest |-> digest]
Cores == [source : Sources, digest : Digests]
NoCore == Core(NoDigest, NoDigest)
Idle == [step |-> "idle", source |-> NoDigest, digest |-> NoDigest]
Steps == {"idle", "upload", "receive", "verify", "archive", "syncArchive", "binary", "syncBinary", "inspect", "persist"}

TypeOK ==
  /\ running \in BOOLEAN /\ stored \in [Digests -> [Entries -> Levels]]
  /\ rows \subseteq Cores /\ startups \subseteq Cores /\ applied \in Cores \cup {NoCore}
  /\ link \in Digests \cup {NoDigest} /\ uploads \subseteq Jobs
  /\ jobs \in [Jobs -> [step : Steps, source : Sources \cup {NoDigest}, digest : Digests \cup {NoDigest}]]

Init ==
  /\ running = TRUE /\ stored = [d \in Digests |-> [e \in Entries |-> "absent"]]
  /\ rows = {} /\ startups = {} /\ applied = NoCore /\ link = NoDigest
  /\ jobs = [j \in Jobs |-> Idle] /\ uploads = {} /\ crashes = 0

-----------------------------------------------------------------------------
(* Installing and importing *)

Go(j, step) == jobs' = [jobs EXCEPT ![j].step = step]
Present(d, e) == stored[d][e] # "absent"

\* publishFile: a link to the staged file, unless there is one already.
Link(d, entries) ==
  stored' = [stored EXCEPT ![d] = [e \in Entries |-> IF e \in entries /\ @[e] = "absent" THEN "cached" ELSE @[e]]]
\* syncDirectory makes the entries of one directory durable.
SyncDirectory(d, entries) ==
  stored' = [stored EXCEPT ![d] = [e \in Entries |-> IF e \in entries /\ @[e] = "cached" THEN "durable" ELSE @[e]]]

\* installCore and InstallOfficial: an asset of the catalog.
Install(j, asset) ==
  /\ running /\ jobs[j] = Idle
  /\ jobs' = [jobs EXCEPT ![j] = [Idle EXCEPT !.step = "receive", !.source = asset]]
  /\ UNCHANGED <<running, stored, rows, startups, applied, link, uploads, crashes>>

\* importCore stages the upload under a private name.
Import(j, source) ==
  /\ running /\ jobs[j] = Idle
  /\ jobs' = [jobs EXCEPT ![j] = [Idle EXCEPT !.step = "upload", !.source = source]]
  /\ uploads' = uploads \cup {j}
  /\ UNCHANGED <<running, stored, rows, startups, applied, link, crashes>>

\* validCoreImportRequest, ImportCore and ImportLocal.
StageUpload(j) ==
  /\ jobs[j].step = "upload" /\ j \in uploads /\ Go(j, "receive")
  /\ UNCHANGED <<running, stored, rows, startups, applied, link, uploads, crashes>>

\* Download or copy within the limits; the digest is that of what has come.
Receive(j) ==
  /\ jobs[j].step = "receive"
  /\ \E d \in Digests : jobs' = [jobs EXCEPT ![j].digest = d, ![j].step = "verify"]
  /\ UNCHANGED <<running, stored, rows, startups, applied, link, uploads, crashes>>

\* extractSingBox, verifyELF and the version that the binary reports.
Verify(j) ==
  /\ jobs[j].step = "verify" /\ jobs[j].digest \in Sound /\ Go(j, "archive")
  /\ UNCHANGED <<running, stored, rows, startups, applied, link, uploads, crashes>>

PublishArchive(j) ==
  /\ jobs[j].step = "archive" /\ Link(jobs[j].digest, {"directory", "archive"}) /\ Go(j, "syncArchive")
  /\ UNCHANGED <<running, rows, startups, applied, link, uploads, crashes>>

SyncArchive(j) ==
  /\ jobs[j].step = "syncArchive" /\ SyncDirectory(jobs[j].digest, {"archive", "binary"}) /\ Go(j, "binary")
  /\ UNCHANGED <<running, rows, startups, applied, link, uploads, crashes>>

PublishBinary(j) ==
  /\ jobs[j].step = "binary" /\ Link(jobs[j].digest, {"binary"}) /\ Go(j, "syncBinary")
  /\ UNCHANGED <<running, rows, startups, applied, link, uploads, crashes>>

\* Mutant: the directory that holds the digests is not synced.
SyncLeafOnly(j) ==
  /\ jobs[j].step = "syncBinary" /\ SyncDirectory(jobs[j].digest, {"archive", "binary"}) /\ Go(j, "inspect")
  /\ UNCHANGED <<running, rows, startups, applied, link, uploads, crashes>>

\* The directory, its parent and the root.
SyncBinary(j) ==
  /\ jobs[j].step = "syncBinary" /\ SyncDirectory(jobs[j].digest, Entries) /\ Go(j, "inspect")
  /\ UNCHANGED <<running, rows, startups, applied, link, uploads, crashes>>

\* A binary that another job has published is verified where it is.
Inspect(j) ==
  /\ jobs[j].step = "inspect" /\ Present(jobs[j].digest, "binary") /\ Go(j, "persist")
  /\ UNCHANGED <<running, stored, rows, startups, applied, link, uploads, crashes>>

\* UpsertCoreArtifact inserts an identity once; an official asset that came with
\* other bytes before is refused by the index over its source.
Persist(j) ==
  LET core == Core(jobs[j].source, jobs[j].digest)
  IN /\ jobs[j].step = "persist"
     /\ core.source \in Assets => \A other \in rows : other.source = core.source => other = core
     /\ rows' = rows \cup {core}
     /\ jobs' = [jobs EXCEPT ![j] = Idle] /\ uploads' = uploads \ {j}
     /\ UNCHANGED <<running, stored, startups, applied, link, crashes>>

\* A step fails or the request is cancelled: the stage and the upload are removed,
\* what was published stays, and an upload that cannot be removed stays too.
Fail(j) ==
  /\ running /\ jobs[j] # Idle /\ jobs' = [jobs EXCEPT ![j] = Idle]
  /\ uploads' \in {uploads, uploads \ {j}}
  /\ UNCHANGED <<running, stored, rows, startups, applied, link, crashes>>

-----------------------------------------------------------------------------
(* The use of a core *)

\* RemoveCoreArtifact: eligible without startup artifacts and active bundles. The
\* published files stay.
RemoveCoreArtifact(core) ==
  /\ running /\ core \in rows /\ core \notin startups /\ core # applied
  /\ rows' = rows \ {core}
  /\ UNCHANGED <<running, stored, startups, applied, link, jobs, uploads, crashes>>

\* insertStartupArtifactTx, in a transaction with the look at its core.
CreateStartupArtifact(core) ==
  /\ running /\ core \in rows /\ startups' = startups \cup {core}
  /\ UNCHANGED <<running, stored, rows, applied, link, jobs, uploads, crashes>>

\* An intent of the runtime commits a bundle or disables the core ...
Apply(core) ==
  /\ running /\ core \in startups \cup {NoCore} /\ applied' = core
  /\ UNCHANGED <<running, stored, rows, startups, link, jobs, uploads, crashes>>

\* ... and SyncEnabledCoreLink follows; SetCurrent refuses a missing binary.
SyncEnabledCoreLink ==
  /\ running /\ (applied # NoCore => Present(applied.digest, "binary")) /\ link' = applied.digest
  /\ UNCHANGED <<running, stored, rows, startups, applied, jobs, uploads, crashes>>

-----------------------------------------------------------------------------
\* What a power failure may leave of a directory: without its own entry nothing.
Survives(before, after) ==
  \/ \A e \in Entries : after[e] = "absent" /\ before["directory"] # "durable"
  \/ /\ after["directory"] = (IF before["directory"] = "absent" THEN "absent" ELSE "durable")
     /\ \A e \in {"archive", "binary"} :
          \/ after[e] = "durable" /\ before[e] # "absent"
          \/ after[e] = "absent" /\ before[e] # "durable"
Crash ==
  /\ running /\ crashes < MaxCrashes /\ crashes' = crashes + 1 /\ running' = FALSE
  /\ jobs' = [j \in Jobs |-> Idle]
  /\ \E left \in [Digests -> [Entries -> Levels]] :
       /\ \A d \in Digests : Survives(stored[d], left[d])
       /\ stored' = left
  /\ UNCHANGED <<rows, startups, applied, link, uploads>>

\* The server starts: GarbageCollectCoreUploads, which may skip a file, then the link.
Boot ==
  /\ ~running /\ running' = TRUE /\ uploads' \in SUBSET uploads
  /\ applied # NoCore => Present(applied.digest, "binary")
  /\ link' = applied.digest
  /\ UNCHANGED <<stored, rows, startups, applied, jobs, crashes>>

InstallStep(j) ==
  \/ StageUpload(j) \/ Receive(j) \/ Verify(j) \/ PublishArchive(j) \/ SyncArchive(j) \/ PublishBinary(j)
  \/ SyncBinary(j) \/ Inspect(j) \/ Persist(j) \/ Fail(j)

Next ==
  \/ \E j \in Jobs : \/ InstallStep(j)
                     \/ \E asset \in Assets : Install(j, asset)
                     \/ \E source \in UserSources : Import(j, source)
  \/ \E core \in Cores : RemoveCoreArtifact(core) \/ CreateStartupArtifact(core)
  \/ \E core \in Cores \cup {NoCore} : Apply(core)
  \/ SyncEnabledCoreLink \/ Crash \/ Boot

Spec == Init /\ [][Next]_coreVars

-----------------------------------------------------------------------------
\* Every core that the database offers, a startup artifact needs or the panel
\* applies is verified and installed with its archive, also after a power
\* failure at any step of a job and with jobs that publish the same archive; and
\* a durable executable never stands without its archive.
CoresAreInstalled ==
  /\ startups \subseteq rows /\ applied \in rows \cup {NoCore}
  /\ \A core \in rows : core.digest \in Sound /\ \A e \in Entries : Present(core.digest, e)
  /\ \A d \in Digests : stored[d]["binary"] = "durable" => stored[d]["archive"] = "durable"
=============================================================================
