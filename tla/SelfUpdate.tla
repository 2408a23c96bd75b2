----------------------------- MODULE SelfUpdate -----------------------------
(***************************************************************************)
(* "sing-box-panel update": internal/selfupdate, internal/release,         *)
(* cli/update.go.                                                          *)
(*                                                                         *)
(* A release has a tag and three files: the program, the checksums and a   *)
(* signature over tag and checksums. An updater resolves the latest        *)
(* release, verifies its checksums, hashes the executable, takes a lock    *)
(* beside it, checks that neither has changed, stages the program in the   *)
(* same directory, and renames it. Several updaters, an operator who       *)
(* installs executables by hand, and releases that are published,          *)
(* withdrawn or rebuilt interleave with these steps; power may fail.       *)
(***************************************************************************)
EXTENDS Integers, FiniteSets

CONSTANTS
  Updaters,          \* processes that run the command
  NoUpdater,
  MaxVersion,        \* releases are 1 .. MaxVersion in the order of SemVer
  Rebuilt,           \* releases whose files may be uploaded again
  Misbuilt,          \* builds <<version, build>> that are not this platform's panel
  MaxEdits,          \* bound on replacements by hand
  MaxOutages         \* bound on power failures

VARIABLES
  upstream,          \* the latest release, and which build each file comes from
  cached, durable,   \* the executable as processes see it, as a power failure leaves it
  lock,              \* holder of .<executable>.update.lock
  step, own, latest, \* per updater: progress, its version, the tag it resolved
  expected, seen,    \* the digest from the checksums, the hashed executable
  staged,            \* the temporary file
  blind,             \* updaters since whose last comparison an operator intervened
  edits, outages

updateVars == <<upstream, cached, durable, lock, step, own, latest, expected, seen, staged, blind, edits, outages>>
process == <<own, latest, expected, seen, staged>>
world == <<upstream, edits, outages>>

Versions == 1 .. MaxVersion
Files == {"program", "checksums", "signature"}

\* A program is identified by its digest; version 0 is not a release ("dev").
Image(version, build) == [version |-> version, build |-> build]
Dev == Image(0, 0)
Garbled == Image(0, 1)
Nothing == Image(0, 2)
Images == {Image(v, b) : v \in Versions, b \in 1 .. 2}

\* The executable: an image, whether all its data reached the disk.
Stored(image, synced) == [image |-> image, synced |-> synced]

Steps == {"idle", "resolve", "verify", "hash", "lock", "recheck", "confirm", "download",
          "stage", "compare", "install", "sync"}

TypeOK ==
  /\ upstream.latest \in 0 .. MaxVersion /\ upstream.files \in [Versions -> [Files -> 0 .. 2]]
  /\ {cached, durable} \subseteq [image : Images \cup {Dev, Garbled}, synced : BOOLEAN]
  /\ lock \in Updaters \cup {NoUpdater} /\ step \in [Updaters -> Steps]
  /\ own \in [Updaters -> 0 .. MaxVersion] /\ latest \in [Updaters -> 0 .. MaxVersion]
  /\ expected \in [Updaters -> Images \cup {Nothing}]
  /\ seen \in [Updaters -> Images \cup {Dev, Garbled, Nothing}]
  /\ staged \in [Updaters -> [image : Images \cup {Garbled, Nothing}, synced : BOOLEAN]]
  /\ blind \subseteq Updaters

Init ==
  /\ upstream = [latest |-> 1, files |-> [v \in Versions |-> [f \in Files |-> IF v = 1 THEN 1 ELSE 0]]]
  /\ cached \in {Stored(Image(1, 1), TRUE), Stored(Dev, TRUE)} /\ durable = cached
  /\ lock = NoUpdater /\ step = [p \in Updaters |-> "idle"]
  /\ own = [p \in Updaters |-> 0] /\ latest = [p \in Updaters |-> 0]
  /\ expected = [p \in Updaters |-> Nothing] /\ seen = [p \in Updaters |-> Nothing]
  /\ staged = [p \in Updaters |-> Stored(Nothing, FALSE)]
  /\ blind = {} /\ edits = 0 /\ outages = 0

-----------------------------------------------------------------------------
(* Releases *)

Published(v) == \E f \in Files : upstream.files[v][f] # 0

\* releasecontract.ValidateVersion
ValidateVersion(version) == version \in Versions

\* The checksums of a build, and Sign: over the tag together with them.
Checksums(v, b) == Image(v, b)
Sign(v, checksums) == <<v, checksums>>
\* releasecontract.Verify under the embedded key: only the maintainer signs.
Verify(tag, checksums, signature) ==
  /\ ValidateVersion(tag)
  /\ signature = Sign(tag, checksums)
\* parseChecksum: the one entry of this platform's program.
ParseChecksum(checksums) == checksums

\* findAsset, for the three files of a release.
FindAsset(v) == \A f \in Files : upstream.files[v][f] # 0

\* What a server on the way answers for a file: its current build, or that of
\* another release (a mixed-up cache).
Served(f) == {<<v, upstream.files[v][f]>> : v \in {w \in Versions : upstream.files[w][f] # 0}}

\* downloadBytes: the answers for a file of checksums or a signature.
DownloadChecksums == {Checksums(r[1], r[2]) : r \in Served("checksums")} \cup {Garbled}
DownloadSignature == {Sign(r[1], Checksums(r[1], r[2])) : r \in Served("signature")} \cup {<<0, Garbled>>}
\* downloadFile: a body may also be cut short; an error ends the update (Abandon).
DownloadFile == {Image(r[1], r[2]) : r \in Served("program")} \cup {Garbled}

-----------------------------------------------------------------------------
(* The steps of Update *)

Go(p, next) == step' = [step EXCEPT ![p] = next]
Reset(p) ==
  /\ own' = [own EXCEPT ![p] = 0] /\ latest' = [latest EXCEPT ![p] = 0]
  /\ expected' = [expected EXCEPT ![p] = Nothing] /\ seen' = [seen EXCEPT ![p] = Nothing]
  /\ staged' = [staged EXCEPT ![p] = Stored(Nothing, FALSE)] /\ blind' = blind \ {p}

\* The lock is released by Close, or by the kernel with its holder.
Close(p) == lock' = IF lock = p THEN NoUpdater ELSE lock

\* Update returns: the temporary file is removed, the lock released.
Return(p) == Go(p, "idle") /\ Reset(p) /\ Close(p)

\* newUpdateCommand: the command runs the executable that it will replace;
\* only a release can be updated.
Start(p) ==
  /\ step[p] = "idle" /\ ValidateVersion(cached.image.version)
  /\ own' = [own EXCEPT ![p] = cached.image.version] /\ Go(p, "resolve")
  /\ UNCHANGED <<world, cached, durable, lock, latest, expected, seen, staged, blind>>

\* latest, the comparison of versions and findAsset.
Resolve(p) ==
  /\ step[p] = "resolve" /\ ValidateVersion(upstream.latest)
  /\ IF own[p] < upstream.latest /\ FindAsset(upstream.latest)
       THEN /\ latest' = [latest EXCEPT ![p] = upstream.latest] /\ Go(p, "verify")
            /\ UNCHANGED <<lock, own, expected, seen, staged, blind>>
       ELSE Return(p)
  /\ UNCHANGED <<world, cached, durable>>

\* The checksums and their signature.
VerifyRelease(p) ==
  /\ step[p] = "verify"
  /\ \E checksums \in DownloadChecksums, signature \in DownloadSignature :
       IF Verify(latest[p], checksums, signature)
         THEN /\ expected' = [expected EXCEPT ![p] = ParseChecksum(checksums)] /\ Go(p, "hash")
              /\ UNCHANGED <<lock, own, latest, seen, staged, blind>>
         ELSE Return(p)
  /\ UNCHANGED <<world, cached, durable>>

\* executableTarget and executableDigest, before the lock.
Hash(p) ==
  /\ step[p] = "hash"
  /\ seen' = [seen EXCEPT ![p] = cached.image] /\ blind' = blind \ {p} /\ Go(p, "lock")
  /\ UNCHANGED <<world, cached, durable, lock, own, latest, expected, staged>>

\* Mutant: updates do not wait for each other.
AcquireNothing(p) ==
  /\ step[p] = "lock" /\ Go(p, "recheck")
  /\ UNCHANGED <<world, cached, durable, lock, process, blind>>

\* acquireUpdateLock polls; a cancelled wait is Abandon.
AcquireUpdateLock(p) ==
  /\ step[p] = "lock" /\ lock = NoUpdater
  /\ lock' = p /\ Go(p, "recheck")
  /\ UNCHANGED <<world, cached, durable, process, blind>>

\* requireExecutableDigest
RequireExecutableDigest(p, next) ==
  /\ IF cached.image = seen[p]
       THEN Go(p, next) /\ blind' = blind \ {p} /\ UNCHANGED <<lock, process>>
       ELSE Return(p)
  /\ UNCHANGED <<world, cached, durable>>

Recheck(p) == step[p] = "recheck" /\ RequireExecutableDigest(p, "confirm")

\* The release must still be the latest.
Confirm(p) ==
  /\ step[p] = "confirm" /\ ValidateVersion(upstream.latest)
  /\ IF upstream.latest = latest[p]
       THEN Go(p, "download") /\ UNCHANGED <<lock, process, blind>>
       ELSE Return(p)
  /\ UNCHANGED <<world, cached, durable>>

\* The program is received beside the executable and compared with the digest.
Download(p) ==
  /\ step[p] = "download"
  /\ \E image \in DownloadFile :
       IF image = expected[p]
         THEN /\ staged' = [staged EXCEPT ![p] = Stored(image, FALSE)] /\ Go(p, "stage")
              /\ UNCHANGED <<lock, own, latest, expected, seen, blind>>
         ELSE Return(p)
  /\ UNCHANGED <<world, cached, durable>>

\* validateStagedExecutable: the build information names this platform's panel.
ValidateStagedExecutable(image) == <<image.version, image.build>> \notin Misbuilt

\* Chmod, Sync, Close and the validation of the staged file.
Stage(p) ==
  /\ step[p] = "stage"
  /\ IF ValidateStagedExecutable(staged[p].image)
       THEN /\ staged' = [staged EXCEPT ![p].synced = TRUE] /\ Go(p, "compare")
            /\ UNCHANGED <<lock, own, latest, expected, seen, blind>>
       ELSE Return(p)
  /\ UNCHANGED <<world, cached, durable>>

Compare(p) == step[p] = "compare" /\ RequireExecutableDigest(p, "install")

\* os.Rename
Install(p) ==
  /\ step[p] = "install"
  /\ cached' = staged[p] /\ Go(p, "sync")
  /\ UNCHANGED <<world, durable, lock, process, blind>>

\* syncDirectory; its error is reported although the update is in place.
SyncDirectory(p) ==
  /\ step[p] = "sync"
  /\ durable' \in {durable, cached} /\ Return(p)
  /\ UNCHANGED <<world, cached>>

\* A request fails, the context is cancelled or the process dies: what
\* remains of the temporary file is never the executable.
Abandon(p) ==
  /\ step[p] # "idle" /\ Return(p)
  /\ UNCHANGED <<world, cached, durable>>

-----------------------------------------------------------------------------
(* The environment *)

\* The maintainer publishes the next release, withdraws the latest, or
\* deletes and uploads the files of a release once more, one by one.
Publish(v) ==
  /\ ~Published(v) /\ \A w \in 1 .. v - 1 : Published(w)
  /\ upstream' = [latest |-> v, files |-> [upstream.files EXCEPT ![v] = [f \in Files |-> 1]]]
Withdraw(v) == v < upstream.latest /\ Published(v) /\ upstream' = [upstream EXCEPT !.latest = v]
Upload(v, f) ==
  /\ v \in Rebuilt /\ Published(v) /\ upstream.files[v][f] < 2
  /\ upstream' = [upstream EXCEPT !.files[v][f] = IF @ = 1 THEN 0 ELSE 2]
Maintain ==
  /\ \E v \in Versions : Publish(v) \/ Withdraw(v) \/ \E f \in Files : Upload(v, f)
  /\ UNCHANGED <<cached, durable, lock, step, process, blind, edits, outages>>

\* An operator installs a release or a build of their own.
Replace(image) ==
  /\ edits < MaxEdits /\ edits' = edits + 1
  /\ cached' = Stored(image, TRUE) /\ durable' = cached'
  /\ blind' = {p \in Updaters : step[p] # "idle"}
  /\ UNCHANGED <<upstream, outages, lock, step, process>>

\* After a power failure a renamed entry may be the old one again, and data
\* that was not synced is lost.
PowerFailure ==
  /\ outages < MaxOutages /\ outages' = outages + 1
  /\ \E survivor \in {cached, durable} :
       /\ cached' = IF survivor.synced THEN survivor ELSE Stored(Garbled, TRUE)
       /\ durable' = cached'
  /\ step' = [p \in Updaters |-> "idle"] /\ lock' = NoUpdater /\ blind' = {}
  /\ own' = [p \in Updaters |-> 0] /\ latest' = [p \in Updaters |-> 0]
  /\ expected' = [p \in Updaters |-> Nothing] /\ seen' = [p \in Updaters |-> Nothing]
  /\ staged' = [p \in Updaters |-> Stored(Nothing, FALSE)]
  /\ UNCHANGED <<upstream, edits>>

Next ==
  \/ \E p \in Updaters :
       \/ Start(p) \/ Resolve(p) \/ VerifyRelease(p) \/ Hash(p) \/ AcquireUpdateLock(p) \/ Recheck(p)
       \/ Confirm(p) \/ Download(p) \/ Stage(p) \/ Compare(p) \/ Install(p) \/ SyncDirectory(p) \/ Abandon(p)
  \/ Maintain
  \/ \E image \in {Dev} \cup {i \in Images : upstream.files[i.version]["program"] = i.build} : Replace(image)
  \/ PowerFailure

Spec == Init /\ [][Next]_updateVars

-----------------------------------------------------------------------------
(* Properties *)

\* Whatever interleaves with an update, the executable it puts in place is a
\* whole build that was signed for a release newer than the program that was
\* run, and the one it replaces is the one it compared: an update of another
\* process is never undone, and an operator's executable only if it came
\* after the last comparison (Update: lock, digests and signature).
UpdatesReplaceWhatTheySaw ==
  [][ \A p \in Updaters : step[p] = "install" /\ step'[p] = "sync" =>
        /\ cached'.synced /\ cached'.image \in Images
        /\ <<cached'.image.version, cached'.image.build>> \notin Misbuilt
        /\ cached'.image.version > own[p]
        /\ p \in blind \/ cached.image = seen[p] ]_updateVars
=============================================================================
