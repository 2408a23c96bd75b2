------------------------------ MODULE DataMove ------------------------------
(***************************************************************************)
(* Where a panel keeps its data and how it moves there:                    *)
(* internal/installation/data_move*.go, settings/data_location.go,         *)
(* store/data_move.go, panelprocess/lease*.go and the start of the server. *)
(*                                                                         *)
(* An edit of data_dir asks for a move; the next start performs it under   *)
(* the lock of the settings file, before it opens the database. A record   *)
(* beside the settings says where the data is and how far a move has come, *)
(* a marker in each directory keeps everybody else out of it. The process  *)
(* may end after any step, by a crash or because a step fails.             *)
(***************************************************************************)
EXTENDS Integers, FiniteSets

CONSTANTS
  Dirs, NoDir,       \* physical directories
  Starters,          \* processes that start the panel
  NoStarter,
  MaxWrites,         \* bound: versions of an item of data
  MaxMoves,          \* bound: moves begun, which are numbered
  MaxDirEdits        \* bound: edits of data_dir

VARIABLES
  configured,        \* data_dir in the settings
  location,          \* the record, with its move if one is pending
  disk,              \* the directories
  latest,            \* history: per item the version written last
  moving,            \* holder of the lock of the settings file
  at,                \* per starter: its step and the directory it works for
  core,              \* the directory in which a managed core lives
  moves, dirEdits    \* counters of the bounds

moveVars == <<configured, location, disk, latest, moving, at, core, moves, dirEdits>>

Items == {"db", "artifact"}     \* panel.db; everything else that is copied
Damaged == MaxWrites + 1        \* content that nobody wrote; 0 is absent
NoMove == [id |-> 0, target |-> NoDir, ready |-> FALSE]
NoMarker == [id |-> 0, target |-> NoDir]   \* dataMoveOwner; its id names its source too
NoRecord == [dir |-> NoDir, established |-> FALSE, move |-> NoMove]
Absent == [exists |-> FALSE, marker |-> NoMarker, items |-> [i \in Items |-> 0], moved |-> {}]
Away == [step |-> "away", dir |-> NoDir]
Steps == {"away", "locked", "settled", "leased", "opened", "serving",
          "claim", "mark", "copy", "snapshot", "rebase", "verify",
          "remove", "unmark", "rmdir", "restore", "record", "release"}

TypeOK ==
  /\ configured \in Dirs /\ moving \in Starters \cup {NoStarter} /\ core \in Dirs \cup {NoDir}
  /\ location \in [dir : Dirs \cup {NoDir}, established : BOOLEAN,
                   move : [id : 0 .. MaxMoves, target : Dirs \cup {NoDir}, ready : BOOLEAN]]
  /\ \A d \in Dirs : /\ disk[d].marker \in [id : 0 .. MaxMoves, target : Dirs \cup {NoDir}] /\ disk[d].moved \subseteq 1 .. MaxMoves
                     /\ \A i \in Items : disk[d].items[i] \in 0 .. Damaged
                     /\ ~disk[d].exists => disk[d] = Absent
  /\ latest \in [Items -> 0 .. MaxWrites]
  /\ at \in [Starters -> [step : Steps, dir : Dirs \cup {NoDir}]]
  /\ \A p \in Starters : at[p].step \notin {"away", "settled", "leased", "opened", "serving"} <=> moving = p

Init ==
  /\ configured \in Dirs /\ location = NoRecord /\ disk = [d \in Dirs |-> Absent]
  /\ latest = [i \in Items |-> 0] /\ moving = NoStarter /\ at = [p \in Starters |-> Away]
  /\ core = NoDir /\ moves = 0 /\ dirEdits = 0

-----------------------------------------------------------------------------
(* Helpers *)

Go(p, step) == at' = [at EXCEPT ![p].step = step]
Leave(p) == at' = [at EXCEPT ![p] = Away] /\ moving' = IF moving = p THEN NoStarter ELSE moving
Empty(d) == disk[d] = Absent \/ disk[d] = [Absent EXCEPT !.exists = TRUE]

\* AcquireLease: a panel that runs there or is about to, or the move.
Leased(d) == \E p \in Starters : at[p].step \in {"leased", "opened", "serving"} /\ at[p].dir = d

Source == location.dir
Target == location.move.target
ID == location.move.id
Owner == [id |-> ID, target |-> Target]
HeldByMove(d) ==
  \E q \in Starters : /\ moving = q /\ at[q].step # "locked"
                      /\ d = Target \/ (d = Source /\ (~location.move.ready \/ at[q].step # "claim"))

\* store.Open: a marker keeps everybody but the move out.
MayOpen(d) == disk[d].marker = NoMarker

\* VerifyDataMove: this move's row is there and quick_check finds no damage.
VerifyDatabase(d, id) == id \in disk[d].moved /\ disk[d].items["db"] # Damaged

\* verifyDataMoveFiles: every remaining entry of the source is the same in the target.
VerifyFiles(source, target) ==
  disk[source].items["artifact"] \in {0, disk[target].items["artifact"]}

-----------------------------------------------------------------------------
(* A start, up to its decision what to do about the location *)

\* settings.Lock of PrepareDataLocation.
Start(p) ==
  /\ at[p] = Away /\ moving = NoStarter
  /\ moving' = p /\ at' = [at EXCEPT ![p] = [step |-> "locked", dir |-> configured]]
  /\ UNCHANGED <<configured, location, disk, latest, core, moves, dirEdits>>

\* The lock is released with the settled directory.
Settle(p, step) == at' = [at EXCEPT ![p] = [step |-> "settled", dir |-> configured]] /\ moving' = NoStarter

\* No record yet: RememberDataLocation.
Remember(p) ==
  /\ at[p].step = "locked" /\ location = NoRecord
  /\ disk[configured].marker = NoMarker
  /\ location' = [dir |-> configured, established |-> disk[configured].items["db"] # 0, move |-> NoMove]
  /\ Settle(p, "settled")
  /\ UNCHANGED <<configured, disk, latest, core, moves, dirEdits>>

\* The record and the settings agree; a marker may have outlived its move.
Agree(p) ==
  /\ at[p].step = "locked" /\ location.move = NoMove /\ Source = configured
  /\ disk[configured].marker = NoMarker \/ disk[configured].marker.target = configured
  /\ disk' = [disk EXCEPT ![configured].marker = NoMarker]
  /\ Settle(p, "settled")
  /\ UNCHANGED <<configured, location, latest, core, moves, dirEdits>>

\* Nothing has been stored at the recorded place: the record follows the settings.
Follow(p) ==
  /\ at[p].step = "locked" /\ location # NoRecord /\ location.move = NoMove /\ Source # configured
  /\ ~location.established /\ Empty(Source) /\ ~Leased(Source)
  /\ disk[Source].exists => Empty(configured)
  /\ location' = [NoRecord EXCEPT !.dir = configured]
  /\ Settle(p, "settled")
  /\ UNCHANGED <<configured, disk, latest, core, moves, dirEdits>>

\* The checks of migrateDataDirectory before anything is written: the source is
\* there, nobody runs on it, its marker is none but that of this move, its core
\* is gone; the destination of a new move is empty.
Movable(d, owner) ==
  /\ disk[d].exists /\ ~Leased(d) /\ disk[d].marker \in {NoMarker, owner} /\ disk[d].items["db"] # 0
  /\ core # d

\* A move that is recorded before anything else happens.
BeginMove(p) ==
  /\ at[p].step = "locked" /\ location.dir # NoDir /\ location.move = NoMove /\ Source # configured
  /\ ~(~location.established /\ Empty(Source)) /\ Movable(Source, NoMarker) /\ Empty(configured)
  /\ moves < MaxMoves /\ moves' = moves + 1
  /\ location' = [location EXCEPT !.move = [id |-> moves', target |-> configured, ready |-> FALSE]]
  /\ Go(p, "claim")
  /\ UNCHANGED <<configured, disk, latest, moving, core, dirEdits>>

\* A move that an earlier start has begun and that the settings still ask for.
ResumeMove(p) ==
  /\ at[p].step = "locked" /\ location.move # NoMove /\ Target = configured
  /\ location.move.ready \/ Movable(Source, Owner)
  /\ Go(p, "claim")
  /\ UNCHANGED <<configured, location, disk, latest, moving, core, moves, dirEdits>>

-----------------------------------------------------------------------------
(* The move *)

\* MkdirAll, claimDataMoveTarget and the lease of the destination.
Claim(p) ==
  /\ at[p].step = "claim" /\ ~Leased(Target)
  /\ disk[Target].marker = Owner \/ Empty(Target)
  /\ disk' = [disk EXCEPT ![Target].exists = TRUE, ![Target].marker = Owner]
  /\ Go(p, IF location.move.ready THEN "verify" ELSE "mark")
  /\ UNCHANGED <<configured, location, latest, moving, core, moves, dirEdits>>

MarkSource(p) ==
  /\ at[p].step = "mark" /\ disk' = [disk EXCEPT ![Source].marker = Owner] /\ Go(p, "copy")
  /\ UNCHANGED <<configured, location, latest, moving, core, moves, dirEdits>>

\* copyDataMoveTree clears what an earlier attempt has left, then copies.
Clear(p) ==
  /\ at[p].step = "copy"
  /\ disk' = [disk EXCEPT ![Target].items = [i \in Items |-> 0], ![Target].moved = {}]
  /\ Go(p, "snapshot")
  /\ UNCHANGED <<configured, location, latest, moving, core, moves, dirEdits>>

CopyTree(p) ==
  /\ at[p].step = "snapshot"
  /\ disk' = [disk EXCEPT ![Target].items["artifact"] = disk[Source].items["artifact"]]
  /\ Go(p, "rebase")
  /\ UNCHANGED <<configured, location, latest, moving, core, moves, dirEdits>>

\* SnapshotDataFile, a consistent copy, then RebaseDataPaths in it, which also
\* records the move: in between the database is there without its row.
SnapshotDatabase(p) ==
  /\ at[p].step = "rebase" /\ disk[Target].items["db"] = 0
  /\ disk' = [disk EXCEPT ![Target].items["db"] = disk[Source].items["db"],
                          ![Target].moved = disk[Source].moved]
  /\ UNCHANGED <<configured, location, latest, moving, at, core, moves, dirEdits>>

RebaseDatabase(p) ==
  /\ at[p].step = "rebase" /\ disk[Target].items["db"] # 0
  /\ disk' = [disk EXCEPT ![Target].moved = @ \cup {ID}] /\ Go(p, "verify")
  /\ UNCHANGED <<configured, location, latest, moving, core, moves, dirEdits>>

\* Mutant: a resumed move trusts what it verified when it became ready.
VerifyOnce(p) ==
  /\ at[p].step = "verify" /\ (location.move.ready \/ VerifyDatabase(Target, ID))
  /\ IF location.move.ready
       THEN /\ Go(p, IF disk[Source].exists THEN "remove" ELSE "record") /\ UNCHANGED location
       ELSE /\ VerifyFiles(Source, Target)
            /\ location' = [location EXCEPT !.move.ready = TRUE] /\ Go(p, "remove")
  /\ UNCHANGED <<configured, disk, latest, moving, core, moves, dirEdits>>

\* After the copy is verified and synced the record says so, before the first
\* removal. A move that was ready is verified again, with what is left to compare,
\* and only if the source still carries its marker.
Verify(p) ==
  /\ at[p].step = "verify" /\ VerifyDatabase(Target, ID)
  /\ IF location.move.ready
       THEN /\ disk[Source].exists => disk[Source].marker = Owner /\ ~Leased(Source) /\ VerifyFiles(Source, Target)
            /\ Go(p, IF disk[Source].exists THEN "remove" ELSE "record") /\ UNCHANGED location
       ELSE /\ VerifyFiles(Source, Target)
            /\ location' = [location EXCEPT !.move.ready = TRUE] /\ Go(p, "remove")
  /\ UNCHANGED <<configured, disk, latest, moving, core, moves, dirEdits>>

\* removeMovedSource: the entries in some order, the marker, the directory.
RemoveEntry(p, i) ==
  /\ at[p].step = "remove" /\ disk[Source].items[i] # 0
  /\ disk' = [disk EXCEPT ![Source].items[i] = 0, ![Source].moved = IF i = "db" THEN {} ELSE @]
  /\ UNCHANGED <<configured, location, latest, moving, at, core, moves, dirEdits>>

Unmark(p) ==
  /\ at[p].step = "remove" /\ \A i \in Items : disk[Source].items[i] = 0
  /\ disk[Source].marker # NoMarker
  /\ disk' = [disk EXCEPT ![Source].marker = NoMarker] /\ Go(p, "rmdir")
  /\ UNCHANGED <<configured, location, latest, moving, core, moves, dirEdits>>

\* A directory that may not be removed gets its marker back.
RemoveSource(p) ==
  /\ at[p].step = "rmdir"
  /\ \/ disk' = [disk EXCEPT ![Source] = Absent]
     \/ disk' = [disk EXCEPT ![Source].marker = Owner]
  /\ Go(p, "record")
  /\ UNCHANGED <<configured, location, latest, moving, core, moves, dirEdits>>

\* The record names the new place, then the marker of the destination goes.
Record(p) ==
  /\ at[p].step = "record"
  /\ location' = [dir |-> Target, established |-> TRUE, move |-> NoMove] /\ Go(p, "release")
  /\ UNCHANGED <<configured, disk, latest, moving, core, moves, dirEdits>>

Release(p) ==
  /\ at[p].step = "release"
  /\ disk' = [disk EXCEPT ![Source].marker = NoMarker] /\ Settle(p, "settled")
  /\ UNCHANGED <<configured, location, latest, core, moves, dirEdits>>

-----------------------------------------------------------------------------
(* The rest of the start, and the panel that serves *)

\* prepareDataDirectory and AcquireLease, with what PrepareDataLocation returned.
Lease(p) ==
  /\ at[p].step = "settled" /\ ~Leased(at[p].dir) /\ ~HeldByMove(at[p].dir)
  /\ disk' = [disk EXCEPT ![at[p].dir].exists = TRUE] /\ Go(p, "leased")
  /\ UNCHANGED <<configured, location, latest, moving, core, moves, dirEdits>>

\* store.Open creates a missing database.
Open(p) ==
  LET d == at[p].dir
  IN /\ at[p].step = "leased" /\ MayOpen(d) /\ Go(p, "opened")
     /\ disk' = [disk EXCEPT ![d].items["db"] = IF @ = 0 THEN 1 ELSE @]
     /\ latest' = [latest EXCEPT !["db"] = IF @ = 0 THEN 1 ELSE @]
     /\ UNCHANGED <<configured, location, moving, core, moves, dirEdits>>

\* Mutant: the record is not compared with the directory that was opened.
EstablishAnyway(p) ==
  /\ at[p].step = "opened" /\ moving = NoStarter /\ configured = at[p].dir
  /\ location' = [location EXCEPT !.established = TRUE] /\ Go(p, "serving")
  /\ UNCHANGED <<configured, disk, latest, moving, core, moves, dirEdits>>

\* EstablishDataLocation, and the settings are read once more.
Establish(p) ==
  /\ at[p].step = "opened" /\ moving = NoStarter
  /\ location.dir = at[p].dir /\ location.move = NoMove
  /\ location' = [location EXCEPT !.established = TRUE]
  /\ IF configured = at[p].dir THEN Go(p, "serving") ELSE at' = [at EXCEPT ![p] = Away]
  /\ UNCHANGED <<configured, disk, latest, moving, core, moves, dirEdits>>

Write(p, i) ==
  /\ at[p].step = "serving" /\ latest[i] < MaxWrites
  /\ latest' = [latest EXCEPT ![i] = @ + 1]
  /\ disk' = [disk EXCEPT ![at[p].dir].items[i] = latest'[i]]
  /\ UNCHANGED <<configured, location, moving, at, core, moves, dirEdits>>

\* The managed core lives on when its panel is killed.
StartCore(p) ==
  /\ at[p].step = "serving" /\ core = NoDir /\ core' = at[p].dir
  /\ UNCHANGED <<configured, location, disk, latest, moving, at, moves, dirEdits>>
CoreExits == core # NoDir /\ core' = NoDir
             /\ UNCHANGED <<configured, location, disk, latest, moving, at, moves, dirEdits>>

\* A refusal, an error or the end of the process: its locks are free.
Ends(p) ==
  /\ at[p] # Away /\ Leave(p)
  /\ UNCHANGED <<configured, location, disk, latest, core, moves, dirEdits>>

EditDataDir(d) ==
  /\ d # configured /\ dirEdits < MaxDirEdits /\ dirEdits' = dirEdits + 1 /\ configured' = d
  /\ UNCHANGED <<location, disk, latest, moving, at, core, moves>>

\* A copy of an interrupted move changes while nobody works on it; another good
\* one is left, or no software could help.
Damage(d, i) ==
  /\ moving = NoStarter /\ location.move # NoMove /\ disk[d].items[i] \notin {0, Damaged}
  /\ d = Target \/ location.move.ready
  /\ \E e \in Dirs \ {d} : disk[e].items[i] = latest[i]
  /\ disk' = [disk EXCEPT ![d].items[i] = Damaged]
  /\ UNCHANGED <<configured, location, latest, moving, at, core, moves, dirEdits>>

Migrate(p) ==
  \/ BeginMove(p) \/ ResumeMove(p) \/ Claim(p) \/ MarkSource(p) \/ Clear(p) \/ CopyTree(p)
  \/ SnapshotDatabase(p) \/ RebaseDatabase(p) \/ Verify(p) \/ (\E i \in Items : RemoveEntry(p, i))
  \/ Unmark(p) \/ RemoveSource(p) \/ Record(p) \/ Release(p)

PrepareDataLocation(p) == Start(p) \/ Remember(p) \/ Agree(p) \/ Follow(p) \/ Migrate(p)

Next ==
  \/ \E p \in Starters : \/ PrepareDataLocation(p) \/ Lease(p) \/ Open(p) \/ Establish(p) \/ StartCore(p) \/ Ends(p)
                         \/ \E i \in Items : Write(p, i)
  \/ CoreExits
  \/ \E d \in Dirs : EditDataDir(d) \/ \E i \in Items : Damage(d, i)

Spec == Init /\ [][Next]_moveVars

-----------------------------------------------------------------------------
(* Properties *)

\* Wherever a move is interrupted and however often it is resumed, also after
\* damage to one of the copies, what was written last is still on disk.
NothingIsLost ==
  \A i \in Items : latest[i] # 0 => \E d \in Dirs : disk[d].items[i] = latest[i]

\* A panel that serves has all of the data in its newest version: it never starts
\* on an old copy, on an unfinished one or on a new and empty directory, and the
\* data is not served from two places.
ServesTheData ==
  \A p \in Starters : at[p].step = "serving" =>
    /\ \A i \in Items : disk[at[p].dir].items[i] = latest[i]
    /\ \A q \in Starters : at[q].step = "serving" => q = p
=============================================================================
