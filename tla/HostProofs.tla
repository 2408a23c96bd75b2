----------------------------- MODULE HostProofs -----------------------------
(***************************************************************************)
(* Proofs about what the panel does on its host: that a move of its data   *)
(* loses nothing and that a panel never serves an old or unfinished copy,  *)
(* that what the database calls an installed core is on disk, that an      *)
(* update installs a newer signed build in place of the one it compared,   *)
(* that the service is never left without the account it runs as, and that *)
(* a refreshed catalog is what upstream showed.                            *)
(*                                                                         *)
(* Each part has its own inductive invariant over the variables that it    *)
(* has in MCHost, and MCHost behaves as the part or leaves it alone.       *)
(***************************************************************************)
EXTENDS MCHost, Sequences, FiniteSetTheorems, TLAPS

-----------------------------------------------------------------------------
(* The move of the data directory. What is on disk depends on how far the  *)
(* record says the move has come: the source has everything until the copy *)
(* is verified, from then on the copy has, or what is damaged in it is     *)
(* still elsewhere. MoverInv says of each step of the process that holds   *)
(* the lock what it has done already and whom the leases keep out, and     *)
(* LeaseInv that nobody serves from a place that the record does not name. *)

Holders == {"leased", "opened", "serving"}
Marker == [id : 0 .. MaxMoves, target : Dirs \cup {NoDir}]
Dir == [exists : BOOLEAN, marker : Marker, items : [Move!Items -> 0 .. Move!Damaged],
        moved : SUBSET (1 .. MaxMoves)]
Location == [dir : Dirs \cup {NoDir}, established : BOOLEAN,
             move : [id : 0 .. MaxMoves, target : Dirs \cup {NoDir}, ready : BOOLEAN]]
Positions == [Starters -> [step : Move!Steps, dir : Dirs \cup {NoDir}]]

Holds(d) == \A i \in Move!Items : disk[d].items[i] = written[i]
Pending == location.move # Move!NoMove

StateTypes ==
  /\ configured \in Dirs /\ moving \in Starters \cup {NoStarter} /\ survivor \in Dirs \cup {NoDir}
  /\ moves \in Nat
  /\ location \in Location /\ written \in [Move!Items -> 0 .. MaxWrites] /\ at \in Positions
  /\ \A p \in Starters : at[p].step \notin Holders \cup {"away", "settled"} <=> moving = p

DiskTypes == disk \in [Dirs -> Dir] /\ \A d \in Dirs : ~disk[d].exists => disk[d] = Move!Absent

\* The record names a directory once anybody got past it, and a pending move
\* another one.
RecordInv ==
  /\ location.dir = NoDir =>
       /\ location = Move!NoRecord /\ \A p \in Starters : at[p].step \in {"away", "locked"}
       /\ \A d \in Dirs : disk[d] = Move!Absent
  /\ Pending => Move!Source \in Dirs /\ Move!Target \in Dirs /\ Move!Target # Move!Source /\ Move!ID # 0
  /\ location.established => Move!Source \in Dirs

\* A directory is leased to one, and exists; whoever serves does so where the
\* record says.
LeaseInv ==
  /\ \A p \in Starters : at[p].step \in Holders \cup {"settled"} => at[p].dir \in Dirs
  /\ \A p \in Starters : at[p].step \in Holders => disk[at[p].dir].exists
  /\ \A p, q \in Starters : at[p].step \in Holders /\ at[q].step \in Holders /\ at[p].dir = at[q].dir => p = q
  /\ \A p \in Starters : at[p].step \in {"opened", "serving"} => disk[at[p].dir].items["db"] # 0
  /\ \A p \in Starters : at[p].step = "serving" => location.established /\ ~Pending /\ Move!Source = at[p].dir

Copying == {"mark", "copy", "snapshot", "rebase"}
Removing == {"remove", "rmdir", "record"}

\* What whoever moves the data has done and keeps others from, step by step.
MoverInv(p) ==
  LET step == at[p].step
  IN /\ step \in Copying \cup Removing \cup {"claim", "verify"} => Pending
     /\ step \in Copying => ~location.move.ready
     /\ step \in Removing => location.move.ready /\ ~Move!Leased(Move!Source) /\ Holds(Move!Target)
     /\ step \in Copying \cup Removing \cup {"verify"} => ~Move!Leased(Move!Target) /\ disk[Move!Target].exists
     /\ step \in Copying \cup {"claim", "verify"} /\ ~location.move.ready =>
          ~Move!Leased(Move!Source) /\ disk[Move!Source].exists
     /\ step \in {"remove", "rmdir"} => disk[Move!Source].exists
     /\ step \in {"rmdir", "record"} => disk[Move!Source].items["artifact"] = 0
     /\ step = "release" => location.established /\ ~Pending /\ ~Move!Leased(Move!Source)
     /\ step = "snapshot" => \A i \in Move!Items : disk[Move!Target].items[i] = 0
     /\ step = "rebase" => /\ disk[Move!Target].items["artifact"] = written["artifact"]
                           /\ disk[Move!Target].items["db"] \in {0, written["db"]}
     /\ step = "verify" /\ ~location.move.ready => Holds(Move!Target)
     /\ step \notin {"unmark", "restore"}
StepInv == \A p \in Starters : MoverInv(p)

\* Before anything is stored there is nothing but new databases.
NothingStored ==
  /\ written["artifact"] = 0 /\ written["db"] \in {0, 1}
  /\ \A d \in Dirs : disk[d].items["artifact"] = 0 /\ disk[d].items["db"] \in {0, written["db"]}
  /\ written["db"] = 1 => \E d \in Dirs : disk[d].items["db"] = 1

\* The copy of a move that is ready is complete; what of it is damaged is elsewhere.
CopyInv ==
  \A i \in Move!Items :
    /\ disk[Move!Target].items[i] \in {written[i], Move!Damaged}
    /\ disk[Move!Target].items[i] = Move!Damaged =>
         written[i] # 0 /\ \E d \in Dirs \ {Move!Target} : disk[d].items[i] = written[i]

\* Where the data is: at the recorded place until a copy is verified.
DataInv ==
  /\ ~location.established /\ ~Pending => NothingStored
  /\ location.established \/ Pending => written["db"] # 0
  /\ location.established /\ ~Pending => Holds(Move!Source)
  /\ Pending /\ ~location.move.ready => Holds(Move!Source)
  /\ Pending /\ location.move.ready => CopyInv
  /\ \A d \in Dirs \ {Move!Source, Move!Target} : disk[d].items["artifact"] = 0

MoveInv == StateTypes /\ DiskTypes /\ RecordInv /\ LeaseInv /\ StepInv /\ DataInv

-----------------------------------------------------------------------------
(* Changes of one directory *)

LEMMA SetMarker ==
  ASSUME NEW r \in Dir, NEW m \in Marker
  PROVE  /\ [r EXCEPT !.marker = m] \in Dir
         /\ [r EXCEPT !.marker = m].exists = r.exists /\ [r EXCEPT !.marker = m].items = r.items
BY DEF Dir

LEMMA SetItems ==
  ASSUME NEW r \in Dir, NEW t \in [Move!Items -> 0 .. Move!Damaged]
  PROVE  /\ [r EXCEPT !.items = t] \in Dir
         /\ [r EXCEPT !.items = t].exists = r.exists /\ [r EXCEPT !.items = t].items = t
BY DEF Dir

LEMMA SetItem ==
  ASSUME NEW r \in Dir, NEW i \in Move!Items, NEW v \in 0 .. Move!Damaged
  PROVE  /\ [r EXCEPT !.items[i] = v] \in Dir
         /\ [r EXCEPT !.items[i] = v].exists = r.exists
         /\ [r EXCEPT !.items[i] = v].items[i] = v
         /\ \A j \in Move!Items \ {i} : [r EXCEPT !.items[i] = v].items[j] = r.items[j]
<1>1. [r EXCEPT !.items[i] = v] = [r EXCEPT !.items = [r.items EXCEPT ![i] = v]]
  BY DEF Dir
<1>2. [r.items EXCEPT ![i] = v] \in [Move!Items -> 0 .. Move!Damaged]
  BY DEF Dir
<1>3. /\ [r.items EXCEPT ![i] = v][i] = v
      /\ \A j \in Move!Items \ {i} : [r.items EXCEPT ![i] = v][j] = r.items[j]
  BY DEF Dir
<1> QED
  BY <1>1, <1>2, <1>3, SetItems

LEMMA SetMoved ==
  ASSUME NEW r \in Dir, NEW s \in SUBSET (1 .. MaxMoves)
  PROVE  /\ [r EXCEPT !.moved = s] \in Dir
         /\ [r EXCEPT !.moved = s].exists = r.exists /\ [r EXCEPT !.moved = s].items = r.items
BY DEF Dir

LEMMA SetExists ==
  ASSUME NEW r \in Dir
  PROVE  /\ [r EXCEPT !.exists = TRUE] \in Dir
         /\ [r EXCEPT !.exists = TRUE].exists /\ [r EXCEPT !.exists = TRUE].items = r.items
BY DEF Dir

LEMMA DiskSet ==
  ASSUME DiskTypes, NEW X \in Dirs, NEW new \in Dir, new.exists \/ new = Move!Absent,
         disk' = [disk EXCEPT ![X] = new]
  PROVE  DiskTypes' /\ disk'[X] = new /\ \A d \in Dirs \ {X} : disk'[d] = disk[d]
BY DEF DiskTypes

LEMMA DiskKept ==
  ASSUME DiskTypes, UNCHANGED disk
  PROVE  DiskTypes'
BY DEF DiskTypes

-----------------------------------------------------------------------------
(* Steps of one starter *)

LEMMA GoEffect ==
  ASSUME at \in Positions, NEW p \in Starters, NEW s \in Move!Steps, Move!Go(p, s)
  PROVE  /\ at' \in Positions /\ at'[p].step = s /\ at'[p].dir = at[p].dir
         /\ \A q \in Starters \ {p} : at'[q] = at[q]
BY DEF Move!Go, Positions

\* Somebody who neither holds a lease nor gets one leaves the others theirs, as
\* long as their directories and the record stay.
LEMMA LeasesStay ==
  ASSUME LeaseInv, NEW p \in Starters, \A q \in Starters \ {p} : at'[q] = at[q],
         at'[p].step \notin Holders, at'[p].step = "settled" => at'[p].dir \in Dirs,
         \A q \in Starters \ {p} : at[q].step \in Holders =>
           /\ disk'[at[q].dir].exists
           /\ disk[at[q].dir].items["db"] # 0 => disk'[at[q].dir].items["db"] # 0,
         \A q \in Starters \ {p} : at[q].step = "serving" =>
           location'.established /\ location'.move = Move!NoMove /\ location'.dir = location.dir
  PROVE  LeaseInv'
BY DEF LeaseInv, Holders, Pending, Move!Source

\* At most one starter moves the data.
LEMMA OneMover ==
  ASSUME StateTypes', NEW p \in Starters, moving' \in {p, NoStarter}, NoStarter \notin Starters,
         moving' = p => MoverInv(p)'
  PROVE  StepInv'
<1> SUFFICES ASSUME NEW q \in Starters PROVE MoverInv(q)'
  BY DEF StepInv
<1>1. CASE moving' = q
  BY <1>1
<1>2. CASE moving' # q
  <2>1. at'[q].step \in Holders \cup {"away", "settled"}
    BY <1>2 DEF StateTypes
  <2> QED
    BY <2>1 DEF MoverInv, Holders, Copying, Removing
<1> QED
  BY <1>1, <1>2

LEMMA LeasedElsewhere ==
  ASSUME NEW d, ~Move!Leased(d)
  PROVE  \A q \in Starters : at[q].step \in Holders => at[q].dir # d
BY DEF Move!Leased, Holders

LEMMA SameLeases ==
  ASSUME NEW p \in Starters, \A q \in Starters \ {p} : at'[q] = at[q],
         at[p].step \notin Holders, at'[p].step \notin Holders
  PROVE  \A d : Move!Leased(d)' <=> Move!Leased(d)
BY DEF Move!Leased, Holders

LEMMA MarkerGoes ==
  ASSUME DiskTypes, NEW X \in Dirs, disk' = [disk EXCEPT ![X].marker = Move!NoMarker]
  PROVE  /\ DiskTypes'
         /\ \A d \in Dirs : disk'[d].exists = disk[d].exists /\ disk'[d].items = disk[d].items
<1> DEFINE new == [disk[X] EXCEPT !.marker = Move!NoMarker]
<1>1. disk[X] \in Dir /\ Move!NoMarker \in Marker
  BY HostAssumption DEF DiskTypes, Move!NoMarker, Marker
<1>2. disk' = [disk EXCEPT ![X] = new]
  BY DEF DiskTypes
<1>3. new \in Dir /\ new.exists = disk[X].exists /\ new.items = disk[X].items
  BY <1>1, SetMarker
<1>4. \A r \in Dir : r.marker = Move!NoMarker => [r EXCEPT !.marker = Move!NoMarker] = r
  BY DEF Dir
<1>5. new.exists \/ new = Move!Absent
  <2>1. disk[X] = Move!Absent => disk[X].marker = Move!NoMarker
    BY DEF Move!Absent
  <2> QED
    BY <1>1, <1>3, <1>4, <2>1 DEF DiskTypes
<1> HIDE DEF new
<1>6. DiskTypes' /\ disk'[X] = new /\ \A d \in Dirs \ {X} : disk'[d] = disk[d]
  BY <1>2, <1>3, <1>5, DiskSet
<1> QED
  BY <1>3, <1>6

-----------------------------------------------------------------------------
(* The start, up to the move *)

LEMMA StartKeeps ==
  ASSUME MoveInv, NEW p \in Starters, Move!Start(p)
  PROVE  MoveInv'
<1> USE HostAssumption DEF MoveInv, Move!Source, Move!Target, Move!ID, Pending
<1>1. /\ at[p].step = "away" /\ moving = NoStarter /\ moving' = p
      /\ UNCHANGED <<configured, location, disk, written, survivor, moves>>
  BY DEF Move!Start, Move!Away
<1>2. /\ at' \in Positions /\ at'[p].step = "locked" /\ \A q \in Starters \ {p} : at'[q] = at[q]
  BY DEF Move!Start, StateTypes, Positions, Move!Steps
<1>3. StateTypes'
  BY <1>1, <1>2 DEF StateTypes, Location, Holders, Move!NoMove, Move!NoRecord
<1>4. DiskTypes'
  BY <1>1, <1>2, DiskKept
<1>5. RecordInv'
  BY <1>1, <1>2 DEF RecordInv, StateTypes, Location, Move!NoMove, Move!NoRecord
<1>6. LeaseInv'
  BY <1>1, <1>2, LeasesStay DEF LeaseInv, Holders, StateTypes, RecordInv
<1>7. StepInv'
  BY <1>1, <1>2, <1>3, OneMover DEF MoverInv, Copying, Removing
<1>8. DataInv'
  BY <1>1, <1>2 DEF DataInv, RecordInv, Holds, NothingStored, CopyInv, Move!NoMove,
     Move!NoRecord, Move!Items, Location, StateTypes
<1> QED
  BY <1>3, <1>4, <1>5, <1>6, <1>7, <1>8

LEMMA RememberKeeps ==
  ASSUME MoveInv, NEW p \in Starters, Move!Remember(p)
  PROVE  MoveInv'
<1> USE HostAssumption DEF MoveInv, Move!Source, Move!Target, Move!ID, Pending
<1>1. /\ at[p].step = "locked" /\ location = Move!NoRecord /\ moving' = NoStarter
      /\ UNCHANGED <<configured, disk, written, survivor, moves>>
  BY DEF Move!Remember, Move!Settle
<1>2. /\ at' \in Positions /\ at'[p] = [step |-> "settled", dir |-> configured]
      /\ \A q \in Starters \ {p} : at'[q] = at[q]
  BY DEF Move!Remember, Move!Settle, StateTypes, Positions, Move!Steps
<1>3. \A d \in Dirs : disk[d] = Move!Absent
  BY <1>1 DEF RecordInv, Move!NoRecord
<1>4. disk[configured].items["db"] = 0
  BY <1>3 DEF StateTypes, Move!Absent, Move!Items
<1>5. /\ location' \in Location /\ location'.dir = configured /\ ~location'.established
      /\ location'.move = Move!NoMove
  <2>1. Move!NoMove \in [id : 0 .. MaxMoves, target : Dirs \cup {NoDir}, ready : BOOLEAN]
    BY DEF Move!NoMove
  <2> QED
    BY <1>4, <2>1 DEF Move!Remember, StateTypes, Location
<1>6. StateTypes'
  BY <1>1, <1>2, <1>3, <1>4, <1>5 DEF StateTypes, Location, Holders, Move!NoMove, Move!NoRecord
<1>7. DiskTypes'
  BY <1>1, <1>2, <1>3, <1>4, <1>5, DiskKept
<1>8. RecordInv'
  BY <1>1, <1>2, <1>3, <1>4, <1>5 DEF RecordInv, StateTypes, Location, Move!NoMove,
     Move!NoRecord
<1>9. LeaseInv'
  BY <1>1, <1>2, <1>3, <1>4, <1>5, LeasesStay DEF LeaseInv, Holders, StateTypes, RecordInv,
     Move!NoRecord
<1>10. StepInv'
  BY <1>1, <1>2, <1>3, <1>4, <1>5, <1>6, OneMover
<1>11. DataInv'
  BY <1>1, <1>2, <1>3, <1>4, <1>5 DEF DataInv, RecordInv, Holds, NothingStored, CopyInv,
     Move!NoMove, Move!NoRecord, Move!Items, Location, StateTypes
<1> QED
  BY <1>6, <1>7, <1>8, <1>9, <1>10, <1>11

LEMMA AgreeKeeps ==
  ASSUME MoveInv, NEW p \in Starters, Move!Agree(p)
  PROVE  MoveInv'
<1> USE HostAssumption DEF MoveInv, Move!Source, Move!Target, Move!ID, Pending
<1>1. /\ at[p].step = "locked" /\ location.move = Move!NoMove /\ location.dir = configured
      /\ moving' = NoStarter
      /\ UNCHANGED <<configured, location, written, survivor, moves>>
  BY DEF Move!Agree, Move!Settle
<1>2. /\ at' \in Positions /\ at'[p] = [step |-> "settled", dir |-> configured]
      /\ \A q \in Starters \ {p} : at'[q] = at[q]
  BY DEF Move!Agree, Move!Settle, StateTypes, Positions, Move!Steps
<1>3. /\ DiskTypes'
      /\ \A d \in Dirs : disk'[d].exists = disk[d].exists /\ disk'[d].items = disk[d].items
  BY <1>1, MarkerGoes DEF Move!Agree, StateTypes
<1>4. StateTypes'
  BY <1>1, <1>2, <1>3 DEF StateTypes, Location, Holders, Move!NoMove, Move!NoRecord
<1>5. RecordInv'
  BY <1>1, <1>2, <1>3 DEF RecordInv, StateTypes, Location, Move!NoMove, Move!NoRecord
<1>6. LeaseInv'
  BY <1>1, <1>2, <1>3, LeasesStay DEF LeaseInv, Holders, StateTypes, RecordInv
<1>7. StepInv'
  BY <1>1, <1>2, <1>3, <1>4, OneMover
<1>8. DataInv'
  BY <1>1, <1>2, <1>3 DEF DataInv, RecordInv, Holds, NothingStored, CopyInv, Move!NoMove,
     Move!NoRecord, Move!Items, Location, StateTypes
<1> QED
  BY <1>3, <1>4, <1>5, <1>6, <1>7, <1>8

LEMMA FollowKeeps ==
  ASSUME MoveInv, NEW p \in Starters, Move!Follow(p)
  PROVE  MoveInv'
<1> USE HostAssumption DEF MoveInv, Move!Source, Move!Target, Move!ID, Pending
<1>1. /\ at[p].step = "locked" /\ location # Move!NoRecord /\ location.move = Move!NoMove
      /\ ~location.established
      /\ moving' = NoStarter /\ UNCHANGED <<configured, disk, written, survivor, moves>>
  BY DEF Move!Follow, Move!Settle
<1>2. /\ at' \in Positions /\ at'[p] = [step |-> "settled", dir |-> configured]
      /\ \A q \in Starters \ {p} : at'[q] = at[q]
  BY DEF Move!Follow, Move!Settle, StateTypes, Positions, Move!Steps
<1>3. /\ location' \in Location /\ location'.dir = configured /\ ~location'.established
      /\ location'.move = Move!NoMove
  <2>1. Move!NoMove \in [id : 0 .. MaxMoves, target : Dirs \cup {NoDir}, ready : BOOLEAN]
    BY DEF Move!NoMove
  <2> QED
    BY <2>1 DEF Move!Follow, Move!NoRecord, StateTypes, Location
<1>4. StateTypes'
  BY <1>1, <1>2, <1>3 DEF StateTypes, Location, Holders, Move!NoMove, Move!NoRecord
<1>5. DiskTypes'
  BY <1>1, <1>2, <1>3, DiskKept
<1>6. RecordInv'
  BY <1>1, <1>2, <1>3 DEF RecordInv, StateTypes, Location, Move!NoMove, Move!NoRecord
<1>7. LeaseInv'
  BY <1>1, <1>2, <1>3, LeasesStay DEF LeaseInv, Holders, StateTypes, RecordInv
<1>8. StepInv'
  BY <1>1, <1>2, <1>3, <1>4, OneMover
<1>9. DataInv'
  BY <1>1, <1>2, <1>3 DEF DataInv, RecordInv, Holds, NothingStored, CopyInv, Move!NoMove,
     Move!NoRecord, Move!Items, Location, StateTypes
<1> QED
  BY <1>4, <1>5, <1>6, <1>7, <1>8, <1>9

LEMMA BeginMoveKeeps ==
  ASSUME MoveInv, NEW p \in Starters, Move!BeginMove(p)
  PROVE  MoveInv'
<1> USE HostAssumption DEF MoveInv, Move!Source, Move!Target, Move!ID, Pending
<1>1. /\ at[p].step = "locked" /\ moving = p /\ location.dir # NoDir
      /\ location.move = Move!NoMove /\ location.dir # configured
      /\ disk[location.dir].exists /\ ~Move!Leased(location.dir)
      /\ disk[location.dir].items["db"] # 0
      /\ moves < MaxMoves /\ moves' = moves + 1
      /\ UNCHANGED <<configured, disk, written, moving, survivor>>
  BY DEF Move!BeginMove, Move!Movable, StateTypes, Holders
<1>2. /\ location' \in Location /\ location'.dir = location.dir
      /\ location'.established = location.established
      /\ location'.move = [id |-> moves + 1, target |-> configured, ready |-> FALSE]
  <2> DEFINE new == [id |-> moves + 1, target |-> configured, ready |-> FALSE]
  <2>1. new \in [id : 0 .. MaxMoves, target : Dirs \cup {NoDir}, ready : BOOLEAN]
    BY <1>1 DEF StateTypes
  <2>2. location' = [location EXCEPT !.move = new]
    BY <1>1 DEF Move!BeginMove
  <2> HIDE DEF new
  <2>3. /\ location' \in Location /\ location'.dir = location.dir
        /\ location'.established = location.established
    BY <2>1, <2>2 DEF StateTypes, Location
  <2>4. location'.move = new
    BY <2>2 DEF StateTypes, Location
  <2> QED
    BY <2>3, <2>4 DEF new
<1>3. /\ at' \in Positions /\ at'[p].step = "claim" /\ at'[p].dir = at[p].dir
      /\ \A q \in Starters \ {p} : at'[q] = at[q]
  BY GoEffect DEF Move!BeginMove, StateTypes, Move!Steps
<1>4. \A d : Move!Leased(d)' <=> Move!Leased(d)
  BY <1>1, <1>3, SameLeases DEF Holders
<1>5. location.dir \in Dirs /\ moves + 1 # 0 /\ location'.move # Move!NoMove /\ configured \in Dirs
  BY <1>1, <1>2 DEF StateTypes, Location, Move!NoMove
<1>6. Holds(location.dir) /\ written["db"] # 0
  BY <1>1, <1>5 DEF DataInv, NothingStored, Holds, Move!Items
<1>7. \A q \in Starters : at[q].step # "serving"
  BY <1>1, LeasedElsewhere DEF LeaseInv, Holders
<1>8. StateTypes'
  BY <1>1, <1>2, <1>3, <1>4, <1>5, <1>6, <1>7 DEF StateTypes, Location, Holders, Move!NoMove,
     Move!NoRecord
<1>9. DiskTypes'
  BY <1>1, <1>2, <1>3, <1>4, <1>5, <1>6, <1>7, DiskKept
<1>10. RecordInv'
  BY <1>1, <1>2, <1>3, <1>4, <1>5, <1>6, <1>7 DEF RecordInv, StateTypes, Location, Move!NoMove,
     Move!NoRecord
<1>11. LeaseInv'
  BY <1>1, <1>2, <1>3, <1>4, <1>5, <1>6, <1>7, LeasesStay DEF LeaseInv, Holders, StateTypes,
     RecordInv
<1>12. StepInv'
  BY <1>1, <1>2, <1>3, <1>4, <1>5, <1>6, <1>7, <1>8, OneMover DEF MoverInv, Copying, Removing,
     StateTypes, Location
<1>13. DataInv'
  BY <1>1, <1>2, <1>3, <1>4, <1>5, <1>6, <1>7 DEF DataInv, RecordInv, Holds, NothingStored,
     CopyInv, Move!NoMove, Move!NoRecord, Move!Items, Location, StateTypes
<1> QED
  BY <1>8, <1>9, <1>10, <1>11, <1>12, <1>13

LEMMA ResumeMoveKeeps ==
  ASSUME MoveInv, NEW p \in Starters, Move!ResumeMove(p)
  PROVE  MoveInv'
<1> USE HostAssumption DEF MoveInv, Move!Source, Move!Target, Move!ID, Pending
<1>1. /\ at[p].step = "locked" /\ moving = p /\ location.move # Move!NoMove
      /\ location.move.ready \/ (disk[location.dir].exists /\ ~Move!Leased(location.dir))
      /\ UNCHANGED <<configured, location, disk, written, moving, survivor, moves>>
  BY DEF Move!ResumeMove, Move!Movable, StateTypes, Holders
<1>2. /\ at' \in Positions /\ at'[p].step = "claim" /\ at'[p].dir = at[p].dir
      /\ \A q \in Starters \ {p} : at'[q] = at[q]
  BY GoEffect DEF Move!ResumeMove, StateTypes, Move!Steps
<1>3. \A d : Move!Leased(d)' <=> Move!Leased(d)
  BY <1>1, <1>2, SameLeases DEF Holders
<1>4. StateTypes'
  BY <1>1, <1>2, <1>3 DEF StateTypes, Location, Holders, Move!NoMove, Move!NoRecord
<1>5. DiskTypes'
  BY <1>1, <1>2, <1>3, DiskKept
<1>6. RecordInv'
  BY <1>1, <1>2, <1>3 DEF RecordInv, StateTypes, Location, Move!NoMove, Move!NoRecord
<1>7. LeaseInv'
  BY <1>1, <1>2, <1>3, LeasesStay DEF LeaseInv, Holders, StateTypes, RecordInv
<1>8. StepInv'
  BY <1>1, <1>2, <1>3, <1>4, OneMover DEF MoverInv, Copying, Removing, StateTypes, Location
<1>9. DataInv'
  BY <1>1, <1>2, <1>3 DEF DataInv, RecordInv, Holds, NothingStored, CopyInv, Move!NoMove,
     Move!NoRecord, Move!Items, Location, StateTypes
<1> QED
  BY <1>4, <1>5, <1>6, <1>7, <1>8, <1>9

-----------------------------------------------------------------------------
(* The move *)

LEMMA ClaimKeeps ==
  ASSUME MoveInv, NEW p \in Starters, Move!Claim(p)
  PROVE  MoveInv'
<1> USE HostAssumption DEF MoveInv, Move!Source, Move!Target, Move!ID, Pending
<1>1. /\ at[p].step = "claim" /\ moving = p
      /\ UNCHANGED <<configured, location, written, moving, survivor, moves>>
  BY DEF Move!Claim, StateTypes, Holders
<1>2. PICK s \in {"verify", "mark"} : Move!Go(p, s) /\ (s = "verify" <=> location.move.ready)
  BY DEF Move!Claim
<1>3. /\ at' \in Positions /\ at'[p].step = s /\ at'[p].dir = at[p].dir
      /\ \A q \in Starters \ {p} : at'[q] = at[q]
  BY <1>2, GoEffect DEF StateTypes, Move!Steps
<1>4. /\ location.dir \in Dirs /\ location.move.target \in Dirs
      /\ location.move.target # location.dir /\ location.move # Move!NoMove
  BY <1>1 DEF StepInv, MoverInv, RecordInv, Copying, Removing
<1>5. \A d : Move!Leased(d)' <=> Move!Leased(d)
  BY <1>1, <1>2, <1>3, SameLeases DEF Holders
<1>6. ~Move!Leased(location.move.target)
  BY DEF Move!Claim
<1>7. Move!Owner \in Marker
  BY <1>4 DEF Move!Owner, Marker, StateTypes, Location
<1>8. /\ DiskTypes' /\ \A d \in Dirs \ {location.move.target} : disk'[d] = disk[d]
      /\ disk'[location.move.target].exists
      /\ disk'[location.move.target].items = disk[location.move.target].items
  <2> DEFINE new == [[disk[location.move.target] EXCEPT !.exists = TRUE] EXCEPT !.marker = Move!Owner]
  <2>1. disk[location.move.target] \in Dir
    BY <1>4 DEF DiskTypes
  <2>2. disk' = [disk EXCEPT ![location.move.target] = new]
    BY <1>4 DEF Move!Claim, DiskTypes
  <2>3. new \in Dir /\ new.exists /\ new.items = disk[location.move.target].items
    BY <1>7, <2>1, SetExists, SetMarker
  <2> HIDE DEF new
  <2>4. /\ DiskTypes' /\ disk'[location.move.target] = new
        /\ \A d \in Dirs \ {location.move.target} : disk'[d] = disk[d]
    BY <1>4, <2>2, <2>3, DiskSet
  <2> QED
    BY <2>3, <2>4
<1>9. StateTypes'
  BY <1>1, <1>2, <1>3, <1>4, <1>5, <1>6, <1>7, <1>8 DEF StateTypes, Location, Holders,
     Move!NoMove, Move!NoRecord
<1>10. RecordInv'
  BY <1>1, <1>2, <1>3, <1>4, <1>5, <1>6, <1>7, <1>8 DEF RecordInv, StateTypes, Location,
     Move!NoMove, Move!NoRecord
<1>11. LeaseInv'
  BY <1>1, <1>2, <1>3, <1>4, <1>5, <1>6, <1>7, <1>8, LeasedElsewhere, LeasesStay DEF LeaseInv,
     Holders, DiskTypes
<1>12. StepInv'
  BY <1>1, <1>2, <1>3, <1>4, <1>5, <1>6, <1>7, <1>8, <1>9, OneMover DEF MoverInv, Copying,
     Removing, StepInv, StateTypes, Holders, Holds, RecordInv
<1>13. DataInv'
  BY <1>1, <1>2, <1>3, <1>4, <1>5, <1>6, <1>7, <1>8 DEF DataInv, RecordInv, Holds,
     NothingStored, CopyInv, Move!NoMove, Move!NoRecord, Move!Items, Location, StateTypes
<1> QED
  BY <1>8, <1>9, <1>10, <1>11, <1>12, <1>13

LEMMA MarkSourceKeeps ==
  ASSUME MoveInv, NEW p \in Starters, Move!MarkSource(p)
  PROVE  MoveInv'
<1> USE HostAssumption DEF MoveInv, Move!Source, Move!Target, Move!ID, Pending
<1>1. /\ at[p].step = "mark" /\ moving = p
      /\ UNCHANGED <<configured, location, written, moving, survivor, moves>>
  BY DEF Move!MarkSource, StateTypes, Holders
<1>2. /\ at' \in Positions /\ at'[p].step = "copy" /\ at'[p].dir = at[p].dir
      /\ \A q \in Starters \ {p} : at'[q] = at[q]
  BY <1>1, GoEffect DEF Move!MarkSource, StateTypes, Move!Steps
<1>3. /\ location.dir \in Dirs /\ location.move.target \in Dirs
      /\ location.move.target # location.dir /\ location.move # Move!NoMove
  BY <1>1 DEF StepInv, MoverInv, RecordInv, Copying, Removing
<1>4. \A d : Move!Leased(d)' <=> Move!Leased(d)
  BY <1>1, <1>2, SameLeases DEF Holders
<1>5. ~Move!Leased(location.dir)
  BY <1>1, <1>3 DEF StepInv, MoverInv, Copying, Removing
<1>6. Move!Owner \in Marker
  BY <1>3 DEF Move!Owner, Marker, StateTypes, Location
<1>7. ~location.move.ready
  BY <1>1 DEF StepInv, MoverInv, Copying
<1>8. /\ DiskTypes' /\ \A d \in Dirs \ {location.dir} : disk'[d] = disk[d]
      /\ disk'[location.dir].exists /\ disk'[location.dir].items = disk[location.dir].items
  <2> DEFINE new == [disk[location.dir] EXCEPT !.marker = Move!Owner]
  <2>1. disk[location.dir] \in Dir
    BY <1>3 DEF DiskTypes
  <2>2. disk' = [disk EXCEPT ![location.dir] = new]
    BY <1>3 DEF Move!MarkSource, DiskTypes
  <2>3. new \in Dir /\ new.exists = disk[location.dir].exists /\ new.items = disk[location.dir].items
    BY <1>6, <2>1, SetMarker
  <2>4. disk[location.dir].exists
    BY <1>1, <1>3 DEF StepInv, MoverInv, Copying, Removing
  <2> HIDE DEF new
  <2>5. /\ DiskTypes' /\ disk'[location.dir] = new
        /\ \A d \in Dirs \ {location.dir} : disk'[d] = disk[d]
    BY <1>3, <2>2, <2>3, <2>4, DiskSet
  <2> QED
    BY <2>3, <2>4, <2>5
<1>9. StateTypes'
  BY <1>1, <1>2, <1>3, <1>4, <1>5, <1>6, <1>7, <1>8 DEF StateTypes, Location, Holders,
     Move!NoMove, Move!NoRecord
<1>10. RecordInv'
  BY <1>1, <1>2, <1>3, <1>4, <1>5, <1>6, <1>7, <1>8 DEF RecordInv, StateTypes, Location,
     Move!NoMove, Move!NoRecord
<1>11. LeaseInv'
  BY <1>1, <1>2, <1>3, <1>4, <1>5, <1>6, <1>7, <1>8, LeasedElsewhere, LeasesStay DEF LeaseInv,
     Holders, DiskTypes
<1>12. StepInv'
  BY <1>1, <1>2, <1>3, <1>4, <1>5, <1>6, <1>7, <1>8, <1>9, OneMover DEF MoverInv, Copying,
     Removing, StepInv, StateTypes, Holders, Holds, RecordInv
<1>13. DataInv'
  BY <1>1, <1>2, <1>3, <1>4, <1>5, <1>6, <1>7, <1>8 DEF DataInv, RecordInv, Holds,
     NothingStored, CopyInv, Move!NoMove, Move!NoRecord, Move!Items, Location, StateTypes
<1> QED
  BY <1>8, <1>9, <1>10, <1>11, <1>12, <1>13

LEMMA ClearKeeps ==
  ASSUME MoveInv, NEW p \in Starters, Move!Clear(p)
  PROVE  MoveInv'
<1> USE HostAssumption DEF MoveInv, Move!Source, Move!Target, Move!ID, Pending
<1>1. /\ at[p].step = "copy" /\ moving = p
      /\ UNCHANGED <<configured, location, written, moving, survivor, moves>>
  BY DEF Move!Clear, StateTypes, Holders
<1>2. /\ at' \in Positions /\ at'[p].step = "snapshot" /\ at'[p].dir = at[p].dir
      /\ \A q \in Starters \ {p} : at'[q] = at[q]
  BY <1>1, GoEffect DEF Move!Clear, StateTypes, Move!Steps
<1>3. /\ location.dir \in Dirs /\ location.move.target \in Dirs
      /\ location.move.target # location.dir /\ location.move # Move!NoMove
  BY <1>1 DEF StepInv, MoverInv, RecordInv, Copying, Removing
<1>4. \A d : Move!Leased(d)' <=> Move!Leased(d)
  BY <1>1, <1>2, SameLeases DEF Holders
<1>5. ~Move!Leased(location.move.target)
  BY <1>1, <1>3 DEF StepInv, MoverInv, Copying, Removing
<1>6. [i \in Move!Items |-> 0] \in [Move!Items -> 0 .. Move!Damaged]
  BY DEF Move!Damaged
<1>7. ~location.move.ready
  BY <1>1 DEF StepInv, MoverInv, Copying
<1>8. /\ DiskTypes' /\ \A d \in Dirs \ {location.move.target} : disk'[d] = disk[d]
      /\ disk'[location.move.target].exists
      /\ \A i \in Move!Items : disk'[location.move.target].items[i] = 0
  <2> DEFINE new == [[disk[location.move.target] EXCEPT !.items = [i \in Move!Items |-> 0]] EXCEPT !.moved = {}]
  <2>1. disk[location.move.target] \in Dir
    BY <1>3 DEF DiskTypes
  <2>2. disk' = [disk EXCEPT ![location.move.target] = new]
    BY <1>3 DEF Move!Clear, DiskTypes
  <2>3. /\ new \in Dir /\ new.exists = disk[location.move.target].exists
        /\ new.items = [i \in Move!Items |-> 0]
    <3> DEFINE cleared == [disk[location.move.target] EXCEPT !.items = [i \in Move!Items |-> 0]]
    <3>1. /\ cleared \in Dir /\ cleared.exists = disk[location.move.target].exists
          /\ cleared.items = [i \in Move!Items |-> 0]
      BY <1>6, <2>1, SetItems
    <3> HIDE DEF cleared
    <3>2. {} \in SUBSET (1 .. MaxMoves)
      OBVIOUS
    <3>3. /\ [cleared EXCEPT !.moved = {}] \in Dir
          /\ [cleared EXCEPT !.moved = {}].exists = cleared.exists
          /\ [cleared EXCEPT !.moved = {}].items = cleared.items
      BY <3>1, <3>2, SetMoved
    <3> QED
      BY <3>1, <3>3 DEF cleared
  <2>4. disk[location.move.target].exists
    BY <1>1, <1>3 DEF StepInv, MoverInv, Copying, Removing
  <2> HIDE DEF new
  <2>5. /\ DiskTypes' /\ disk'[location.move.target] = new
        /\ \A d \in Dirs \ {location.move.target} : disk'[d] = disk[d]
    BY <1>3, <2>2, <2>3, <2>4, DiskSet
  <2> QED
    BY <2>3, <2>4, <2>5
<1>9. StateTypes'
  BY <1>1, <1>2, <1>3, <1>4, <1>5, <1>6, <1>7, <1>8 DEF StateTypes, Location, Holders,
     Move!NoMove, Move!NoRecord
<1>10. RecordInv'
  BY <1>1, <1>2, <1>3, <1>4, <1>5, <1>6, <1>7, <1>8 DEF RecordInv, StateTypes, Location,
     Move!NoMove, Move!NoRecord
<1>11. LeaseInv'
  BY <1>1, <1>2, <1>3, <1>4, <1>5, <1>6, <1>7, <1>8, LeasedElsewhere, LeasesStay DEF LeaseInv,
     Holders, DiskTypes
<1>12. StepInv'
  BY <1>1, <1>2, <1>3, <1>4, <1>5, <1>6, <1>7, <1>8, <1>9, OneMover DEF MoverInv, Copying,
     Removing, StepInv, StateTypes, Holders, Holds, RecordInv
<1>13. DataInv'
  BY <1>1, <1>2, <1>3, <1>4, <1>5, <1>6, <1>7, <1>8 DEF DataInv, RecordInv, Holds,
     NothingStored, CopyInv, Move!NoMove, Move!NoRecord, Move!Items, Location, StateTypes
<1> QED
  BY <1>8, <1>9, <1>10, <1>11, <1>12, <1>13

LEMMA CopyTreeKeeps ==
  ASSUME MoveInv, NEW p \in Starters, Move!CopyTree(p)
  PROVE  MoveInv'
<1> USE HostAssumption DEF MoveInv, Move!Source, Move!Target, Move!ID, Pending
<1>1. /\ at[p].step = "snapshot" /\ moving = p
      /\ UNCHANGED <<configured, location, written, moving, survivor, moves>>
  BY DEF Move!CopyTree, StateTypes, Holders
<1>2. /\ at' \in Positions /\ at'[p].step = "rebase" /\ at'[p].dir = at[p].dir
      /\ \A q \in Starters \ {p} : at'[q] = at[q]
  BY <1>1, GoEffect DEF Move!CopyTree, StateTypes, Move!Steps
<1>3. /\ location.dir \in Dirs /\ location.move.target \in Dirs
      /\ location.move.target # location.dir /\ location.move # Move!NoMove
  BY <1>1 DEF StepInv, MoverInv, RecordInv, Copying, Removing
<1>4. \A d : Move!Leased(d)' <=> Move!Leased(d)
  BY <1>1, <1>2, SameLeases DEF Holders
<1>5. ~Move!Leased(location.move.target)
  BY <1>1, <1>3 DEF StepInv, MoverInv, Copying, Removing
<1>6. disk[location.dir].items["artifact"] \in 0 .. Move!Damaged
  BY <1>3 DEF DiskTypes, Dir, Move!Items
<1>7. ~location.move.ready
  BY <1>1 DEF StepInv, MoverInv, Copying
<1>8. /\ DiskTypes' /\ \A d \in Dirs \ {location.move.target} : disk'[d] = disk[d]
      /\ disk'[location.move.target].exists
      /\ disk'[location.move.target].items["artifact"] = disk[location.dir].items["artifact"]
      /\ disk'[location.move.target].items["db"] = disk[location.move.target].items["db"]
  <2> DEFINE new == [disk[location.move.target] EXCEPT !.items["artifact"] = disk[location.dir].items["artifact"]]
  <2>1. disk[location.move.target] \in Dir
    BY <1>3 DEF DiskTypes
  <2>2. disk' = [disk EXCEPT ![location.move.target] = new]
    BY <1>3 DEF Move!CopyTree, DiskTypes
  <2>3. new \in Dir /\ new.exists = disk[location.move.target].exists
         /\ new.items["artifact"] = disk[location.dir].items["artifact"]
         /\ new.items["db"] = disk[location.move.target].items["db"]
    <3>1. "artifact" \in Move!Items /\ "db" \in Move!Items /\ "db" # "artifact"
      BY DEF Move!Items
    <3>2. PICK v \in 0 .. Move!Damaged : v = disk[location.dir].items["artifact"]
      BY <1>6, <3>1
    <3>3. PICK r \in Dir : r = disk[location.move.target]
      BY <2>1
    <3>4. new = [r EXCEPT !.items["artifact"] = v]
      BY <3>2, <3>3
    <3> HIDE DEF new
    <3> QED
      BY <3>1, <3>2, <3>3, <3>4, SetItem
  <2>4. disk[location.move.target].exists
    BY <1>1, <1>3 DEF StepInv, MoverInv, Copying, Removing
  <2> HIDE DEF new
  <2>5. /\ DiskTypes' /\ disk'[location.move.target] = new
        /\ \A d \in Dirs \ {location.move.target} : disk'[d] = disk[d]
    BY <1>3, <2>2, <2>3, <2>4, DiskSet
  <2> QED
    BY <2>3, <2>4, <2>5
<1>9. StateTypes'
  BY <1>1, <1>2, <1>3, <1>4, <1>5, <1>6, <1>7, <1>8 DEF StateTypes, Location, Holders,
     Move!NoMove, Move!NoRecord
<1>10. RecordInv'
  BY <1>1, <1>2, <1>3, <1>4, <1>5, <1>6, <1>7, <1>8 DEF RecordInv, StateTypes, Location,
     Move!NoMove, Move!NoRecord
<1>11. LeaseInv'
  BY <1>1, <1>2, <1>3, <1>4, <1>5, <1>6, <1>7, <1>8, LeasedElsewhere, LeasesStay, SMTT(20) DEF
     LeaseInv, Holders, DiskTypes
<1>12. StepInv'
  BY <1>1, <1>2, <1>3, <1>4, <1>5, <1>6, <1>7, <1>8, <1>9, OneMover DEF MoverInv, Copying,
     Removing, StepInv, StateTypes, Holders, Holds, RecordInv, DataInv, Move!Items
<1>13. DataInv'
  BY <1>1, <1>2, <1>3, <1>4, <1>5, <1>6, <1>7, <1>8 DEF DataInv, RecordInv, Holds,
     NothingStored, CopyInv, Move!NoMove, Move!NoRecord, Move!Items, Location, StateTypes
<1> QED
  BY <1>8, <1>9, <1>10, <1>11, <1>12, <1>13

LEMMA SnapshotDatabaseKeeps ==
  ASSUME MoveInv, NEW p \in Starters, Move!SnapshotDatabase(p)
  PROVE  MoveInv'
<1> USE HostAssumption DEF MoveInv, Move!Source, Move!Target, Move!ID, Pending
<1>1. /\ at[p].step = "rebase" /\ moving = p
      /\ UNCHANGED <<configured, location, written, moving, survivor, moves>>
  BY DEF Move!SnapshotDatabase, StateTypes, Holders
<1>2. /\ at' \in Positions /\ at'[p].step = at[p].step /\ \A q \in Starters \ {p} : at'[q] = at[q]
  BY <1>1 DEF Move!SnapshotDatabase, StateTypes
<1>3. /\ location.dir \in Dirs /\ location.move.target \in Dirs
      /\ location.move.target # location.dir /\ location.move # Move!NoMove
  BY <1>1 DEF StepInv, MoverInv, RecordInv, Copying, Removing
<1>4. \A d : Move!Leased(d)' <=> Move!Leased(d)
  BY <1>1, <1>2, SameLeases DEF Holders
<1>5. ~Move!Leased(location.move.target)
  BY <1>1, <1>3 DEF StepInv, MoverInv, Copying, Removing
<1>6. /\ disk[location.dir].items["db"] \in 0 .. Move!Damaged
      /\ disk[location.dir].moved \in SUBSET (1 .. MaxMoves)
  BY <1>3 DEF DiskTypes, Dir, Move!Items
<1>7. ~location.move.ready
  BY <1>1 DEF StepInv, MoverInv, Copying
<1>8. /\ DiskTypes' /\ \A d \in Dirs \ {location.move.target} : disk'[d] = disk[d]
      /\ disk'[location.move.target].exists
      /\ disk'[location.move.target].items["db"] = disk[location.dir].items["db"]
      /\ disk'[location.move.target].items["artifact"] = disk[location.move.target].items["artifact"]
  <2> DEFINE new == [[disk[location.move.target] EXCEPT !.items["db"] = disk[location.dir].items["db"]]
                    EXCEPT !.moved = disk[location.dir].moved]
  <2>1. disk[location.move.target] \in Dir
    BY <1>3 DEF DiskTypes
  <2>2. disk' = [disk EXCEPT ![location.move.target] = new]
    BY <1>3 DEF Move!SnapshotDatabase, DiskTypes
  <2>3. new \in Dir /\ new.exists = disk[location.move.target].exists
         /\ new.items["db"] = disk[location.dir].items["db"]
         /\ new.items["artifact"] = disk[location.move.target].items["artifact"]
    <3> DEFINE copied == [disk[location.move.target] EXCEPT !.items["db"] = disk[location.dir].items["db"]]
    <3>1. /\ copied \in Dir /\ copied.exists = disk[location.move.target].exists
          /\ copied.items["db"] = disk[location.dir].items["db"]
          /\ copied.items["artifact"] = disk[location.move.target].items["artifact"]
      BY <1>6, <2>1, SetItem DEF Move!Items
    <3> HIDE DEF copied
    <3>2. [copied EXCEPT !.moved = disk[location.dir].moved] \in Dir
          /\ [copied EXCEPT !.moved = disk[location.dir].moved].exists = copied.exists
          /\ [copied EXCEPT !.moved = disk[location.dir].moved].items = copied.items
      BY <1>6, <3>1, SetMoved
    <3> QED
      BY <3>1, <3>2 DEF copied
  <2>4. disk[location.move.target].exists
    BY <1>1, <1>3 DEF StepInv, MoverInv, Copying, Removing
  <2> HIDE DEF new
  <2>5. /\ DiskTypes' /\ disk'[location.move.target] = new
        /\ \A d \in Dirs \ {location.move.target} : disk'[d] = disk[d]
    BY <1>3, <2>2, <2>3, <2>4, DiskSet
  <2> QED
    BY <2>3, <2>4, <2>5
<1>9. StateTypes'
  BY <1>1, <1>2, <1>3, <1>4, <1>5, <1>6, <1>7, <1>8 DEF StateTypes, Location, Holders,
     Move!NoMove, Move!NoRecord
<1>10. RecordInv'
  BY <1>1, <1>2, <1>3, <1>4, <1>5, <1>6, <1>7, <1>8 DEF RecordInv, StateTypes, Location,
     Move!NoMove, Move!NoRecord
<1>11. LeaseInv'
  BY <1>1, <1>2, <1>3, <1>4, <1>5, <1>6, <1>7, <1>8, LeasedElsewhere, LeasesStay, SMTT(20) DEF
     LeaseInv, Holders, DiskTypes
<1>12. StepInv'
  <2>1. MoverInv(p)
    BY DEF StepInv
  <2>2. disk[location.dir].items["db"] = written["db"]
    BY <1>3, <1>7 DEF DataInv, Holds, Move!Items
  <2>3. disk'[location.dir] = disk[location.dir]
    BY <1>3, <1>8
  <2>4. MoverInv(p)'
    BY <1>1, <1>2, <1>3, <1>4, <1>7, <1>8, <2>1, <2>2, <2>3 DEF MoverInv, Copying, Removing
  <2> QED
    BY <1>1, <1>9, <2>4, OneMover
<1>13. DataInv'
  BY <1>1, <1>2, <1>3, <1>4, <1>5, <1>6, <1>7, <1>8 DEF DataInv, RecordInv, Holds,
     NothingStored, CopyInv, Move!NoMove, Move!NoRecord, Move!Items, Location, StateTypes
<1> QED
  BY <1>8, <1>9, <1>10, <1>11, <1>12, <1>13

LEMMA RebaseDatabaseKeeps ==
  ASSUME MoveInv, NEW p \in Starters, Move!RebaseDatabase(p)
  PROVE  MoveInv'
<1> USE HostAssumption DEF MoveInv, Move!Source, Move!Target, Move!ID, Pending
<1>1. /\ at[p].step = "rebase" /\ moving = p
      /\ UNCHANGED <<configured, location, written, moving, survivor, moves>>
  BY DEF Move!RebaseDatabase, StateTypes, Holders
<1>2. /\ at' \in Positions /\ at'[p].step = "verify" /\ at'[p].dir = at[p].dir
      /\ \A q \in Starters \ {p} : at'[q] = at[q]
  BY <1>1, GoEffect DEF Move!RebaseDatabase, StateTypes, Move!Steps
<1>3. /\ location.dir \in Dirs /\ location.move.target \in Dirs
      /\ location.move.target # location.dir /\ location.move # Move!NoMove
  BY <1>1 DEF StepInv, MoverInv, RecordInv, Copying, Removing
<1>4. \A d : Move!Leased(d)' <=> Move!Leased(d)
  BY <1>1, <1>2, SameLeases DEF Holders
<1>5. ~Move!Leased(location.move.target)
  BY <1>1, <1>3 DEF StepInv, MoverInv, Copying, Removing
<1>6. /\ disk[location.move.target].items["db"] # 0
      /\ disk[location.move.target].moved \cup {location.move.id} \in SUBSET (1 .. MaxMoves)
  BY <1>3 DEF Move!RebaseDatabase, DiskTypes, Dir, RecordInv, StateTypes, Location
<1>7. ~location.move.ready
  BY <1>1 DEF StepInv, MoverInv, Copying
<1>8. /\ DiskTypes' /\ \A d \in Dirs \ {location.move.target} : disk'[d] = disk[d]
      /\ disk'[location.move.target].exists
      /\ disk'[location.move.target].items = disk[location.move.target].items
  <2> DEFINE new == [disk[location.move.target] EXCEPT
                       !.moved = disk[location.move.target].moved \cup {location.move.id}]
  <2>1. disk[location.move.target] \in Dir
    BY <1>3 DEF DiskTypes
  <2>2. disk' = [disk EXCEPT ![location.move.target] = new]
    BY <1>3 DEF Move!RebaseDatabase, DiskTypes
  <2>3. /\ new \in Dir /\ new.exists = disk[location.move.target].exists
        /\ new.items = disk[location.move.target].items
    BY <1>6, <2>1, SetMoved
  <2>4. disk[location.move.target].exists
    BY <1>1, <1>3 DEF StepInv, MoverInv, Copying, Removing
  <2> HIDE DEF new
  <2>5. /\ DiskTypes' /\ disk'[location.move.target] = new
        /\ \A d \in Dirs \ {location.move.target} : disk'[d] = disk[d]
    BY <1>3, <2>2, <2>3, <2>4, DiskSet
  <2> QED
    BY <2>3, <2>4, <2>5
<1>9. StateTypes'
  BY <1>1, <1>2, <1>3, <1>4, <1>5, <1>6, <1>7, <1>8 DEF StateTypes, Location, Holders,
     Move!NoMove, Move!NoRecord
<1>10. RecordInv'
  BY <1>1, <1>2, <1>3, <1>4, <1>5, <1>6, <1>7, <1>8 DEF RecordInv, StateTypes, Location,
     Move!NoMove, Move!NoRecord
<1>11. LeaseInv'
  BY <1>1, <1>2, <1>3, <1>4, <1>5, <1>6, <1>7, <1>8, LeasedElsewhere, LeasesStay DEF LeaseInv,
     Holders, DiskTypes
<1>12. StepInv'
  BY <1>1, <1>2, <1>3, <1>4, <1>5, <1>6, <1>7, <1>8, <1>9, OneMover DEF MoverInv, Copying,
     Removing, StepInv, StateTypes, Holders, Holds, RecordInv, DataInv, Move!Items
<1>13. DataInv'
  BY <1>1, <1>2, <1>3, <1>4, <1>5, <1>6, <1>7, <1>8 DEF DataInv, RecordInv, Holds,
     NothingStored, CopyInv, Move!NoMove, Move!NoRecord, Move!Items, Location, StateTypes
<1> QED
  BY <1>8, <1>9, <1>10, <1>11, <1>12, <1>13

LEMMA VerifyKeeps ==
  ASSUME MoveInv, NEW p \in Starters, Move!Verify(p)
  PROVE  MoveInv'
<1> USE HostAssumption DEF MoveInv, Move!Source, Move!Target, Move!ID, Pending
<1>1. /\ at[p].step = "verify" /\ moving = p
      /\ UNCHANGED <<configured, disk, written, moving, survivor, moves>>
  BY DEF Move!Verify, StateTypes, Holders
<1>2. /\ location.dir \in Dirs /\ location.move.target \in Dirs
      /\ location.move.target # location.dir /\ location.move # Move!NoMove
  BY <1>1 DEF StepInv, MoverInv, RecordInv
<1>3. /\ location' \in Location /\ location'.dir = location.dir
      /\ location'.established = location.established
      /\ location'.move.id = location.move.id /\ location'.move.target = location.move.target
      /\ location'.move.ready /\ location'.move # Move!NoMove
  <2>1. CASE location.move.ready
    BY <1>2, <2>1 DEF Move!Verify, StateTypes
  <2>2. CASE ~location.move.ready
    <3> DEFINE new == [location.move EXCEPT !.ready = TRUE]
    <3>1. location.move \in [id : 0 .. MaxMoves, target : Dirs \cup {NoDir}, ready : BOOLEAN]
      BY DEF StateTypes, Location
    <3>2. /\ new \in [id : 0 .. MaxMoves, target : Dirs \cup {NoDir}, ready : BOOLEAN]
          /\ new.id = location.move.id /\ new.target = location.move.target /\ new.ready
          /\ new # Move!NoMove
      BY <3>1 DEF Move!NoMove
    <3>3. location' = [location EXCEPT !.move = new]
      BY <2>2 DEF Move!Verify, StateTypes, Location
    <3> HIDE DEF new
    <3> QED
      BY <3>2, <3>3 DEF StateTypes, Location
  <2> QED
    BY <2>1, <2>2
<1>4. PICK s \in {"remove", "record"} :
        /\ Move!Go(p, s) /\ (s = "record" => ~disk[location.dir].exists)
        /\ s = "remove" /\ location.move.ready => disk[location.dir].exists
  BY DEF Move!Verify
<1>5. /\ at' \in Positions /\ at'[p].step = s /\ at'[p].dir = at[p].dir
      /\ \A q \in Starters \ {p} : at'[q] = at[q]
  BY <1>4, GoEffect DEF StateTypes, Move!Steps
<1>6. \A d : Move!Leased(d)' <=> Move!Leased(d)
  BY <1>1, <1>4, <1>5, SameLeases DEF Holders
<1>7. Holds(location.move.target)
  <2>1. CASE ~location.move.ready
    BY <1>1, <2>1 DEF StepInv, MoverInv
  <2>2. CASE location.move.ready
    <3>1. /\ disk[location.move.target].items["db"] # Move!Damaged
          /\ disk[location.dir].exists =>
               disk[location.dir].items["artifact"] \in {0, disk[location.move.target].items["artifact"]}
      BY <2>2 DEF Move!Verify, Move!VerifyDatabase, Move!VerifyFiles
    <3>2. disk[location.move.target].items["db"] = written["db"]
      BY <1>2, <2>2, <3>1 DEF DataInv, CopyInv, Move!Items
    <3>3. ASSUME disk[location.move.target].items["artifact"] = Move!Damaged PROVE FALSE
      <4>1. PICK d \in Dirs \ {location.move.target} : disk[d].items["artifact"] = written["artifact"]
        BY <1>2, <2>2, <3>3 DEF DataInv, CopyInv, Move!Items
      <4>2. written["artifact"] \in 0 .. MaxWrites
        BY DEF StateTypes, Move!Items
      <4>3. written["artifact"] # Move!Damaged
        BY <4>2 DEF Move!Damaged
      <4>4. disk[d].items["artifact"] = 0
        BY <1>2, <3>1, <3>3, <4>1, <4>3 DEF DataInv, DiskTypes, Move!Absent, Move!Items
      <4>5. written["artifact"] # 0
        BY <1>2, <2>2, <3>3 DEF DataInv, CopyInv, Move!Items
      <4> QED
        BY <4>1, <4>4, <4>5
    <3> QED
      BY <1>2, <2>2, <3>2, <3>3 DEF DataInv, CopyInv, Move!Items, Holds
  <2> QED
    BY <2>1, <2>2
<1>8. /\ ~Move!Leased(location.dir) /\ (s = "remove" => disk[location.dir].exists)
      /\ (s = "record" => disk[location.dir].items["artifact"] = 0)
  <2>1. CASE ~location.move.ready
    BY <1>1, <1>4, <2>1 DEF Move!Verify, StepInv, MoverInv
  <2>2. CASE location.move.ready /\ disk[location.dir].exists
    BY <1>4, <2>2 DEF Move!Verify
  <2>3. CASE location.move.ready /\ ~disk[location.dir].exists
    <3>1. disk[location.dir] = Move!Absent
      BY <1>2, <2>3 DEF DiskTypes
    <3>2. ~Move!Leased(location.dir)
      BY <2>3 DEF Move!Leased, LeaseInv, Holders
    <3> QED
      BY <1>4, <2>3, <3>1, <3>2 DEF Move!Absent, Move!Items
  <2> QED
    BY <2>1, <2>2, <2>3
<1>9. StateTypes'
  BY <1>1, <1>2, <1>3, <1>4, <1>5, <1>6, <1>7, <1>8 DEF StateTypes, Location, Holders,
     Move!NoMove, Move!NoRecord
<1>10. DiskTypes'
  BY <1>1, <1>2, <1>3, <1>4, <1>5, <1>6, <1>7, <1>8, DiskKept
<1>11. RecordInv'
  BY <1>1, <1>2, <1>3, <1>4, <1>5, <1>6, <1>7, <1>8 DEF RecordInv, StateTypes, Location,
     Move!NoMove, Move!NoRecord
<1>12. LeaseInv'
  BY <1>1, <1>2, <1>3, <1>4, <1>5, <1>6, <1>7, <1>8, LeasesStay DEF LeaseInv, Holders
<1>13. StepInv'
  BY <1>1, <1>2, <1>3, <1>4, <1>5, <1>6, <1>7, <1>8, <1>9, OneMover DEF MoverInv, Copying,
     Removing, StepInv, Holds
<1>14. DataInv'
  <2>1. /\ written["db"] # 0
        /\ \A d \in Dirs \ {location.dir, location.move.target} : disk[d].items["artifact"] = 0
    BY <1>2 DEF DataInv
  <2>2. \A i \in Move!Items : written[i] \in 0 .. MaxWrites
    BY DEF StateTypes
  <2>3. CopyInv'
    BY <1>1, <1>3, <1>7, <2>2 DEF CopyInv, Holds, Move!Damaged
  <2> QED
    BY <1>1, <1>3, <2>1, <2>3 DEF DataInv
<1> QED
  BY <1>9, <1>10, <1>11, <1>12, <1>13, <1>14

LEMMA RemoveEntryKeeps ==
  ASSUME MoveInv, NEW p \in Starters, NEW i \in Move!Items, Move!RemoveEntry(p, i)
  PROVE  MoveInv'
<1> USE HostAssumption DEF MoveInv, Move!Source, Move!Target, Move!ID, Pending
<1>1. /\ at[p].step = "remove" /\ moving = p
      /\ UNCHANGED <<configured, location, written, moving, survivor, moves>>
  BY DEF Move!RemoveEntry, StateTypes, Holders
<1>2. /\ at' \in Positions /\ at'[p].step = at[p].step /\ \A q \in Starters \ {p} : at'[q] = at[q]
  BY <1>1 DEF Move!RemoveEntry, StateTypes
<1>3. /\ location.dir \in Dirs /\ location.move.target \in Dirs
      /\ location.move.target # location.dir /\ location.move # Move!NoMove
  BY <1>1 DEF StepInv, MoverInv, RecordInv, Copying, Removing
<1>4. \A d : Move!Leased(d)' <=> Move!Leased(d)
  BY <1>1, <1>2, SameLeases DEF Holders
<1>5. ~Move!Leased(location.dir)
  BY <1>1, <1>3 DEF StepInv, MoverInv, Copying, Removing
<1>6. /\ 0 \in 0 .. Move!Damaged
      /\ (IF i = "db" THEN {} ELSE disk[location.dir].moved) \in SUBSET (1 .. MaxMoves)
  BY <1>3 DEF DiskTypes, Dir, Move!Damaged
<1>7. /\ location.move.ready /\ Holds(location.move.target)
      /\ \A j \in Move!Items : written[j] # Move!Damaged
  BY <1>1 DEF StepInv, MoverInv, Removing, StateTypes, Move!Damaged
<1>8. /\ DiskTypes' /\ \A d \in Dirs \ {location.dir} : disk'[d] = disk[d]
      /\ disk'[location.dir].exists
  <2> DEFINE new == [[disk[location.dir] EXCEPT !.items[i] = 0]
                    EXCEPT !.moved = IF i = "db" THEN {} ELSE disk[location.dir].moved]
  <2>1. disk[location.dir] \in Dir
    BY <1>3 DEF DiskTypes
  <2>2. disk' = [disk EXCEPT ![location.dir] = new]
    BY <1>3 DEF Move!RemoveEntry, DiskTypes
  <2>3. new \in Dir /\ new.exists = disk[location.dir].exists
    <3> DEFINE rest == IF i = "db" THEN {} ELSE disk[location.dir].moved
               emptied == [disk[location.dir] EXCEPT !.items[i] = 0]
    <3>1. emptied \in Dir /\ emptied.exists = disk[location.dir].exists
      BY <1>6, <2>1, SetItem
    <3>2. rest \in SUBSET (1 .. MaxMoves)
      BY <1>6
    <3> HIDE DEF rest, emptied
    <3>3. /\ [emptied EXCEPT !.moved = rest] \in Dir
          /\ [emptied EXCEPT !.moved = rest].exists = emptied.exists
      BY <3>1, <3>2, SetMoved
    <3> QED
      BY <3>1, <3>3 DEF rest, emptied
  <2>4. disk[location.dir].exists
    BY <1>1, <1>3 DEF StepInv, MoverInv, Copying, Removing
  <2> HIDE DEF new
  <2>5. /\ DiskTypes' /\ disk'[location.dir] = new
        /\ \A d \in Dirs \ {location.dir} : disk'[d] = disk[d]
    BY <1>3, <2>2, <2>3, <2>4, DiskSet
  <2> QED
    BY <2>3, <2>4, <2>5
<1>9. StateTypes'
  BY <1>1, <1>2, <1>3, <1>4, <1>5, <1>6, <1>7, <1>8 DEF StateTypes, Location, Holders,
     Move!NoMove, Move!NoRecord
<1>10. RecordInv'
  BY <1>1, <1>2, <1>3, <1>4, <1>5, <1>6, <1>7, <1>8 DEF RecordInv, StateTypes, Location,
     Move!NoMove, Move!NoRecord
<1>11. LeaseInv'
  BY <1>1, <1>2, <1>3, <1>4, <1>5, <1>6, <1>7, <1>8, LeasedElsewhere, LeasesStay DEF LeaseInv,
     Holders, DiskTypes
<1>12. StepInv'
  BY <1>1, <1>2, <1>3, <1>4, <1>5, <1>6, <1>7, <1>8, <1>9, OneMover DEF MoverInv, Copying,
     Removing, StepInv, StateTypes, Holders, Holds, RecordInv
<1>13. DataInv'
  BY <1>1, <1>2, <1>3, <1>4, <1>5, <1>6, <1>7, <1>8 DEF DataInv, RecordInv, Holds,
     NothingStored, CopyInv, Move!NoMove, Move!NoRecord, Move!Items, Location, StateTypes
<1> QED
  BY <1>8, <1>9, <1>10, <1>11, <1>12, <1>13

LEMMA UnmarkKeeps ==
  ASSUME MoveInv, NEW p \in Starters, Move!Unmark(p)
  PROVE  MoveInv'
<1> USE HostAssumption DEF MoveInv, Move!Source, Move!Target, Move!ID, Pending
<1>1. /\ at[p].step = "remove" /\ moving = p
      /\ UNCHANGED <<configured, location, written, moving, survivor, moves>>
  BY DEF Move!Unmark, StateTypes, Holders
<1>2. /\ at' \in Positions /\ at'[p].step = "rmdir" /\ at'[p].dir = at[p].dir
      /\ \A q \in Starters \ {p} : at'[q] = at[q]
  BY <1>1, GoEffect DEF Move!Unmark, StateTypes, Move!Steps
<1>3. /\ location.dir \in Dirs /\ location.move.target \in Dirs
      /\ location.move.target # location.dir /\ location.move # Move!NoMove
  BY <1>1 DEF StepInv, MoverInv, RecordInv, Copying, Removing
<1>4. \A d : Move!Leased(d)' <=> Move!Leased(d)
  BY <1>1, <1>2, SameLeases DEF Holders
<1>5. ~Move!Leased(location.dir)
  BY <1>1, <1>3 DEF StepInv, MoverInv, Copying, Removing
<1>6. Move!NoMarker \in Marker /\ disk[location.dir].items["artifact"] = 0
  BY DEF Move!Unmark, Marker, Move!NoMarker, Move!Items
<1>7. /\ location.move.ready /\ Holds(location.move.target)
      /\ \A j \in Move!Items : written[j] # Move!Damaged
  BY <1>1 DEF StepInv, MoverInv, Removing, StateTypes, Move!Damaged
<1>8. /\ DiskTypes' /\ \A d \in Dirs \ {location.dir} : disk'[d] = disk[d]
      /\ disk'[location.dir].exists /\ disk'[location.dir].items = disk[location.dir].items
  <2> DEFINE new == [disk[location.dir] EXCEPT !.marker = Move!NoMarker]
  <2>1. disk[location.dir] \in Dir
    BY <1>3 DEF DiskTypes
  <2>2. disk' = [disk EXCEPT ![location.dir] = new]
    BY <1>3 DEF Move!Unmark, DiskTypes
  <2>3. new \in Dir /\ new.exists = disk[location.dir].exists /\ new.items = disk[location.dir].items
    BY <1>6, <2>1, SetMarker
  <2>4. disk[location.dir].exists
    BY <1>1, <1>3 DEF StepInv, MoverInv, Copying, Removing
  <2> HIDE DEF new
  <2>5. /\ DiskTypes' /\ disk'[location.dir] = new
        /\ \A d \in Dirs \ {location.dir} : disk'[d] = disk[d]
    BY <1>3, <2>2, <2>3, <2>4, DiskSet
  <2> QED
    BY <2>3, <2>4, <2>5
<1>9. StateTypes'
  BY <1>1, <1>2, <1>3, <1>4, <1>5, <1>6, <1>7, <1>8 DEF StateTypes, Location, Holders,
     Move!NoMove, Move!NoRecord
<1>10. RecordInv'
  BY <1>1, <1>2, <1>3, <1>4, <1>5, <1>6, <1>7, <1>8 DEF RecordInv, StateTypes, Location,
     Move!NoMove, Move!NoRecord
<1>11. LeaseInv'
  BY <1>1, <1>2, <1>3, <1>4, <1>5, <1>6, <1>7, <1>8, LeasedElsewhere, LeasesStay DEF LeaseInv,
     Holders, DiskTypes
<1>12. StepInv'
  BY <1>1, <1>2, <1>3, <1>4, <1>5, <1>6, <1>7, <1>8, <1>9, OneMover, SMTT(20) DEF MoverInv,
     Copying, Removing, StepInv, StateTypes, Holders, Holds, RecordInv
<1>13. DataInv'
  BY <1>1, <1>2, <1>3, <1>4, <1>5, <1>6, <1>7, <1>8 DEF DataInv, RecordInv, Holds,
     NothingStored, CopyInv, Move!NoMove, Move!NoRecord, Move!Items, Location, StateTypes
<1> QED
  BY <1>8, <1>9, <1>10, <1>11, <1>12, <1>13

LEMMA RemoveSourceKeeps ==
  ASSUME MoveInv, NEW p \in Starters, Move!RemoveSource(p)
  PROVE  MoveInv'
<1> USE HostAssumption DEF MoveInv, Move!Source, Move!Target, Move!ID, Pending
<1>1. /\ at[p].step = "rmdir" /\ moving = p
      /\ UNCHANGED <<configured, location, written, moving, survivor, moves>>
  BY DEF Move!RemoveSource, StateTypes, Holders
<1>2. /\ at' \in Positions /\ at'[p].step = "record" /\ at'[p].dir = at[p].dir
      /\ \A q \in Starters \ {p} : at'[q] = at[q]
  BY <1>1, GoEffect DEF Move!RemoveSource, StateTypes, Move!Steps
<1>3. /\ location.dir \in Dirs /\ location.move.target \in Dirs
      /\ location.move.target # location.dir /\ location.move # Move!NoMove
  BY <1>1 DEF StepInv, MoverInv, RecordInv, Copying, Removing
<1>4. \A d : Move!Leased(d)' <=> Move!Leased(d)
  BY <1>1, <1>2, SameLeases DEF Holders
<1>5. ~Move!Leased(location.dir)
  BY <1>1, <1>3 DEF StepInv, MoverInv, Copying, Removing
<1>6. Move!Owner \in Marker /\ Move!Absent \in Dir
  BY <1>3 DEF Move!Owner, Marker, StateTypes, Location, Move!Absent, Dir, Move!NoMarker,
     Move!Items, Move!Damaged
<1>7. /\ location.move.ready /\ Holds(location.move.target)
      /\ \A j \in Move!Items : written[j] # Move!Damaged
  BY <1>1 DEF StepInv, MoverInv, Removing, StateTypes, Move!Damaged
<1>8. /\ DiskTypes' /\ \A d \in Dirs \ {location.dir} : disk'[d] = disk[d]
      /\ disk'[location.dir].items["artifact"] = 0
  <2>1. /\ disk[location.dir] \in Dir /\ disk[location.dir].exists
        /\ disk[location.dir].items["artifact"] = 0
    BY <1>1, <1>3 DEF DiskTypes, StepInv, MoverInv
  <2>2. PICK new \in Dir : /\ new.exists \/ new = Move!Absent
                          /\ new.items["artifact"] = 0
                          /\ disk' = [disk EXCEPT ![location.dir] = new]
    BY <1>6, <2>1, SetMarker DEF Move!RemoveSource, Move!Absent, Move!Items
  <2>3. /\ DiskTypes' /\ disk'[location.dir] = new
        /\ \A d \in Dirs \ {location.dir} : disk'[d] = disk[d]
    BY <1>3, <2>2, DiskSet
  <2> QED
    BY <2>2, <2>3
<1>9. StateTypes'
  BY <1>1, <1>2, <1>3, <1>4, <1>5, <1>6, <1>7, <1>8 DEF StateTypes, Location, Holders,
     Move!NoMove, Move!NoRecord
<1>10. RecordInv'
  BY <1>1, <1>2, <1>3, <1>4, <1>5, <1>6, <1>7, <1>8 DEF RecordInv, StateTypes, Location,
     Move!NoMove, Move!NoRecord
<1>11. LeaseInv'
  BY <1>1, <1>2, <1>3, <1>4, <1>5, <1>6, <1>7, <1>8, LeasedElsewhere, LeasesStay DEF LeaseInv,
     Holders, DiskTypes
<1>12. StepInv'
  BY <1>1, <1>2, <1>3, <1>4, <1>5, <1>6, <1>7, <1>8, <1>9, OneMover DEF MoverInv, Copying,
     Removing, StepInv, StateTypes, Holders, Holds, RecordInv
<1>13. DataInv'
  BY <1>1, <1>2, <1>3, <1>4, <1>5, <1>6, <1>7, <1>8 DEF DataInv, RecordInv, Holds,
     NothingStored, CopyInv, Move!NoMove, Move!NoRecord, Move!Items, Location, StateTypes
<1> QED
  BY <1>8, <1>9, <1>10, <1>11, <1>12, <1>13

LEMMA RecordKeeps ==
  ASSUME MoveInv, NEW p \in Starters, Move!Record(p)
  PROVE  MoveInv'
<1> USE HostAssumption DEF MoveInv, Move!Source, Move!Target, Move!ID, Pending
<1>1. /\ at[p].step = "record" /\ moving = p
      /\ UNCHANGED <<configured, disk, written, moving, survivor, moves>>
      /\ location' = [dir |-> location.move.target, established |-> TRUE, move |-> Move!NoMove]
  BY DEF Move!Record, StateTypes, Holders
<1>2. /\ at' \in Positions /\ at'[p].step = "release" /\ at'[p].dir = at[p].dir
      /\ \A q \in Starters \ {p} : at'[q] = at[q]
  BY GoEffect DEF Move!Record, StateTypes, Move!Steps
<1>3. \A d : Move!Leased(d)' <=> Move!Leased(d)
  BY <1>1, <1>2, SameLeases DEF Holders
<1>4. /\ location.dir \in Dirs /\ location.move.target \in Dirs
      /\ location.move.target # location.dir /\ location.move # Move!NoMove /\ location.move.ready
      /\ ~Move!Leased(location.move.target) /\ Holds(location.move.target)
      /\ disk[location.dir].items["artifact"] = 0
  BY <1>1 DEF StepInv, MoverInv, RecordInv, Removing
<1>5. \A q \in Starters : at[q].step # "serving"
  BY <1>4 DEF LeaseInv, Holders
<1>6. StateTypes'
  BY <1>1, <1>2, <1>3, <1>4, <1>5 DEF StateTypes, Location, Holders, Move!NoMove, Move!NoRecord
<1>7. DiskTypes'
  BY <1>1, <1>2, <1>3, <1>4, <1>5, DiskKept
<1>8. RecordInv'
  BY <1>1, <1>2, <1>3, <1>4, <1>5 DEF RecordInv, StateTypes, Location, Move!NoMove,
     Move!NoRecord
<1>9. LeaseInv'
  BY <1>1, <1>2, <1>3, <1>4, <1>5, LeasesStay DEF LeaseInv, Holders, StateTypes, RecordInv
<1>10. StepInv'
  BY <1>1, <1>2, <1>3, <1>4, <1>5, <1>6, OneMover DEF MoverInv, Copying, Removing
<1>11. DataInv'
  BY <1>1, <1>2, <1>3, <1>4, <1>5 DEF DataInv, RecordInv, Holds, NothingStored, CopyInv,
     Move!NoMove, Move!NoRecord, Move!Items, Location, StateTypes
<1> QED
  BY <1>6, <1>7, <1>8, <1>9, <1>10, <1>11

LEMMA ReleaseKeeps ==
  ASSUME MoveInv, NEW p \in Starters, Move!Release(p)
  PROVE  MoveInv'
<1> USE HostAssumption DEF MoveInv, Move!Source, Move!Target, Move!ID, Pending
<1>1. /\ at[p].step = "release" /\ moving' = NoStarter
      /\ UNCHANGED <<configured, location, written, survivor, moves>>
  BY DEF Move!Release, Move!Settle
<1>2. /\ at' \in Positions /\ at'[p] = [step |-> "settled", dir |-> configured]
      /\ \A q \in Starters \ {p} : at'[q] = at[q]
  BY DEF Move!Release, Move!Settle, StateTypes, Positions, Move!Steps
<1>3. location.dir \in Dirs
  BY <1>1 DEF StepInv, MoverInv, RecordInv
<1>4. /\ DiskTypes'
      /\ \A d \in Dirs : disk'[d].exists = disk[d].exists /\ disk'[d].items = disk[d].items
  BY <1>3, MarkerGoes DEF Move!Release
<1>5. StateTypes'
  BY <1>1, <1>2, <1>3, <1>4 DEF StateTypes, Location, Holders, Move!NoMove, Move!NoRecord
<1>6. RecordInv'
  BY <1>1, <1>2, <1>3, <1>4 DEF RecordInv, StateTypes, Location, Move!NoMove, Move!NoRecord
<1>7. LeaseInv'
  BY <1>1, <1>2, <1>3, <1>4, LeasesStay DEF LeaseInv, Holders, StateTypes, RecordInv
<1>8. StepInv'
  BY <1>1, <1>2, <1>3, <1>4, <1>5, OneMover
<1>9. DataInv'
  BY <1>1, <1>2, <1>3, <1>4 DEF DataInv, RecordInv, Holds, NothingStored, CopyInv, Move!NoMove,
     Move!NoRecord, Move!Items, Location, StateTypes
<1> QED
  BY <1>4, <1>5, <1>6, <1>7, <1>8, <1>9

-----------------------------------------------------------------------------
(* The rest of the start, and the panel that serves *)

LEMMA LeaseKeeps ==
  ASSUME MoveInv, NEW p \in Starters, Move!Lease(p)
  PROVE  MoveInv'
<1> USE HostAssumption DEF MoveInv, Move!Source, Move!Target, Move!ID, Pending
<1>1. /\ at[p].step = "settled" /\ moving # p /\ ~Move!Leased(at[p].dir)
      /\ ~Move!HeldByMove(at[p].dir)
      /\ UNCHANGED <<configured, location, written, moving, survivor, moves>>
  BY DEF Move!Lease, StateTypes, Holders
<1>2. /\ at' \in Positions /\ at'[p].step = "leased" /\ at'[p].dir = at[p].dir
      /\ \A q \in Starters \ {p} : at'[q] = at[q]
  BY GoEffect DEF Move!Lease, StateTypes, Move!Steps
<1>3. at[p].dir \in Dirs
  BY <1>1 DEF LeaseInv
<1>4. /\ DiskTypes' /\ \A d \in Dirs \ {at[p].dir} : disk'[d] = disk[d]
      /\ disk'[at[p].dir].exists /\ disk'[at[p].dir].items = disk[at[p].dir].items
  <2> DEFINE new == [disk[at[p].dir] EXCEPT !.exists = TRUE]
  <2>1. disk' = [disk EXCEPT ![at[p].dir] = new]
    BY <1>3 DEF Move!Lease, DiskTypes
  <2>2. new \in Dir /\ new.exists /\ new.items = disk[at[p].dir].items
    BY <1>3, SetExists DEF DiskTypes
  <2> HIDE DEF new
  <2> QED
    BY <1>3, <2>1, <2>2, DiskSet
<1>5. StateTypes'
  BY <1>1, <1>2, <1>3, <1>4 DEF StateTypes, Location, Holders, Move!NoMove, Move!NoRecord
<1>6. RecordInv'
  BY <1>1, <1>2, <1>3, <1>4 DEF RecordInv, StateTypes, Location, Move!NoMove, Move!NoRecord
<1>7. LeaseInv'
  BY <1>1, <1>2, <1>3, <1>4, LeasedElsewhere DEF LeaseInv, Holders
<1>8. StepInv'
  <2> SUFFICES ASSUME NEW q \in Starters PROVE MoverInv(q)'
    BY DEF StepInv
  <2>1. CASE moving # q
    <3>1. at'[q].step \in Holders \cup {"away", "settled"}
      BY <1>1, <2>1, <1>5 DEF StateTypes
    <3> QED
      BY <3>1 DEF MoverInv, Holders, Copying, Removing
  <2>2. CASE moving = q
    <3>1. at'[q] = at[q] /\ \A d : Move!Leased(d)' => Move!Leased(d) \/ d = at[p].dir
      BY <1>1, <1>2, <2>2 DEF Move!Leased
    <3>2. at[q].step # "locked" => /\ at[p].dir # location.move.target
                                   /\ at[p].dir = location.dir => location.move.ready /\ at[q].step = "claim"
      BY <1>1, <2>2 DEF Move!HeldByMove
    <3>3. \A d \in Dirs : disk'[d].items = disk[d].items /\ (disk[d].exists => disk'[d].exists)
      BY <1>4
    <3>4. location.move # Move!NoMove => location.dir \in Dirs /\ location.move.target \in Dirs
      BY DEF RecordInv
    <3>5. MoverInv(q)
      BY DEF StepInv
    <3> QED
      BY <1>1, <3>1, <3>2, <3>3, <3>4, <3>5 DEF MoverInv, Copying, Removing, Holds
  <2> QED
    BY <2>1, <2>2
<1>9. DataInv'
  BY <1>1, <1>2, <1>3, <1>4 DEF DataInv, RecordInv, Holds, NothingStored, CopyInv, Move!NoMove,
     Move!NoRecord, Move!Items, Location, StateTypes
<1> QED
  BY <1>4, <1>5, <1>6, <1>7, <1>8, <1>9

LEMMA OpenKeeps ==
  ASSUME MoveInv, NEW p \in Starters, Move!Open(p)
  PROVE  MoveInv'
<1> USE HostAssumption DEF MoveInv, Move!Source, Move!Target, Move!ID, Pending
<1>1. /\ at[p].step = "leased" /\ moving # p
      /\ UNCHANGED <<configured, location, moving, survivor, moves>>
  BY DEF Move!Open, StateTypes, Holders
<1>2. /\ at' \in Positions /\ at'[p].step = "opened" /\ at'[p].dir = at[p].dir
      /\ \A q \in Starters \ {p} : at'[q] = at[q]
  BY GoEffect DEF Move!Open, StateTypes, Move!Steps
<1>3. at[p].dir \in Dirs /\ disk[at[p].dir].exists /\ Move!Leased(at[p].dir)
  BY <1>1 DEF LeaseInv, Holders, Move!Leased
<1>4. /\ DiskTypes' /\ \A d \in Dirs \ {at[p].dir} : disk'[d] = disk[d]
      /\ disk'[at[p].dir].exists
      /\ disk'[at[p].dir].items["artifact"] = disk[at[p].dir].items["artifact"]
      /\ disk'[at[p].dir].items["db"] = IF disk[at[p].dir].items["db"] = 0 THEN 1 ELSE disk[at[p].dir].items["db"]
  <2> DEFINE db == IF disk[at[p].dir].items["db"] = 0 THEN 1 ELSE disk[at[p].dir].items["db"]
             new == [disk[at[p].dir] EXCEPT !.items["db"] = db]
  <2>1. disk' = [disk EXCEPT ![at[p].dir] = new]
    BY <1>3 DEF Move!Open, DiskTypes, Dir, Move!Items
  <2>2. disk[at[p].dir] \in Dir /\ db \in 0 .. Move!Damaged
    BY <1>3 DEF DiskTypes, Dir, Move!Items, Move!Damaged
  <2>3. /\ new \in Dir /\ new.exists /\ new.items["db"] = db
        /\ new.items["artifact"] = disk[at[p].dir].items["artifact"]
    BY <1>3, <2>2, SetItem DEF Move!Items
  <2> HIDE DEF new
  <2> QED
    BY <1>3, <2>1, <2>3, DiskSet
<1>5. /\ written' \in [Move!Items -> 0 .. MaxWrites] /\ written'["artifact"] = written["artifact"]
      /\ written'["db"] = IF written["db"] = 0 THEN 1 ELSE written["db"]
  BY DEF Move!Open, StateTypes, Move!Items
<1>6. \A d : Move!Leased(d)' <=> Move!Leased(d)
  BY <1>1, <1>2 DEF Move!Leased, Holders
<1>7. location.established \/ location.move # Move!NoMove => written' = written
  BY <1>5 DEF DataInv, StateTypes, Move!Items
<1>8. StateTypes'
  BY <1>1, <1>2, <1>3, <1>4, <1>5, <1>6, <1>7 DEF StateTypes, Location, Holders, Move!NoMove,
     Move!NoRecord
<1>9. RecordInv'
  BY <1>1, <1>2, <1>3, <1>4, <1>5, <1>6, <1>7 DEF RecordInv, StateTypes, Location, Move!NoMove,
     Move!NoRecord
<1>10. LeaseInv'
  BY <1>1, <1>2, <1>3, <1>4, <1>5, <1>6, <1>7 DEF LeaseInv, Holders
<1>11. StepInv'
  BY <1>1, <1>2, <1>3, <1>4, <1>5, <1>6, <1>7, SMTT(20) DEF StepInv, MoverInv, Copying,
     Removing, Holders, StateTypes, Holds, RecordInv, Move!Leased, Move!Items, DataInv
<1>12. DataInv'
  <2>1. \A d \in Dirs : disk'[d].items["artifact"] = disk[d].items["artifact"]
    BY <1>4
  <2>2. \A d \in Dirs : disk[d].items["db"] # 0 => disk'[d].items["db"] = disk[d].items["db"]
    BY <1>4
  <2>3. CASE ~location.established /\ location.move = Move!NoMove
    <3>1. NothingStored
      BY <2>3 DEF DataInv
    <3>2. NothingStored'
      BY <1>3, <1>4, <1>5, <3>1 DEF NothingStored
    <3> QED
      BY <1>1, <2>1, <2>3, <3>2 DEF DataInv
  <2>4. CASE location.established \/ location.move # Move!NoMove
    <3>1. written' = written /\ written["db"] # 0
      BY <1>7, <2>4 DEF DataInv
    <3>2. \A d \in Dirs, i \in Move!Items :
            disk[d].items[i] = written[i] => disk'[d].items[i] = written[i]
      BY <2>1, <2>2, <3>1 DEF Move!Items
    <3>3. location.dir \in Dirs /\ (location.move # Move!NoMove => location.move.target \in Dirs)
      BY <2>4 DEF RecordInv
    <3>4. Holds(location.dir) => Holds(location.dir)'
      BY <1>1, <3>1, <3>2, <3>3 DEF Holds
    <3>5. ASSUME location.move # Move!NoMove, CopyInv PROVE CopyInv'
      <4>1. \A i \in Move!Items : disk'[location.move.target].items[i] = disk[location.move.target].items[i]
        BY <2>1, <2>2, <3>1, <3>3, <3>5 DEF CopyInv, Move!Items, Move!Damaged
      <4> QED
        BY <1>1, <3>1, <3>2, <3>3, <3>5, <4>1 DEF CopyInv
    <3> QED
      BY <1>1, <2>1, <2>4, <3>1, <3>4, <3>5 DEF DataInv
  <2> QED
    BY <2>3, <2>4
<1> QED
  BY <1>4, <1>8, <1>9, <1>10, <1>11, <1>12

LEMMA EstablishKeeps ==
  ASSUME MoveInv, NEW p \in Starters, Move!Establish(p)
  PROVE  MoveInv'
<1> USE HostAssumption DEF MoveInv, Move!Source, Move!Target, Move!ID, Pending
<1>1. /\ at[p].step = "opened" /\ moving = NoStarter /\ location.dir = at[p].dir
      /\ location.move = Move!NoMove
      /\ UNCHANGED <<configured, disk, written, moving, survivor, moves>>
  BY DEF Move!Establish
<1>2. /\ location' \in Location /\ location'.dir = location.dir /\ location'.established
      /\ location'.move = location.move
  BY DEF Move!Establish, StateTypes, Location
<1>3. /\ at' \in Positions /\ \A q \in Starters \ {p} : at'[q] = at[q]
      /\ at'[p].step \in {"away", "serving"} /\ (at'[p].step = "serving" => at'[p].dir = at[p].dir)
  BY DEF Move!Establish, Move!Go, StateTypes, Move!Steps, Positions, Move!Away
<1>4. location.dir \in Dirs /\ disk[location.dir].items["db"] # 0
  BY <1>1 DEF LeaseInv, Holders
<1>5. StateTypes'
  BY <1>1, <1>2, <1>3, <1>4 DEF StateTypes, Location, Holders, Move!NoMove, Move!NoRecord
<1>6. DiskTypes'
  BY <1>1, <1>2, <1>3, <1>4, DiskKept
<1>7. RecordInv'
  BY <1>1, <1>2, <1>3, <1>4 DEF RecordInv, StateTypes, Location, Move!NoMove, Move!NoRecord
<1>8. LeaseInv'
  BY <1>1, <1>2, <1>3, <1>4 DEF LeaseInv, Holders
<1>9. StepInv'
  BY <1>1, <1>2, <1>3, <1>4, <1>5, OneMover
<1>10. DataInv'
  BY <1>1, <1>2, <1>3, <1>4 DEF DataInv, RecordInv, Holds, NothingStored, CopyInv, Move!NoMove,
     Move!NoRecord, Move!Items, Location, StateTypes
<1> QED
  BY <1>5, <1>6, <1>7, <1>8, <1>9, <1>10

LEMMA WriteKeeps ==
  ASSUME MoveInv, NEW p \in Starters, NEW i \in Move!Items, Move!Write(p, i)
  PROVE  MoveInv'
<1> USE HostAssumption DEF MoveInv, Move!Source, Move!Target, Move!ID, Pending
<1>1. /\ at[p].step = "serving" /\ UNCHANGED <<configured, location, moving, at, survivor, moves>>
  BY DEF Move!Write
<1>2. /\ at[p].dir \in Dirs /\ at[p].dir = location.dir /\ disk[at[p].dir].exists
      /\ location.established /\ location.move = Move!NoMove /\ Move!Leased(at[p].dir)
  BY <1>1 DEF LeaseInv, Holders, Move!Leased
<1>3. /\ written' \in [Move!Items -> 0 .. MaxWrites] /\ written'[i] \in 1 .. MaxWrites
      /\ \A j \in Move!Items \ {i} : written'[j] = written[j]
  BY DEF Move!Write, StateTypes
<1>4. /\ DiskTypes' /\ \A d \in Dirs \ {at[p].dir} : disk'[d] = disk[d]
      /\ disk'[at[p].dir].exists /\ disk'[at[p].dir].items[i] = written'[i]
      /\ \A j \in Move!Items \ {i} : disk'[at[p].dir].items[j] = disk[at[p].dir].items[j]
  <2> DEFINE new == [disk[at[p].dir] EXCEPT !.items[i] = written'[i]]
  <2>1. disk' = [disk EXCEPT ![at[p].dir] = new]
    BY <1>2 DEF Move!Write, DiskTypes
  <2>2. disk[at[p].dir] \in Dir /\ written'[i] \in 0 .. Move!Damaged
    BY <1>2, <1>3 DEF DiskTypes, Move!Damaged
  <2>3. /\ new \in Dir /\ new.exists /\ new.items[i] = written'[i]
        /\ \A j \in Move!Items \ {i} : new.items[j] = disk[at[p].dir].items[j]
    BY <1>2, <2>2, SetItem
  <2> HIDE DEF new
  <2>4. DiskTypes' /\ disk'[at[p].dir] = new /\ \A d \in Dirs \ {at[p].dir} : disk'[d] = disk[d]
    BY <1>2, <2>1, <2>3, DiskSet
  <2> QED
    BY <2>3, <2>4
<1>5. StateTypes'
  BY <1>1, <1>2, <1>3, <1>4 DEF StateTypes, Location, Holders, Move!NoMove, Move!NoRecord
<1>6. RecordInv'
  BY <1>1, <1>2, <1>3, <1>4 DEF RecordInv, StateTypes, Location, Move!NoMove, Move!NoRecord
<1>7. LeaseInv'
  BY <1>1, <1>2, <1>3, <1>4 DEF LeaseInv, Holders, Move!Items
<1>8. StepInv'
  BY <1>1, <1>2, <1>3, <1>4 DEF StepInv, MoverInv, Copying, Removing, Holders, StateTypes,
     Holds, RecordInv, Move!Leased, Move!Items
<1>9. DataInv'
  BY <1>1, <1>2, <1>3, <1>4 DEF DataInv, RecordInv, Holds, NothingStored, CopyInv, Move!NoMove,
     Move!NoRecord, Move!Items, Location, StateTypes
<1> QED
  BY <1>4, <1>5, <1>6, <1>7, <1>8, <1>9

LEMMA EndsKeeps ==
  ASSUME MoveInv, NEW p \in Starters, Move!Ends(p)
  PROVE  MoveInv'
<1> USE HostAssumption DEF MoveInv, Move!Source, Move!Target, Move!ID, Pending
<1>1. /\ UNCHANGED <<configured, location, disk, written, survivor, moves>>
      /\ moving' = IF moving = p THEN NoStarter ELSE moving
  BY DEF Move!Ends, Move!Leave
<1>2. /\ at' \in Positions /\ at'[p] = Move!Away /\ \A q \in Starters \ {p} : at'[q] = at[q]
  BY DEF Move!Ends, Move!Leave, StateTypes, Move!Steps, Move!Away, Positions
<1>3. \A d : Move!Leased(d)' => Move!Leased(d)
  BY <1>2 DEF Move!Leased, Move!Away
<1>4. StateTypes'
  BY <1>1, <1>2, <1>3 DEF StateTypes, Location, Holders, Move!NoMove, Move!NoRecord, Move!Away
<1>5. DiskTypes'
  BY <1>1, <1>2, <1>3, DiskKept
<1>6. RecordInv'
  BY <1>1, <1>2, <1>3 DEF RecordInv, StateTypes, Location, Move!NoMove, Move!NoRecord, Move!Away
<1>7. LeaseInv'
  BY <1>1, <1>2, <1>3, LeasesStay DEF LeaseInv, Holders, Move!Away
<1>8. StepInv'
  BY <1>1, <1>2, <1>3 DEF StepInv, MoverInv, Copying, Removing, Holders, Move!Away, Holds
<1>9. DataInv'
  BY <1>1, <1>2, <1>3 DEF DataInv, RecordInv, Holds, NothingStored, CopyInv, Move!NoMove,
     Move!NoRecord, Move!Items, Location, StateTypes
<1> QED
  BY <1>4, <1>5, <1>6, <1>7, <1>8, <1>9

LEMMA DamageKeeps ==
  ASSUME MoveInv, NEW d \in Dirs, NEW i \in Move!Items, Move!Damage(d, i)
  PROVE  MoveInv'
<1> USE HostAssumption DEF MoveInv, Move!Source, Move!Target, Move!ID, Pending
<1>1. /\ moving = NoStarter /\ location.move # Move!NoMove
      /\ disk[d].items[i] \notin {0, Move!Damaged}
      /\ d = location.move.target \/ location.move.ready
      /\ UNCHANGED <<configured, location, written, moving, at, survivor, moves>>
  BY DEF Move!Damage
<1>2. PICK e \in Dirs \ {d} : disk[e].items[i] = written[i]
  BY DEF Move!Damage
<1>3. disk[d] \in Dir /\ disk[d].exists
  BY <1>1 DEF DiskTypes, Move!Absent
<1>4. /\ DiskTypes' /\ \A c \in Dirs \ {d} : disk'[c] = disk[c]
      /\ disk'[d].exists /\ disk'[d].items[i] = Move!Damaged
      /\ \A j \in Move!Items \ {i} : disk'[d].items[j] = disk[d].items[j]
  <2> DEFINE new == [disk[d] EXCEPT !.items[i] = Move!Damaged]
  <2>1. disk' = [disk EXCEPT ![d] = new]
    BY DEF Move!Damage, DiskTypes
  <2>2. Move!Damaged \in 0 .. Move!Damaged
    BY DEF Move!Damaged
  <2>3. /\ new \in Dir /\ new.exists /\ new.items[i] = Move!Damaged
        /\ \A j \in Move!Items \ {i} : new.items[j] = disk[d].items[j]
    BY <1>3, <2>2, SetItem
  <2> HIDE DEF new
  <2>4. DiskTypes' /\ disk'[d] = new /\ \A c \in Dirs \ {d} : disk'[c] = disk[c]
    BY <2>1, <2>3, DiskSet
  <2> QED
    BY <2>3, <2>4
<1>5. /\ location.dir \in Dirs /\ location.move.target \in Dirs
      /\ location.move.target # location.dir /\ Move!Damaged # 0 /\ written[i] # Move!Damaged
  BY <1>1 DEF RecordInv, StateTypes, Move!Damaged
<1>6. StateTypes'
  BY <1>1, <1>2, <1>3, <1>4, <1>5 DEF StateTypes, Location, Holders, Move!NoMove, Move!NoRecord
<1>7. RecordInv'
  BY <1>1, <1>2, <1>3, <1>4, <1>5 DEF RecordInv, StateTypes, Location, Move!NoMove,
     Move!NoRecord
<1>8. LeaseInv'
  BY <1>1, <1>2, <1>3, <1>4, <1>5 DEF LeaseInv, Holders, Move!Items
<1>9. StepInv'
  BY <1>1, <1>2, <1>3, <1>4, <1>5 DEF StepInv, MoverInv, StateTypes, Holders, Copying, Removing
<1>10. DataInv'
  <2>1. ~location.move.ready => Holds(location.dir)'
    BY <1>1, <1>4, <1>5 DEF DataInv, Holds
  <2>2. ASSUME location.move.ready PROVE CopyInv'
    <3>1. CopyInv
      BY <1>1, <2>2 DEF DataInv
    <3>2. SUFFICES ASSUME NEW j \in Move!Items
                   PROVE  /\ disk'[location.move.target].items[j] \in {written[j], Move!Damaged}
                          /\ disk'[location.move.target].items[j] = Move!Damaged =>
                               written[j] # 0 /\ \E c \in Dirs \ {location.move.target} : disk'[c].items[j] = written[j]
      BY <1>1 DEF CopyInv
    <3>3. CASE j # i
      <4>1. \A c \in Dirs : disk'[c].items[j] = disk[c].items[j]
        BY <1>4, <3>3
      <4> QED
        BY <1>5, <3>1, <4>1 DEF CopyInv
    <3>4. CASE j = i /\ d = location.move.target
      <4>1. written[i] # 0
        BY <1>1, <3>1, <3>4 DEF CopyInv
      <4>2. disk'[e].items[i] = written[i]
        BY <1>2, <1>4
      <4> QED
        BY <1>2, <1>4, <3>4, <4>1, <4>2
    <3>5. CASE j = i /\ d # location.move.target
      <4>1. disk'[location.move.target] = disk[location.move.target] /\ disk'[e] = disk[e]
        BY <1>2, <1>4, <1>5, <3>5
      <4> QED
        BY <1>2, <1>5, <3>1, <3>5, <4>1 DEF CopyInv
    <3> QED
      BY <3>3, <3>4, <3>5
  <2>3. \A c \in Dirs \ {location.dir, location.move.target} : disk'[c].items["artifact"] = 0
    <3>1. \A c \in Dirs \ {location.dir, location.move.target} : disk[c].items["artifact"] = 0
      BY DEF DataInv
    <3> QED
      BY <1>1, <1>4, <3>1 DEF Move!Items
  <2>4. written["db"] # 0
    BY <1>1 DEF DataInv
  <2> QED
    BY <1>1, <2>1, <2>2, <2>3, <2>4 DEF DataInv
<1> QED
  BY <1>4, <1>6, <1>7, <1>8, <1>9, <1>10

LEMMA OtherKeeps ==
  ASSUME MoveInv,
         \/ Move!CoreExits \/ UNCHANGED Move!moveVars
         \/ \E p \in Starters : Move!StartCore(p)
         \/ \E d \in Dirs : Move!EditDataDir(d)
  PROVE  MoveInv'
<1> USE HostAssumption DEF MoveInv, Move!Source, Move!Target, Move!ID, Pending
<1>1. /\ configured' \in Dirs /\ survivor' \in Dirs \cup {NoDir}
      /\ UNCHANGED <<location, disk, written, moving, at, moves>>
  BY DEF Move!CoreExits, Move!StartCore, Move!EditDataDir, Move!moveVars, StateTypes, LeaseInv,
     Holders
<1>2. StateTypes'
  BY <1>1 DEF StateTypes, Location, Holders, Move!NoMove, Move!NoRecord
<1>3. DiskTypes'
  BY <1>1, DiskKept
<1>4. RecordInv'
  BY <1>1 DEF RecordInv, StateTypes, Location, Move!NoMove, Move!NoRecord
<1>5. LeaseInv'
  BY <1>1 DEF LeaseInv
<1>6. StepInv'
  BY <1>1 DEF StepInv, MoverInv, Move!Leased, Holds
<1>7. DataInv'
  BY <1>1 DEF DataInv, RecordInv, Holds, NothingStored, CopyInv, Move!NoMove, Move!NoRecord,
     Move!Items, Location, StateTypes
<1> QED
  BY <1>2, <1>3, <1>4, <1>5, <1>6, <1>7

-----------------------------------------------------------------------------
(* The invariant *)

LEMMA MoveStarts ==
  ASSUME Move!Init
  PROVE  MoveInv
<1> USE HostAssumption DEF Move!Init, Move!NoRecord, Move!NoMove, Move!Source, Move!Target,
        Move!ID, Pending
<1>1. \A d \in Dirs : disk[d] = Move!Absent /\ disk[d].items = [i \in Move!Items |-> 0]
  BY DEF Move!Absent
<1>2. \A i \in Move!Items : written[i] = 0 /\ \A d \in Dirs : disk[d].items[i] = 0
  BY <1>1
<1>3. \A p \in Starters : at[p].step = "away"
  BY DEF Move!Away
<1>4. Move!NoMove \in [id : 0 .. MaxMoves, target : Dirs \cup {NoDir}, ready : BOOLEAN]
  OBVIOUS
<1>5. /\ Move!Absent \in Dir /\ Move!Away \in [step : Move!Steps, dir : Dirs \cup {NoDir}]
      /\ 0 \in 0 .. MaxWrites
  BY DEF Move!Absent, Dir, Move!Away, Move!Steps, Marker, Move!NoMarker, Move!Damaged
<1>6. StateTypes
  BY <1>3, <1>4, <1>5 DEF StateTypes, Location, Positions, Holders
<1>7. DiskTypes
  BY <1>1, <1>5 DEF DiskTypes
<1>8. RecordInv /\ LeaseInv
  BY <1>1, <1>3 DEF RecordInv, LeaseInv, Holders
<1>9. StepInv
  BY <1>3 DEF StepInv, MoverInv, Copying, Removing
<1>10. DataInv
  BY <1>2 DEF DataInv, NothingStored, Move!Items
<1> QED
  BY <1>6, <1>7, <1>8, <1>9, <1>10 DEF MoveInv

LEMMA MoveSteps ==
  ASSUME MoveInv, [Move!Next]_(Move!moveVars)
  PROVE  MoveInv'
<1>1. ASSUME NEW p \in Starters, Move!PrepareDataLocation(p)
      PROVE  MoveInv'
  <2>1. CASE Move!Start(p) \/ Move!Remember(p) \/ Move!Agree(p) \/ Move!Follow(p)
    BY <2>1, StartKeeps, RememberKeeps, AgreeKeeps, FollowKeeps
  <2>2. CASE \/ Move!BeginMove(p) \/ Move!ResumeMove(p) \/ Move!Claim(p)
             \/ Move!MarkSource(p) \/ Move!Clear(p) \/ Move!CopyTree(p)
    BY <2>2, BeginMoveKeeps, ResumeMoveKeeps, ClaimKeeps, MarkSourceKeeps, ClearKeeps,
       CopyTreeKeeps
  <2>3. CASE \/ Move!SnapshotDatabase(p) \/ Move!RebaseDatabase(p) \/ Move!Verify(p)
             \/ \E i \in Move!Items : Move!RemoveEntry(p, i)
    BY <2>3, SnapshotDatabaseKeeps, RebaseDatabaseKeeps, VerifyKeeps, RemoveEntryKeeps
  <2>4. CASE Move!Unmark(p) \/ Move!RemoveSource(p) \/ Move!Record(p) \/ Move!Release(p)
    BY <2>4, UnmarkKeeps, RemoveSourceKeeps, RecordKeeps, ReleaseKeeps
  <2> QED
    BY <1>1, <2>1, <2>2, <2>3, <2>4 DEF Move!PrepareDataLocation, Move!Migrate
<1>2. ASSUME NEW p \in Starters,
             \/ Move!Lease(p) \/ Move!Open(p) \/ Move!Establish(p) \/ Move!Ends(p)
             \/ \E i \in Move!Items : Move!Write(p, i)
      PROVE  MoveInv'
  BY <1>2, LeaseKeeps, OpenKeeps, EstablishKeeps, EndsKeeps, WriteKeeps
<1>3. ASSUME NEW d \in Dirs, NEW i \in Move!Items, Move!Damage(d, i)
      PROVE  MoveInv'
  BY <1>3, DamageKeeps
<1>4. CASE \/ Move!CoreExits \/ UNCHANGED Move!moveVars
           \/ \E p \in Starters : Move!StartCore(p)
           \/ \E d \in Dirs : Move!EditDataDir(d)
  BY <1>4, OtherKeeps
<1> QED
  BY <1>1, <1>2, <1>3, <1>4 DEF Move!Next

\* Every move keeps its invariant, wherever it is interrupted.
THEOREM MoveInvariant == Move!Spec => []MoveInv
<1>1. Move!Init => MoveInv
  BY MoveStarts
<1>2. MoveInv /\ [Move!Next]_(Move!moveVars) => MoveInv'
  BY MoveSteps
<1> QED
  BY <1>1, <1>2, PTL DEF Move!Spec

LEMMA MoveKeepsTypes ==
  ASSUME MoveInv
  PROVE  Move!TypeOK
BY DEF MoveInv, StateTypes, DiskTypes, Move!TypeOK, Location, Positions, Dir, Marker, Holders

LEMMA MoveLosesNothing ==
  ASSUME MoveInv
  PROVE  Move!NothingIsLost
<1> USE HostAssumption DEF MoveInv, Move!Source, Move!Target, Move!ID, Pending
<1> SUFFICES ASSUME NEW i \in Move!Items, written[i] # 0
             PROVE  \E d \in Dirs : disk[d].items[i] = written[i]
  BY DEF Move!NothingIsLost
<1>1. CASE location.move # Move!NoMove
  <2>1. location.dir \in Dirs /\ location.move.target \in Dirs
    BY <1>1 DEF RecordInv
  <2>2. CASE location.move.ready
    BY <1>1, <2>1, <2>2 DEF DataInv, CopyInv
  <2>3. CASE ~location.move.ready
    BY <1>1, <2>1, <2>3 DEF DataInv, Holds
  <2> QED
    BY <2>2, <2>3
<1>2. CASE location.move = Move!NoMove /\ location.established
  BY <1>2 DEF DataInv, Holds, RecordInv
<1>3. CASE location.move = Move!NoMove /\ ~location.established
  <2>1. i = "db" /\ written[i] = 1
    BY <1>3 DEF DataInv, NothingStored, Move!Items
  <2> QED
    BY <1>3, <2>1 DEF DataInv, NothingStored
<1> QED
  BY <1>1, <1>2, <1>3

LEMMA MoveServesTheData ==
  ASSUME MoveInv
  PROVE  Move!ServesTheData
<1> USE HostAssumption DEF MoveInv, Move!Source, Move!Target, Move!ID, Pending
<1> SUFFICES ASSUME NEW p \in Starters, at[p].step = "serving"
             PROVE  /\ \A i \in Move!Items : disk[at[p].dir].items[i] = written[i]
                    /\ \A q \in Starters : at[q].step = "serving" => q = p
  BY DEF Move!ServesTheData
<1>1. location.established /\ location.move = Move!NoMove /\ location.dir = at[p].dir
  BY DEF LeaseInv
<1>2. \A i \in Move!Items : disk[at[p].dir].items[i] = written[i]
  BY <1>1 DEF DataInv, Holds
<1>3. \A q \in Starters : at[q].step = "serving" => q = p
  BY <1>1 DEF LeaseInv, Holders
<1> QED
  BY <1>2, <1>3

-----------------------------------------------------------------------------
(* The installation of cores. CoresAreInstalled only says that files are   *)
(* present. What a crash leaves of them depends on what was synced, so the *)
(* invariant says that those of a recorded core are durable, and of each   *)
(* job how much of its core is.                                            *)

Verified == {"archive", "syncArchive", "binary", "syncBinary", "inspect", "persist"}
Durable(d, e) == stored[d][e] = "durable"
Installed(d) == d \in Digests /\ d \in Sound /\ \A e \in Cores!Entries : Durable(d, e)

\* A job has received what it names, and past verification it is sound.
Knows(j) ==
  /\ coreJobs[j].step # "idle" => coreJobs[j].source \in Cores!Sources
  /\ coreJobs[j].step \in Verified \cup {"verify"} => coreJobs[j].digest \in Digests
  /\ coreJobs[j].step \in Verified => coreJobs[j].digest \in Sound

\* The archive is linked, then durable, before the binary is; what is inspected
\* is durable with its directory.
Publishes(j) ==
  LET d == coreJobs[j].digest
  IN /\ coreJobs[j].step \in {"syncArchive", "binary", "syncBinary"} =>
          Cores!Present(d, "directory") /\ Cores!Present(d, "archive")
     /\ coreJobs[j].step \in {"binary", "syncBinary"} => Durable(d, "archive")
     /\ coreJobs[j].step = "syncBinary" => Cores!Present(d, "binary")
     /\ coreJobs[j].step \in {"inspect", "persist"} => Installed(d)

BinariesHaveArchives == \A d \in Digests : Cores!Present(d, "binary") => Durable(d, "archive")
RowsAreInstalled == \A core \in coreRows : Installed(core.digest)
UsesAreRecorded == startups \subseteq coreRows /\ applied \in startups \cup {Cores!NoCore}

CoresInv ==
  /\ Cores!TypeOK /\ \A j \in Jobs : Knows(j) /\ Publishes(j)
  /\ BinariesHaveArchives /\ RowsAreInstalled /\ UsesAreRecorded

\* Between crashes entries only become more durable.
NothingIsRemoved ==
  \A d \in Digests, e \in Cores!Entries : /\ Cores!Present(d, e) => Cores!Present(d, e)'
                                          /\ Durable(d, e) => Durable(d, e)'

-----------------------------------------------------------------------------
(* What publication and sync do to the entries *)

\* A link adds the entries that were absent and touches no other.
LEMMA LinkAdds ==
  ASSUME Cores!TypeOK, NEW d \in Digests, NEW entries \in SUBSET Cores!Entries, Cores!Link(d, entries)
  PROVE  /\ stored' \in [Digests -> [Cores!Entries -> Cores!Levels]]
         /\ NothingIsRemoved
         /\ \A e \in entries : Cores!Present(d, e)'
         /\ \A c \in Digests, e \in Cores!Entries : c # d \/ e \notin entries => stored'[c][e] = stored[c][e]
<1> USE DEF Cores!Link, Cores!TypeOK, Cores!Levels
<1>1. stored' = [stored EXCEPT ![d] =
                   [e \in Cores!Entries |-> IF e \in entries /\ stored[d][e] = "absent" THEN "cached" ELSE stored[d][e]]]
  OBVIOUS
<1>2. stored' \in [Digests -> [Cores!Entries -> Cores!Levels]]
  BY <1>1
<1>3. \A c \in Digests, e \in Cores!Entries :
        stored'[c][e] = IF c = d /\ e \in entries /\ stored[d][e] = "absent" THEN "cached" ELSE stored[c][e]
  BY <1>1
<1> QED
  BY <1>2, <1>3 DEF NothingIsRemoved, Cores!Present, Durable

\* A sync makes what is there durable and adds nothing.
LEMMA SyncKeeps ==
  ASSUME Cores!TypeOK, NEW d \in Digests, NEW entries \in SUBSET Cores!Entries,
         Cores!SyncDirectory(d, entries)
  PROVE  /\ stored' \in [Digests -> [Cores!Entries -> Cores!Levels]]
         /\ NothingIsRemoved
         /\ \A e \in entries : Cores!Present(d, e) => Durable(d, e)'
         /\ \A c \in Digests, e \in Cores!Entries : Cores!Present(c, e)' => Cores!Present(c, e)
<1> USE DEF Cores!SyncDirectory, Cores!TypeOK, Cores!Levels
<1>1. stored' = [stored EXCEPT ![d] =
                   [e \in Cores!Entries |-> IF e \in entries /\ stored[d][e] = "cached" THEN "durable" ELSE stored[d][e]]]
  OBVIOUS
<1>2. stored' \in [Digests -> [Cores!Entries -> Cores!Levels]]
  BY <1>1
<1>3. \A c \in Digests, e \in Cores!Entries :
        stored'[c][e] = IF c = d /\ e \in entries /\ stored[d][e] = "cached" THEN "durable" ELSE stored[c][e]
  BY <1>1
<1> QED
  BY <1>2, <1>3 DEF NothingIsRemoved, Cores!Present, Durable

\* While nothing is removed an installed core stays so, and a job that makes no
\* step keeps what the invariant says of it.
LEMMA InstalledStays ==
  ASSUME NothingIsRemoved, NEW d, Installed(d)
  PROVE  Installed(d)'
BY DEF Installed, NothingIsRemoved

LEMMA OthersKeep ==
  ASSUME NothingIsRemoved, NEW j \in Jobs, Knows(j), Publishes(j), coreJobs'[j] = coreJobs[j]
  PROVE  Knows(j)' /\ Publishes(j)'
<1> DEFINE d == coreJobs[j].digest
<1>1. Knows(j)'
  BY DEF Knows
<1>2. d' = d /\ coreJobs'[j].step = coreJobs[j].step
  OBVIOUS
<1>3. CASE coreJobs[j].step \in {"syncArchive", "binary", "syncBinary"}
  <2>1. d \in Digests
    BY <1>3 DEF Knows, Verified
  <2> QED
    BY <1>1, <1>2, <1>3, <2>1 DEF Publishes, NothingIsRemoved, Cores!Entries
<1>4. CASE coreJobs[j].step \in {"inspect", "persist"}
  BY <1>1, <1>2, <1>4 DEF Publishes, NothingIsRemoved, Installed
<1> QED
  BY <1>1, <1>2, <1>3, <1>4 DEF Publishes

\* A job that is idle or has not yet verified promises nothing of the disk.
LEMMA EarlyPromisesNothing ==
  ASSUME NEW j \in Jobs, coreJobs[j].step \notin Verified \ {"archive"}
  PROVE  Publishes(j)
BY DEF Publishes, Verified

-----------------------------------------------------------------------------
(* The steps *)

\* A step that leaves the disk as it is and moves at most one job, to a step
\* that promises no more than before.
LEMMA QuietKeeps ==
  ASSUME CoresInv, UNCHANGED stored
  PROVE  /\ NothingIsRemoved /\ BinariesHaveArchives'
         /\ \A core \in coreRows : Installed(core.digest)'
<1>1. NothingIsRemoved
  BY DEF NothingIsRemoved, Cores!Present, Durable
<1>2. BinariesHaveArchives'
  BY DEF CoresInv, BinariesHaveArchives, Cores!Present, Durable
<1> QED
  BY <1>1, <1>2 DEF CoresInv, RowsAreInstalled, Installed, Durable

\* The steps of one job.
LEMMA InstallKeeps ==
  ASSUME CoresInv, NEW j \in Jobs, Cores!InstallStep(j)
  PROVE  CoresInv'
<1>0. PICK d : d = coreJobs[j].digest
  OBVIOUS
<1> USE <1>0 DEF CoresInv, Cores!Go
<1>1. \A k \in Jobs \ {j} : coreJobs'[k] = coreJobs[k]
  BY DEF Cores!TypeOK, Cores!InstallStep, Cores!StageUpload, Cores!Receive, Cores!Verify,
     Cores!PublishArchive, Cores!SyncArchive, Cores!PublishBinary, Cores!SyncBinary,
     Cores!Inspect, Cores!Persist, Cores!Fail
<1>2. ASSUME Cores!TypeOK', NothingIsRemoved, BinariesHaveArchives', Knows(j)', Publishes(j)',
             UNCHANGED <<coreRows, startups, applied>>
      PROVE  CoresInv'
  <2>1. \A k \in Jobs \ {j} : (Knows(k) /\ Publishes(k))'
    BY <1>1, <1>2, OthersKeep
  <2>2. RowsAreInstalled'
    BY <1>2, InstalledStays DEF RowsAreInstalled
  <2>3. UsesAreRecorded'
    BY <1>2 DEF UsesAreRecorded
  <2> QED
    BY <1>2, <2>1, <2>2, <2>3
<1>3. CASE Cores!StageUpload(j)
  <2>1. Cores!TypeOK' /\ Knows(j)' /\ Publishes(j)'
    BY <1>3, EarlyPromisesNothing DEF Cores!StageUpload, Cores!TypeOK, Cores!Steps, Knows,
       Publishes, Verified
  <2> QED
    BY <1>2, <1>3, <2>1, QuietKeeps DEF Cores!StageUpload
<1>4. CASE Cores!Receive(j)
  <2>1. Cores!TypeOK' /\ Knows(j)' /\ Publishes(j)'
    BY <1>4 DEF Cores!Receive, Cores!TypeOK, Cores!Steps, Knows, Publishes, Verified
  <2> QED
    BY <1>2, <1>4, <2>1, QuietKeeps DEF Cores!Receive
<1>5. CASE Cores!Verify(j)
  <2>1. Cores!TypeOK' /\ Knows(j)' /\ Publishes(j)'
    BY <1>5 DEF Cores!Verify, Cores!TypeOK, Cores!Steps, Knows, Publishes, Verified
  <2> QED
    BY <1>2, <1>5, <2>1, QuietKeeps DEF Cores!Verify
<1>6. CASE Cores!PublishArchive(j)
  <2>1. d \in Digests /\ d \in Sound /\ coreJobs[j].source \in Cores!Sources
    BY <1>6 DEF Cores!PublishArchive, Knows, Verified
  <2>2. Cores!Link(d, {"directory", "archive"}) /\ {"directory", "archive"} \in SUBSET Cores!Entries
    BY <1>6 DEF Cores!PublishArchive, Cores!Entries
  <2>3. /\ stored' \in [Digests -> [Cores!Entries -> Cores!Levels]] /\ NothingIsRemoved
        /\ Cores!Present(d, "directory")' /\ Cores!Present(d, "archive")'
        /\ \A c \in Digests : stored'[c]["binary"] = stored[c]["binary"]
    <3>1. /\ stored' \in [Digests -> [Cores!Entries -> Cores!Levels]]
          /\ NothingIsRemoved
          /\ \A e \in {"directory", "archive"} : Cores!Present(d, e)'
          /\ \A c \in Digests, e \in Cores!Entries : c # d \/ e \notin {"directory", "archive"} => stored'[c][e] = stored[c][e]
      BY <2>1, <2>2, LinkAdds
    <3> QED
      BY <2>1, <3>1 DEF Cores!Entries, NothingIsRemoved
  <2>4. BinariesHaveArchives'
    BY <2>3 DEF BinariesHaveArchives, NothingIsRemoved, Cores!Present, Cores!Entries
  <2>5. coreJobs' = [coreJobs EXCEPT ![j].step = "syncArchive"] /\ coreJobs'[j].digest = d
        /\ coreJobs'[j].step = "syncArchive" /\ coreJobs'[j].source = coreJobs[j].source
    BY <1>6 DEF Cores!PublishArchive, Cores!TypeOK
  <2>6. Cores!TypeOK'
    BY <1>6, <2>3, <2>5 DEF Cores!PublishArchive, Cores!TypeOK, Cores!Steps
  <2>7. Knows(j)' /\ Publishes(j)'
    BY <2>1, <2>3, <2>5 DEF Knows, Publishes, Cores!Present, Verified
  <2> QED
    BY <1>2, <1>6, <2>3, <2>4, <2>6, <2>7 DEF Cores!PublishArchive
<1>7. CASE Cores!SyncArchive(j)
  <2>1. /\ d \in Digests /\ d \in Sound /\ coreJobs[j].source \in Cores!Sources
        /\ Cores!Present(d, "directory") /\ Cores!Present(d, "archive")
    BY <1>7 DEF Cores!SyncArchive, Knows, Publishes, Verified
  <2>2. /\ Cores!SyncDirectory(d, {"archive", "binary"})
        /\ {"archive", "binary"} \in SUBSET Cores!Entries
    BY <1>7 DEF Cores!SyncArchive, Cores!Entries
  <2>3. /\ stored' \in [Digests -> [Cores!Entries -> Cores!Levels]] /\ NothingIsRemoved
        /\ Cores!Present(d, "directory")' /\ Durable(d, "archive")' /\ Cores!Present(d, "archive")'
        /\ \A c \in Digests : Cores!Present(c, "binary")' => Cores!Present(c, "binary")
    <3>1. /\ stored' \in [Digests -> [Cores!Entries -> Cores!Levels]]
          /\ NothingIsRemoved
          /\ \A e \in {"archive", "binary"} : Cores!Present(d, e) => Durable(d, e)'
          /\ \A c \in Digests, e \in Cores!Entries : Cores!Present(c, e)' => Cores!Present(c, e)
      BY <2>1, <2>2, SyncKeeps
    <3> QED
      BY <2>1, <3>1 DEF Cores!Entries, NothingIsRemoved
  <2>4. BinariesHaveArchives'
    BY <2>3 DEF BinariesHaveArchives, NothingIsRemoved, Cores!Entries
  <2>5. coreJobs' = [coreJobs EXCEPT ![j].step = "binary"] /\ coreJobs'[j].digest = d
        /\ coreJobs'[j].step = "binary" /\ coreJobs'[j].source = coreJobs[j].source
    BY <1>7 DEF Cores!SyncArchive, Cores!TypeOK
  <2>6. Cores!TypeOK'
    BY <1>7, <2>3, <2>5 DEF Cores!SyncArchive, Cores!TypeOK, Cores!Steps
  <2>7. Knows(j)' /\ Publishes(j)'
    BY <2>1, <2>3, <2>5 DEF Knows, Publishes, Cores!Present, Durable, Verified
  <2> QED
    BY <1>2, <1>7, <2>3, <2>4, <2>6, <2>7 DEF Cores!SyncArchive
<1>8. CASE Cores!PublishBinary(j)
  <2>1. /\ d \in Digests /\ d \in Sound /\ coreJobs[j].source \in Cores!Sources
        /\ Cores!Present(d, "directory") /\ Cores!Present(d, "archive") /\ Durable(d, "archive")
    BY <1>8 DEF Cores!PublishBinary, Knows, Publishes, Verified
  <2>2. Cores!Link(d, {"binary"}) /\ {"binary"} \in SUBSET Cores!Entries
    BY <1>8 DEF Cores!PublishBinary, Cores!Entries
  <2>3. /\ stored' \in [Digests -> [Cores!Entries -> Cores!Levels]] /\ NothingIsRemoved
        /\ Cores!Present(d, "directory")' /\ Durable(d, "archive")'
        /\ Cores!Present(d, "archive")' /\ Cores!Present(d, "binary")'
        /\ \A c \in Digests \ {d} : stored'[c]["binary"] = stored[c]["binary"]
    <3>1. /\ stored' \in [Digests -> [Cores!Entries -> Cores!Levels]]
          /\ NothingIsRemoved
          /\ \A e \in {"binary"} : Cores!Present(d, e)'
          /\ \A c \in Digests, e \in Cores!Entries : c # d \/ e \notin {"binary"} => stored'[c][e] = stored[c][e]
      BY <2>1, <2>2, LinkAdds
    <3> QED
      BY <2>1, <3>1 DEF Cores!Entries, NothingIsRemoved
  <2>4. BinariesHaveArchives'
    BY <2>3 DEF BinariesHaveArchives, NothingIsRemoved, Cores!Present, Cores!Entries
  <2>5. coreJobs' = [coreJobs EXCEPT ![j].step = "syncBinary"] /\ coreJobs'[j].digest = d
        /\ coreJobs'[j].step = "syncBinary" /\ coreJobs'[j].source = coreJobs[j].source
    BY <1>8 DEF Cores!PublishBinary, Cores!TypeOK
  <2>6. Cores!TypeOK'
    BY <1>8, <2>3, <2>5 DEF Cores!PublishBinary, Cores!TypeOK, Cores!Steps
  <2>7. Knows(j)' /\ Publishes(j)'
    BY <2>1, <2>3, <2>5 DEF Knows, Publishes, Cores!Present, Durable, Verified
  <2> QED
    BY <1>2, <1>8, <2>3, <2>4, <2>6, <2>7 DEF Cores!PublishBinary
<1>9. CASE Cores!SyncBinary(j)
  <2>1. /\ d \in Digests /\ d \in Sound /\ coreJobs[j].source \in Cores!Sources
        /\ \A e \in Cores!Entries : Cores!Present(d, e)
    BY <1>9 DEF Cores!SyncBinary, Knows, Publishes, Verified, Cores!Entries
  <2>2. Cores!SyncDirectory(d, Cores!Entries)
    BY <1>9 DEF Cores!SyncBinary
  <2>3. /\ stored' \in [Digests -> [Cores!Entries -> Cores!Levels]] /\ NothingIsRemoved
        /\ \A e \in Cores!Entries : Durable(d, e)'
        /\ \A c \in Digests : Cores!Present(c, "binary")' => Cores!Present(c, "binary")
    <3>1. /\ stored' \in [Digests -> [Cores!Entries -> Cores!Levels]]
          /\ NothingIsRemoved
          /\ \A e \in Cores!Entries : Cores!Present(d, e) => Durable(d, e)'
          /\ \A c \in Digests, e \in Cores!Entries : Cores!Present(c, e)' => Cores!Present(c, e)
      BY <2>1, <2>2, SyncKeeps
    <3> QED
      BY <2>1, <3>1 DEF Cores!Entries, NothingIsRemoved
  <2>4. BinariesHaveArchives'
    BY <2>3 DEF BinariesHaveArchives, NothingIsRemoved, Cores!Entries
  <2>5. coreJobs' = [coreJobs EXCEPT ![j].step = "inspect"] /\ coreJobs'[j].digest = d
        /\ coreJobs'[j].step = "inspect" /\ coreJobs'[j].source = coreJobs[j].source
    BY <1>9 DEF Cores!SyncBinary, Cores!TypeOK
  <2>6. Cores!TypeOK'
    BY <1>9, <2>3, <2>5 DEF Cores!SyncBinary, Cores!TypeOK, Cores!Steps
  <2>7. Knows(j)' /\ Publishes(j)'
    BY <2>1, <2>3, <2>5 DEF Knows, Publishes, Installed, Durable, Verified
  <2> QED
    BY <1>2, <1>9, <2>3, <2>4, <2>6, <2>7 DEF Cores!SyncBinary
<1>10. CASE Cores!Inspect(j)
  <2>1. Cores!TypeOK' /\ Knows(j)' /\ Publishes(j)'
    BY <1>10 DEF Cores!Inspect, Cores!TypeOK, Cores!Steps, Knows, Publishes, Installed, Durable,
       Verified
  <2> QED
    BY <1>2, <1>10, <2>1, QuietKeeps DEF Cores!Inspect
<1>11. CASE Cores!Persist(j)
  <2> DEFINE core == Cores!Core(coreJobs[j].source, d)
  <2>1. Installed(d) /\ d \in Digests /\ coreJobs[j].source \in Cores!Sources
    BY <1>11 DEF Cores!Persist, Knows, Publishes, Verified
  <2>2. coreRows' = coreRows \cup {core} /\ core \in Cores!Cores /\ core.digest = d
    BY <1>11, <2>1 DEF Cores!Persist, Cores!Core, Cores!Cores
  <2>3. coreJobs' = [coreJobs EXCEPT ![j] = Cores!Idle] /\ coreJobs'[j].step = "idle"
    BY <1>11 DEF Cores!Persist, Cores!TypeOK, Cores!Idle
  <2>4. Cores!TypeOK'
    BY <1>11, <2>2, <2>3 DEF Cores!Persist, Cores!TypeOK, Cores!Steps, Cores!Idle
  <2>5. NothingIsRemoved /\ BinariesHaveArchives' /\ \A c \in coreRows : Installed(c.digest)'
    BY <1>11, QuietKeeps DEF Cores!Persist
  <2>6. RowsAreInstalled'
    BY <2>1, <2>2, <2>5, InstalledStays DEF RowsAreInstalled
  <2>7. UsesAreRecorded'
    BY <1>11, <2>2 DEF UsesAreRecorded, Cores!Persist
  <2>8. \A k \in Jobs : (Knows(k) /\ Publishes(k))'
    <3>1. (Knows(j) /\ Publishes(j))'
      BY <2>3 DEF Knows, Publishes, Verified
    <3> QED
      BY <1>1, <2>5, <3>1, OthersKeep
  <2> QED
    BY <2>4, <2>5, <2>6, <2>7, <2>8
<1>12. CASE Cores!Fail(j)
  <2>1. Cores!TypeOK' /\ Knows(j)' /\ Publishes(j)'
    BY <1>12 DEF Cores!Fail, Cores!TypeOK, Cores!Steps, Cores!Idle, Knows, Publishes, Verified
  <2> QED
    BY <1>2, <1>12, <2>1, QuietKeeps DEF Cores!Fail
<1> QED
  BY <1>3, <1>4, <1>5, <1>6, <1>7, <1>8, <1>9, <1>10, <1>11, <1>12 DEF Cores!InstallStep

\* A power failure leaves the cores whole whose entries were durable, and takes a
\* binary before it takes its archive.
LEMMA CrashKeeps ==
  ASSUME CoresInv, Cores!Crash
  PROVE  CoresInv'
<1> USE DEF CoresInv
<1>1. PICK left \in [Digests -> [Cores!Entries -> Cores!Levels]] :
        (\A d \in Digests : Cores!Survives(stored[d], left[d])) /\ stored' = left
  BY DEF Cores!Crash
<1>2. Cores!TypeOK'
  BY <1>1 DEF Cores!Crash, Cores!TypeOK, Cores!Idle, Cores!Steps
<1>3. \A j \in Jobs : (Knows(j) /\ Publishes(j))'
  BY DEF Cores!Crash, Cores!Idle, Knows, Publishes, Verified
<1>4. ASSUME NEW d \in Digests, Cores!Present(d, "binary")' PROVE Durable(d, "archive")'
  <2>1. Cores!Survives(stored[d], stored'[d])
    BY <1>1
  <2>2. stored'[d]["binary"] # "absent"
    BY <1>4 DEF Cores!Present
  <2>3. Cores!Present(d, "binary")
    BY <2>1, <2>2 DEF Cores!Survives, Cores!Present, Cores!Entries
  <2>4. stored[d]["archive"] = "durable"
    BY <2>3 DEF BinariesHaveArchives, Durable
  <2> QED
    BY <2>1, <2>2, <2>4 DEF Cores!Survives, Durable, Cores!Entries
<1>5. ASSUME NEW d, Installed(d) PROVE Installed(d)'
  <2>1. Cores!Survives(stored[d], stored'[d]) /\ \A e \in Cores!Entries : stored[d][e] = "durable"
    BY <1>1, <1>5 DEF Installed, Durable
  <2>2. \A e \in Cores!Entries : stored'[d][e] = "durable"
    BY <2>1 DEF Cores!Survives, Cores!Entries
  <2> QED
    BY <1>5, <2>2 DEF Installed, Durable
<1>6. RowsAreInstalled'
  BY <1>5 DEF RowsAreInstalled, Cores!Crash
<1>7. UsesAreRecorded'
  BY DEF UsesAreRecorded, Cores!Crash
<1> QED
  BY <1>2, <1>3, <1>4, <1>6, <1>7 DEF BinariesHaveArchives

\* The steps outside of jobs leave the disk as it is.
LEMMA UseKeeps ==
  ASSUME CoresInv, [Cores!Next]_(Cores!coreVars), ~Cores!Crash, ~\E j \in Jobs : Cores!InstallStep(j)
  PROVE  CoresInv'
<1> USE DEF CoresInv
<1>1. UNCHANGED stored
  BY DEF Cores!Next, Cores!coreVars, Cores!Install, Cores!Import, Cores!RemoveCoreArtifact,
     Cores!CreateStartupArtifact, Cores!Apply, Cores!SyncEnabledCoreLink, Cores!Boot
<1>2. NothingIsRemoved /\ BinariesHaveArchives' /\ \A core \in coreRows : Installed(core.digest)'
  BY <1>1, QuietKeeps
<1>3. ASSUME Cores!TypeOK', \A j \in Jobs : coreJobs'[j] = coreJobs[j], coreRows' \subseteq coreRows, UsesAreRecorded'
      PROVE  CoresInv'
  <2>1. \A j \in Jobs : (Knows(j) /\ Publishes(j))'
    BY <1>2, <1>3, OthersKeep
  <2>2. RowsAreInstalled'
    BY <1>2, <1>3 DEF RowsAreInstalled
  <2> QED
    BY <1>2, <1>3, <2>1, <2>2
<1>4. ASSUME NEW j \in Jobs, NEW source \in Cores!Sources, NEW step \in {"receive", "upload"},
             coreJobs' = [coreJobs EXCEPT ![j] = [Cores!Idle EXCEPT !.step = step, !.source = source]],
             uploads' \subseteq Jobs, UNCHANGED <<running, stored, coreRows, startups, applied, link, crashes>>
      PROVE  CoresInv'
  <2>1. Cores!TypeOK'
    BY <1>4 DEF Cores!TypeOK, Cores!Idle, Cores!Steps
  <2>2. (Knows(j) /\ Publishes(j))'
    BY <1>4 DEF Cores!TypeOK, Cores!Idle, Knows, Publishes, Verified
  <2>3. \A k \in Jobs \ {j} : (Knows(k) /\ Publishes(k))'
    BY <1>2, <1>4, OthersKeep DEF Cores!TypeOK
  <2>4. RowsAreInstalled' /\ UsesAreRecorded'
    BY <1>2, <1>4 DEF RowsAreInstalled, UsesAreRecorded
  <2> QED
    BY <1>2, <2>1, <2>2, <2>3, <2>4
<1>5. ASSUME NEW j \in Jobs, NEW asset \in Assets, Cores!Install(j, asset) PROVE CoresInv'
  <2>1. asset \in Cores!Sources /\ uploads' \subseteq Jobs
    BY <1>5 DEF Cores!Sources, Cores!Install, Cores!TypeOK
  <2> QED
    BY <1>4, <1>5, <2>1 DEF Cores!Install
<1>6. ASSUME NEW j \in Jobs, NEW source \in UserSources, Cores!Import(j, source) PROVE CoresInv'
  <2>1. source \in Cores!Sources /\ uploads' \subseteq Jobs
    BY <1>6 DEF Cores!Sources, Cores!Import, Cores!TypeOK
  <2> QED
    BY <1>4, <1>6, <2>1 DEF Cores!Import
<1>7. ASSUME NEW core \in Cores!Cores, Cores!RemoveCoreArtifact(core) PROVE CoresInv'
  BY <1>3, <1>7 DEF Cores!RemoveCoreArtifact, Cores!TypeOK, UsesAreRecorded
<1>8. ASSUME NEW core \in Cores!Cores, Cores!CreateStartupArtifact(core) PROVE CoresInv'
  BY <1>3, <1>8 DEF Cores!CreateStartupArtifact, Cores!TypeOK, UsesAreRecorded
<1>9. ASSUME NEW core \in Cores!Cores \cup {Cores!NoCore}, Cores!Apply(core) PROVE CoresInv'
  BY <1>3, <1>9 DEF Cores!Apply, Cores!TypeOK, UsesAreRecorded
<1>10. ASSUME UNCHANGED <<stored, coreRows, startups, applied, coreJobs, crashes>>, running' \in BOOLEAN,
              link' \in {applied.digest, link}, uploads' \subseteq uploads
       PROVE  CoresInv'
  <2>1. applied.digest \in Digests \cup {NoDigest}
    BY DEF Cores!TypeOK, Cores!Cores, Cores!NoCore, Cores!Core
  <2>2. Cores!TypeOK'
    BY <1>10, <2>1 DEF Cores!TypeOK
  <2> QED
    BY <1>3, <1>10, <2>2 DEF UsesAreRecorded
<1>11. CASE Cores!SyncEnabledCoreLink
  BY <1>10, <1>11 DEF Cores!SyncEnabledCoreLink, Cores!TypeOK
<1>12. CASE Cores!Boot
  BY <1>10, <1>12 DEF Cores!Boot
<1>13. CASE UNCHANGED Cores!coreVars
  BY <1>10, <1>13 DEF Cores!coreVars, Cores!TypeOK
<1> QED
  BY <1>5, <1>6, <1>7, <1>8, <1>9, <1>11, <1>12, <1>13 DEF Cores!Next

-----------------------------------------------------------------------------
(***************************************************************************)
(* With any number of jobs, digests and crashes, every core that is on     *)
(* record is sound and durable, of every job it is known what it has made  *)
(* durable, and no binary is without its archive.                          *)
(***************************************************************************)
THEOREM CoresInvariant == Cores!Spec => []CoresInv
<1>1. Cores!Init => CoresInv
  BY DEF Cores!Init, CoresInv, Cores!TypeOK, Cores!Entries, Cores!Levels, Cores!Idle,
     Cores!Steps, Cores!NoCore, Cores!Core, Knows, Publishes, BinariesHaveArchives,
     RowsAreInstalled, UsesAreRecorded, Cores!Present, Verified
<1>2. CoresInv /\ [Cores!Next]_(Cores!coreVars) => CoresInv'
  BY InstallKeeps, CrashKeeps, UseKeeps
<1> QED
  BY <1>1, <1>2, PTL DEF Cores!Spec

(***************************************************************************)
(* Every core that the database offers, a startup artifact needs or the    *)
(* panel applies is verified and installed with its archive, also after a  *)
(* power failure at any step (artifactstore.publishFile, syncDirectory).   *)
(***************************************************************************)
THEOREM CoresStayInstalled == Cores!Spec => []Cores!CoresAreInstalled
<1>1. CoresInv => Cores!CoresAreInstalled
  <2> SUFFICES ASSUME CoresInv PROVE Cores!CoresAreInstalled
    OBVIOUS
  <2> USE DEF CoresInv
  <2>1. startups \subseteq coreRows /\ applied \in coreRows \cup {Cores!NoCore}
    BY DEF UsesAreRecorded
  <2>2. \A core \in coreRows : core.digest \in Sound /\ \A e \in Cores!Entries : Cores!Present(core.digest, e)
    BY DEF RowsAreInstalled, Installed, Durable, Cores!Present
  <2>3. \A d \in Digests : stored[d]["binary"] = "durable" => stored[d]["archive"] = "durable"
    BY DEF BinariesHaveArchives, Cores!Present, Durable
  <2> QED
    BY <2>1, <2>2, <2>3 DEF Cores!CoresAreInstalled
<1> QED
  BY <1>1, CoresInvariant, PTL

-----------------------------------------------------------------------------
(* Updates of the panel. Each step of an updater checks one thing, and     *)
(* what it has checked stays true because the steps that could change it   *)
(* need the lock; only an operator does not ask for it, whom blind records.*)

\* What an executable can be.
Builds == Update!Images \cup {Update!Dev, Update!Garbled}

UpdateTypes ==
  /\ releases.latest \in 0 .. MaxVersion
  /\ releases.files \in [Update!Versions -> [Update!Files -> 0 .. 2]]
  /\ releases = [latest |-> releases.latest, files |-> releases.files]
  /\ executable \in [image : Builds, synced : BOOLEAN]
  /\ durable \in [image : Builds, synced : BOOLEAN]
  /\ updateLock \in Updaters \cup {NoUpdater} /\ updateStep \in [Updaters -> Update!Steps]
  /\ own \in [Updaters -> 0 .. MaxVersion] /\ resolvedTag \in [Updaters -> 0 .. MaxVersion]
  /\ expected \in [Updaters -> Update!Images \cup {Update!Nothing}]
  /\ seen \in [Updaters -> Builds \cup {Update!Nothing}]
  /\ staged \in [Updaters -> [image : Update!Images \cup {Update!Garbled, Update!Nothing}, synced : BOOLEAN]]
  /\ blind \subseteq Updaters

\* Past a step everything that it has checked still holds.
Resolved == {"verify", "hash", "lock", "recheck", "confirm", "download", "stage", "compare", "install", "sync"}
Signed == Resolved \ {"verify"}
Locking == Signed \ {"hash", "lock"}
Received == {"stage", "compare", "install"}
Accepted == {"compare", "install"}

\* The release is newer, the checksums are signed for it, the lock is held, the
\* staged file is the signed program, whole and of this platform, and the
\* executable is still the hashed one unless an operator came in between.
UpdaterInv(p) ==
  /\ updateStep[p] \in Resolved => own[p] < resolvedTag[p]
  /\ updateStep[p] \in Signed => expected[p] \in Update!Images /\ expected[p].version = resolvedTag[p]
  /\ updateStep[p] \in Locking => updateLock = p
  /\ updateStep[p] \in Received => staged[p].image = expected[p]
  /\ updateStep[p] \in Accepted => /\ staged[p].synced
                                   /\ <<staged[p].image.version, staged[p].image.build>> \notin Misbuilt
  /\ updateStep[p] = "install" => p \in blind \/ executable.image = seen[p]

UpdateInv == UpdateTypes /\ \A p \in Updaters : UpdaterInv(p)

\* What UpdatesReplaceWhatTheySaw says of one step.
InstallsRight ==
  \A p \in Updaters : updateStep[p] = "install" /\ updateStep'[p] = "sync" =>
    /\ executable'.synced /\ executable'.image \in Update!Images
    /\ <<executable'.image.version, executable'.image.build>> \notin Misbuilt
    /\ executable'.image.version > own[p]
    /\ p \in blind \/ executable.image = seen[p]

\* The images of releases name their release and build, and no other is one.
LEMMA ImageTypes ==
  /\ \A i \in Update!Images :
       i.version \in Update!Versions /\ i.build \in 1 .. 2 /\ i = Update!Image(i.version, i.build)
  /\ \A v \in Update!Versions, b \in 1 .. 2 : Update!Image(v, b) \in Update!Images /\ Update!Image(v, b).version = v
  /\ Update!Dev \notin Update!Images /\ Update!Garbled \notin Update!Images
  /\ Update!Nothing \notin Update!Images
<1>1. ASSUME NEW i \in Update!Images
      PROVE  /\ i.version \in Update!Versions /\ i.build \in 1 .. 2
             /\ i = Update!Image(i.version, i.build)
  <2>1. PICK v \in Update!Versions, b \in 1 .. 2 : i = Update!Image(v, b)
    BY DEF Update!Images
  <2> QED
    BY <2>1 DEF Update!Image
<1>2. \A v \in Update!Versions, b \in 1 .. 2 : Update!Image(v, b) \in Update!Images /\ Update!Image(v, b).version = v
  BY DEF Update!Images, Update!Image
<1>3. 0 \notin Update!Versions
  BY DEF Update!Versions
<1>4. Update!Dev.version = 0 /\ Update!Garbled.version = 0 /\ Update!Nothing.version = 0
  BY DEF Update!Dev, Update!Garbled, Update!Nothing, Update!Image
<1> QED
  BY <1>1, <1>2, <1>3, <1>4

\* A step of one updater that leaves the executable and the others alone.
LEMMA BystanderKeeps ==
  ASSUME UpdateInv, NEW p \in Updaters, NEW q \in Updaters \ {p},
         updateStep'[q] = updateStep[q], own'[q] = own[q], resolvedTag'[q] = resolvedTag[q], expected'[q] = expected[q],
         seen'[q] = seen[q], staged'[q] = staged[q], q \in blind' <=> q \in blind,
         updateLock = q => updateLock' = q, executable' = executable
  PROVE  UpdaterInv(q)'
BY DEF UpdateInv, UpdaterInv

\* What a step of p may change of the updaters: its own.
Alone(p) ==
  \A q \in Updaters \ {p} :
    /\ updateStep'[q] = updateStep[q] /\ own'[q] = own[q] /\ resolvedTag'[q] = resolvedTag[q]
    /\ expected'[q] = expected[q]
    /\ seen'[q] = seen[q] /\ staged'[q] = staged[q] /\ (q \in blind' <=> q \in blind)
    /\ updateLock = q => updateLock' = q

\* An update that ends forgets all it has found out and releases the lock.
LEMMA ReturnKeeps ==
  ASSUME UpdateInv, NEW p \in Updaters, Update!Return(p), UNCHANGED <<Update!world, executable>>,
         durable' \in [image : Builds, synced : BOOLEAN]
  PROVE  UpdateInv'
<1>1. /\ updateStep' = [updateStep EXCEPT ![p] = "idle"] /\ Update!Reset(p)
      /\ updateLock' = IF updateLock = p THEN NoUpdater ELSE updateLock
  BY DEF Update!Return, Update!Go, Update!Close
<1>2. UpdateTypes'
  BY HostAssumption, <1>1 DEF UpdateInv, UpdateTypes, Update!Reset, Update!Stored, Update!Steps,
     Update!world
<1>3. updateStep'[p] = "idle"
  BY <1>1 DEF UpdateInv, UpdateTypes
<1>4. UpdaterInv(p)'
  BY <1>3 DEF UpdaterInv, Resolved, Signed, Locking, Received, Accepted
<1>5. Alone(p)
  BY <1>1 DEF Alone, Update!Reset, UpdateInv, UpdateTypes
<1>6. \A q \in Updaters \ {p} : UpdaterInv(q)'
  BY <1>5, BystanderKeeps DEF Alone
<1> QED
  BY <1>2, <1>4, <1>6 DEF UpdateInv

\* What has been downloaded and verified is the digest of a build of that release.
LEMMA SignedChecksums ==
  ASSUME UpdateTypes, NEW tag, NEW checksums \in Update!DownloadChecksums, NEW signature \in Update!DownloadSignature,
         Update!Verify(tag, checksums, signature)
  PROVE  checksums \in Update!Images /\ checksums.version = tag
<1>1. tag \in Update!Versions /\ signature = <<tag, checksums>>
  BY DEF Update!Verify, Update!ValidateVersion, Update!Sign
<1>2. signature # <<0, Update!Garbled>>
  BY <1>1 DEF Update!Versions
<1>3. PICK r \in Update!Served("signature") : signature = <<r[1], Update!Image(r[1], r[2])>>
  BY <1>2 DEF Update!DownloadSignature, Update!Sign, Update!Checksums
<1>4. r[1] \in Update!Versions /\ r[2] \in 1 .. 2
  BY DEF Update!Served, UpdateTypes, Update!Files
<1>5. tag = r[1] /\ checksums = Update!Image(r[1], r[2])
  BY <1>1, <1>3
<1> QED
  BY <1>4, <1>5, ImageTypes

\* The steps of one updater.
UpdaterStep(p) ==
  \/ Update!Start(p) \/ Update!Resolve(p) \/ Update!VerifyRelease(p) \/ Update!Hash(p)
  \/ Update!AcquireUpdateLock(p) \/ Update!Recheck(p) \/ Update!Confirm(p) \/ Update!Download(p)
  \/ Update!Stage(p) \/ Update!Compare(p) \/ Update!Install(p) \/ Update!SyncDirectory(p)
  \/ Update!Abandon(p)

\* Each keeps the invariant, and an installation is right.
LEMMA UpdaterSteps ==
  ASSUME UpdateInv, NEW p \in Updaters, UpdaterStep(p)
  PROVE  UpdateInv' /\ InstallsRight
<1> USE DEF Update!Go, Update!process
<1>1. UpdateTypes /\ UpdaterInv(p) /\ MaxVersion \in Nat
  BY HostAssumption DEF UpdateInv
<1>2. ASSUME updateStep' = [updateStep EXCEPT ![p] = updateStep'[p]],
             ~(updateStep[p] = "install" /\ updateStep'[p] = "sync")
      PROVE  InstallsRight
  BY <1>1, <1>2 DEF InstallsRight, UpdateTypes
<1>3. ASSUME Update!Return(p), UNCHANGED <<Update!world, executable>>, durable' \in {durable, executable}
      PROVE  UpdateInv' /\ InstallsRight
  <2>1. UpdateInv'
    BY <1>1, <1>3, ReturnKeeps DEF UpdateTypes
  <2>2. updateStep' = [updateStep EXCEPT ![p] = "idle"]
    BY <1>3 DEF Update!Return
  <2> QED
    BY <1>1, <1>2, <2>1, <2>2 DEF UpdateTypes
<1>4. ASSUME UNCHANGED <<Update!world, executable, durable>>, Alone(p), UpdateTypes', UpdaterInv(p)' PROVE UpdateInv'
  BY <1>4, BystanderKeeps DEF Alone, UpdateInv
<1>5. CASE Update!Start(p)
  <2>1. UpdateTypes'
    BY <1>1, <1>5 DEF Update!Start, UpdateTypes, Update!ValidateVersion, Update!Versions,
       Update!world, Update!Steps
  <2>2. UpdaterInv(p)' /\ Alone(p)
    BY <1>1, <1>5 DEF Update!Start, UpdateTypes, UpdaterInv, Alone, Resolved, Signed, Locking,
       Received, Accepted
  <2> QED
    BY <1>1, <1>2, <1>4, <1>5, <2>1, <2>2 DEF Update!Start, UpdateTypes
<1>6. CASE Update!Resolve(p)
  <2>1. CASE own[p] < releases.latest /\ Update!FindAsset(releases.latest)
    <3>1. /\ resolvedTag' = [resolvedTag EXCEPT ![p] = releases.latest]
          /\ updateStep' = [updateStep EXCEPT ![p] = "verify"]
          /\ UNCHANGED <<updateLock, own, expected, seen, staged, blind, Update!world, executable, durable>>
      BY <1>6, <2>1 DEF Update!Resolve
    <3>2. UpdateTypes'
      BY <1>1, <3>1 DEF UpdateTypes, Update!world, Update!Steps
    <3>3. UpdaterInv(p)' /\ Alone(p)
      BY <1>1, <2>1, <3>1 DEF UpdateTypes, UpdaterInv, Alone, Resolved, Signed, Locking,
         Received, Accepted
    <3> QED
      BY <1>1, <1>2, <1>4, <3>1, <3>2, <3>3 DEF UpdateTypes
  <2>2. CASE ~(own[p] < releases.latest /\ Update!FindAsset(releases.latest))
    BY <1>3, <1>6, <2>2 DEF Update!Resolve
  <2> QED
    BY <2>1, <2>2
<1>7. CASE Update!VerifyRelease(p)
  <2>1. PICK checksums \in Update!DownloadChecksums, signature \in Update!DownloadSignature :
          IF Update!Verify(resolvedTag[p], checksums, signature)
            THEN /\ expected' = [expected EXCEPT ![p] = checksums] /\ updateStep' = [updateStep EXCEPT ![p] = "hash"]
                 /\ UNCHANGED <<updateLock, own, resolvedTag, seen, staged, blind>>
            ELSE Update!Return(p)
    BY <1>7 DEF Update!VerifyRelease, Update!ParseChecksum
  <2>2. UNCHANGED <<Update!world, executable, durable>> /\ updateStep[p] = "verify"
    BY <1>7 DEF Update!VerifyRelease
  <2>3. CASE Update!Verify(resolvedTag[p], checksums, signature)
    <3>1. /\ expected' = [expected EXCEPT ![p] = checksums]
          /\ updateStep' = [updateStep EXCEPT ![p] = "hash"]
          /\ UNCHANGED <<updateLock, own, resolvedTag, seen, staged, blind>>
      BY <2>1, <2>3
    <3>2. checksums \in Update!Images /\ checksums.version = resolvedTag[p]
      BY <1>1, <2>3, SignedChecksums
    <3>3. UpdateTypes'
      BY <1>1, <2>2, <3>1, <3>2 DEF UpdateTypes, Update!world, Update!Steps
    <3>4. UpdaterInv(p)' /\ Alone(p)
      BY <1>1, <2>2, <3>1, <3>2 DEF UpdateTypes, UpdaterInv, Alone, Resolved, Signed, Locking,
         Received, Accepted
    <3> QED
      BY <1>1, <1>2, <1>4, <2>2, <3>1, <3>3, <3>4 DEF UpdateTypes
  <2>4. CASE ~Update!Verify(resolvedTag[p], checksums, signature)
    BY <1>3, <2>1, <2>2, <2>4
  <2> QED
    BY <2>3, <2>4
<1>8. CASE Update!Hash(p)
  <2>1. UpdateTypes'
    BY <1>1, <1>8 DEF Update!Hash, UpdateTypes, Update!world, Update!Steps
  <2>2. UpdaterInv(p)' /\ Alone(p)
    BY <1>1, <1>8 DEF Update!Hash, UpdateTypes, UpdaterInv, Alone, Resolved, Signed, Locking,
       Received, Accepted
  <2> QED
    BY <1>1, <1>2, <1>4, <1>8, <2>1, <2>2 DEF Update!Hash, UpdateTypes
<1>9. CASE Update!AcquireUpdateLock(p)
  <2>1. UpdateTypes'
    BY <1>1, <1>9 DEF Update!AcquireUpdateLock, UpdateTypes, Update!world, Update!Steps
  <2>2. UpdaterInv(p)' /\ Alone(p)
    BY HostAssumption, <1>1, <1>9 DEF Update!AcquireUpdateLock, UpdateTypes, UpdaterInv, Alone,
       Resolved, Signed, Locking, Received, Accepted
  <2> QED
    BY <1>1, <1>2, <1>4, <1>9, <2>1, <2>2 DEF Update!AcquireUpdateLock, UpdateTypes
<1>10. ASSUME NEW next, Update!RequireExecutableDigest(p, next),
              \/ updateStep[p] = "recheck" /\ next = "confirm"
              \/ updateStep[p] = "compare" /\ next = "install"
       PROVE  UpdateInv' /\ InstallsRight
  <2>1. CASE executable.image = seen[p]
    <3>1. /\ updateStep' = [updateStep EXCEPT ![p] = next] /\ blind' = blind \ {p}
          /\ UNCHANGED <<updateLock, own, resolvedTag, expected, seen, staged, Update!world, executable, durable>>
      BY <1>10, <2>1 DEF Update!RequireExecutableDigest
    <3>2. UpdateTypes'
      BY <1>1, <1>10, <3>1 DEF UpdateTypes, Update!world, Update!Steps
    <3>3. UpdaterInv(p)' /\ Alone(p)
      BY <1>1, <1>10, <2>1, <3>1 DEF UpdateTypes, UpdaterInv, Alone, Resolved, Signed, Locking,
         Received, Accepted
    <3> QED
      BY <1>1, <1>2, <1>4, <1>10, <3>1, <3>2, <3>3 DEF UpdateTypes
  <2>2. CASE executable.image # seen[p]
    BY <1>3, <1>10, <2>2 DEF Update!RequireExecutableDigest
  <2> QED
    BY <2>1, <2>2
<1>11. CASE Update!Recheck(p)
  BY <1>10, <1>11 DEF Update!Recheck
<1>12. CASE Update!Confirm(p)
  <2>1. CASE releases.latest = resolvedTag[p]
    <3>1. /\ updateStep[p] = "confirm" /\ updateStep' = [updateStep EXCEPT ![p] = "download"]
          /\ UNCHANGED <<updateLock, own, resolvedTag, expected, seen, staged, blind, Update!world, executable, durable>>
      BY <1>12, <2>1 DEF Update!Confirm
    <3>2. UpdateTypes'
      BY <1>1, <3>1 DEF UpdateTypes, Update!world, Update!Steps
    <3>3. UpdaterInv(p)' /\ Alone(p)
      BY <1>1, <3>1 DEF UpdateTypes, UpdaterInv, Alone, Resolved, Signed, Locking, Received,
         Accepted
    <3> QED
      BY <1>1, <1>2, <1>4, <3>1, <3>2, <3>3 DEF UpdateTypes
  <2>2. CASE releases.latest # resolvedTag[p]
    BY <1>3, <1>12, <2>2 DEF Update!Confirm
  <2> QED
    BY <2>1, <2>2
<1>13. CASE Update!Download(p)
  <2>1. PICK image \in Update!DownloadFile :
          IF image = expected[p]
            THEN /\ staged' = [staged EXCEPT ![p] = Update!Stored(image, FALSE)]
                 /\ updateStep' = [updateStep EXCEPT ![p] = "stage"]
                 /\ UNCHANGED <<updateLock, own, resolvedTag, expected, seen, blind>>
            ELSE Update!Return(p)
    BY <1>13 DEF Update!Download
  <2>2. UNCHANGED <<Update!world, executable, durable>> /\ updateStep[p] = "download"
    BY <1>13 DEF Update!Download
  <2>3. CASE image = expected[p]
    <3>1. /\ staged' = [staged EXCEPT ![p] = Update!Stored(image, FALSE)]
          /\ updateStep' = [updateStep EXCEPT ![p] = "stage"]
          /\ UNCHANGED <<updateLock, own, resolvedTag, expected, seen, blind>>
          /\ image \in Update!Images
      BY <1>1, <2>1, <2>2, <2>3 DEF UpdaterInv, Signed, Resolved
    <3>2. UpdateTypes'
      BY <1>1, <2>2, <3>1 DEF UpdateTypes, Update!world, Update!Steps, Update!Stored
    <3>3. UpdaterInv(p)' /\ Alone(p)
      BY <1>1, <2>2, <2>3, <3>1 DEF UpdateTypes, UpdaterInv, Alone, Resolved, Signed, Locking,
         Received, Accepted, Update!Stored
    <3> QED
      BY <1>1, <1>2, <1>4, <2>2, <3>1, <3>2, <3>3 DEF UpdateTypes
  <2>4. CASE image # expected[p]
    BY <1>3, <2>1, <2>2, <2>4
  <2> QED
    BY <2>3, <2>4
<1>14. CASE Update!Stage(p)
  <2>1. updateStep[p] = "stage" /\ UNCHANGED <<Update!world, executable, durable>>
    BY <1>14 DEF Update!Stage
  <2>2. CASE Update!ValidateStagedExecutable(staged[p].image)
    <3>1. /\ staged' = [staged EXCEPT ![p].synced = TRUE]
          /\ updateStep' = [updateStep EXCEPT ![p] = "compare"]
          /\ UNCHANGED <<updateLock, own, resolvedTag, expected, seen, blind>>
      BY <1>14, <2>2 DEF Update!Stage
    <3>2. /\ staged' \in [Updaters -> [image : Update!Images \cup {Update!Garbled, Update!Nothing}, synced : BOOLEAN]]
          /\ staged'[p].image = staged[p].image /\ staged'[p].synced
          /\ \A q \in Updaters \ {p} : staged'[q] = staged[q]
      BY <1>1, <3>1 DEF UpdateTypes
    <3>3. UpdateTypes'
      BY <1>1, <2>1, <3>1, <3>2 DEF UpdateTypes, Update!world, Update!Steps
    <3>4. UpdaterInv(p)' /\ Alone(p)
      BY <1>1, <2>1, <2>2, <3>1, <3>2 DEF UpdateTypes, UpdaterInv, Alone, Resolved, Signed,
         Locking, Received, Accepted, Update!ValidateStagedExecutable
    <3> QED
      BY <1>1, <1>2, <1>4, <2>1, <3>1, <3>3, <3>4 DEF UpdateTypes
  <2>3. CASE ~Update!ValidateStagedExecutable(staged[p].image)
    BY <1>3, <1>14, <2>1, <2>3 DEF Update!Stage
  <2> QED
    BY <2>2, <2>3
<1>15. CASE Update!Compare(p)
  BY <1>10, <1>15 DEF Update!Compare
<1>16. CASE Update!Install(p)
  <2>1. /\ updateStep[p] = "install" /\ executable' = staged[p]
        /\ updateStep' = [updateStep EXCEPT ![p] = "sync"]
        /\ UNCHANGED <<Update!world, durable, updateLock, own, resolvedTag, expected, seen, staged, blind>>
    BY <1>16 DEF Update!Install
  <2>2. /\ own[p] < resolvedTag[p] /\ expected[p] \in Update!Images
        /\ expected[p].version = resolvedTag[p] /\ updateLock = p
        /\ staged[p].image = expected[p] /\ staged[p].synced
        /\ <<staged[p].image.version, staged[p].image.build>> \notin Misbuilt
        /\ p \in blind \/ executable.image = seen[p]
    BY <1>1, <2>1 DEF UpdaterInv, Resolved, Signed, Locking, Received, Accepted
  <2>3. UpdateTypes'
    BY <1>1, <2>1, <2>2 DEF UpdateTypes, Update!world, Update!Steps, Builds
  <2>4. UpdaterInv(p)'
    BY <1>1, <2>1, <2>2 DEF UpdateTypes, UpdaterInv, Resolved, Signed, Locking, Received,
       Accepted
  <2>5. ASSUME NEW q \in Updaters \ {p} PROVE UpdaterInv(q)'
    <3>1. updateStep[q] # "install"
      BY <2>2 DEF UpdateInv, UpdaterInv, Resolved, Signed, Locking
    <3>2. updateStep'[q] = updateStep[q]
      BY <1>1, <2>1 DEF UpdateTypes
    <3> QED
      BY <2>1, <3>1, <3>2 DEF UpdateInv, UpdaterInv
  <2>6. InstallsRight
    <3>1. \A q \in Updaters \ {p} : updateStep'[q] = updateStep[q]
      BY <1>1, <2>1 DEF UpdateTypes
    <3>2. executable'.image.version > own[p]
      BY <1>1, <2>1, <2>2 DEF UpdateTypes
    <3> QED
      BY <2>1, <2>2, <3>1, <3>2 DEF InstallsRight
  <2> QED
    BY <2>3, <2>4, <2>5, <2>6 DEF UpdateInv
<1>17. CASE Update!SyncDirectory(p)
  BY <1>3, <1>17 DEF Update!SyncDirectory
<1>18. CASE Update!Abandon(p)
  BY <1>3, <1>18 DEF Update!Abandon
<1> QED
  BY <1>5, <1>6, <1>7, <1>8, <1>9, <1>11, <1>12, <1>13, <1>14, <1>15, <1>16, <1>17, <1>18
     DEF UpdaterStep

\* Every step keeps the invariant, and an installation keeps the promise.
LEMMA UpdateStep ==
  ASSUME UpdateInv, [Update!Next]_(Update!updateVars)
  PROVE  UpdateInv' /\ InstallsRight
<1>1. UpdateTypes /\ \A p \in Updaters : UpdaterInv(p)
  BY DEF UpdateInv
<1>2. CASE \E p \in Updaters : UpdaterStep(p)
  BY <1>2, UpdaterSteps
<1>3. CASE Update!Maintain
  <2>1. UNCHANGED <<executable, durable, updateLock, updateStep, own, resolvedTag, expected, seen, staged, blind>>
    BY <1>3 DEF Update!Maintain, Update!process
  <2>2. /\ releases'.latest \in 0 .. MaxVersion
        /\ releases'.files \in [Update!Versions -> [Update!Files -> 0 .. 2]]
        /\ releases' = [latest |-> releases'.latest, files |-> releases'.files]
    <3>1. PICK v \in Update!Versions :
                 Update!Publish(v) \/ Update!Withdraw(v) \/ \E f \in Update!Files : Update!Upload(v, f)
      BY <1>3 DEF Update!Maintain
    <3>2. PICK l, g : l = releases.latest /\ g = releases.files /\ releases = [latest |-> l, files |-> g]
      BY <1>1 DEF UpdateTypes
    <3>3. /\ l \in 0 .. MaxVersion /\ g \in [Update!Versions -> [Update!Files -> 0 .. 2]]
          /\ v \in 0 .. MaxVersion
      BY HostAssumption, <1>1, <3>2 DEF UpdateTypes, Update!Versions
    <3>4. CASE Update!Publish(v)
      <4>1. [g EXCEPT ![v] = [f \in Update!Files |-> 1]] \in [Update!Versions -> [Update!Files -> 0 .. 2]]
        BY <3>3
      <4> QED
        BY <3>2, <3>3, <3>4, <4>1 DEF Update!Publish
    <3>5. CASE Update!Withdraw(v)
      BY <3>2, <3>3, <3>5 DEF Update!Withdraw
    <3>6. CASE \E f \in Update!Files : Update!Upload(v, f)
      <4>1. PICK f \in Update!Files : releases' = [releases EXCEPT !.files[v][f] = IF @ = 1 THEN 0 ELSE 2]
        BY <3>6 DEF Update!Upload
      <4> DEFINE n == IF g[v][f] = 1 THEN 0 ELSE 2
      <4>2. [g EXCEPT ![v][f] = n] \in [Update!Versions -> [Update!Files -> 0 .. 2]]
        BY <3>3
      <4>3. releases' = [latest |-> l, files |-> [g EXCEPT ![v][f] = n]]
        BY <3>2, <4>1
      <4> HIDE DEF n
      <4> QED
        BY <3>3, <4>2, <4>3
    <3> QED
      BY <3>1, <3>4, <3>5, <3>6
  <2>3. UpdateTypes'
    BY <1>1, <2>1, <2>2 DEF UpdateTypes
  <2>4. \A p \in Updaters : UpdaterInv(p)'
    BY <1>1, <2>1 DEF UpdaterInv
  <2> QED
    BY <1>1, <2>1, <2>3, <2>4 DEF UpdateInv, InstallsRight
<1>4. ASSUME NEW image \in {Update!Dev} \cup {i \in Update!Images : releases.files[i.version]["program"] = i.build},
             Update!Replace(image)
      PROVE  UpdateInv' /\ InstallsRight
  <2>1. /\ executable' = Update!Stored(image, TRUE) /\ durable' = executable'
        /\ blind' = {p \in Updaters : updateStep[p] # "idle"}
        /\ UNCHANGED <<releases, updateLock, updateStep, own, resolvedTag, expected, seen, staged>>
    BY <1>4 DEF Update!Replace, Update!process
  <2>2. UpdateTypes'
    BY <1>1, <2>1 DEF UpdateTypes, Update!Stored, Builds
  <2>3. \A p \in Updaters : UpdaterInv(p)'
    BY <1>1, <2>1 DEF UpdaterInv
  <2> QED
    BY <2>1, <2>2, <2>3 DEF UpdateInv, InstallsRight
<1>5. CASE Update!PowerFailure
  <2>1. /\ updateStep' = [p \in Updaters |-> "idle"] /\ updateLock' = NoUpdater /\ blind' = {}
        /\ releases' = releases
        /\ own' = [p \in Updaters |-> 0] /\ resolvedTag' = [p \in Updaters |-> 0]
        /\ expected' = [p \in Updaters |-> Update!Nothing]
        /\ seen' = [p \in Updaters |-> Update!Nothing]
        /\ staged' = [p \in Updaters |-> Update!Stored(Update!Nothing, FALSE)]
    BY <1>5 DEF Update!PowerFailure
  <2>2. executable' \in [image : Builds, synced : BOOLEAN] /\ durable' = executable'
    BY <1>1, <1>5 DEF Update!PowerFailure, UpdateTypes, Update!Stored, Builds
  <2>3. UpdateTypes'
    BY HostAssumption, <1>1, <2>1, <2>2 DEF UpdateTypes, Update!Stored, Update!Steps
  <2>4. \A p \in Updaters : UpdaterInv(p)'
    BY <2>1 DEF UpdaterInv, Resolved, Signed, Locking, Received, Accepted
  <2>5. InstallsRight
    BY <2>1 DEF InstallsRight
  <2> QED
    BY <2>3, <2>4, <2>5 DEF UpdateInv
<1>6. CASE UNCHANGED Update!updateVars
  <2>1. UNCHANGED <<releases, executable, durable, updateLock, updateStep, own, resolvedTag, expected, seen, staged, blind>>
    BY <1>6 DEF Update!updateVars
  <2> QED
    BY <1>1, <2>1 DEF UpdateInv, UpdateTypes, UpdaterInv, InstallsRight
<1> QED
  BY <1>2, <1>3, <1>4, <1>5, <1>6 DEF Update!Next, UpdaterStep

\* A host starts with a release or a development build, and no update.
LEMMA UpdateInit ==
  ASSUME Update!Init
  PROVE  UpdateInv
<1>1. /\ releases = [latest |-> 1,
                      files |-> [v \in Update!Versions |-> [f \in Update!Files |-> IF v = 1 THEN 1 ELSE 0]]]
      /\ 1 \in Update!Versions /\ 1 \in 0 .. MaxVersion
  BY HostAssumption DEF Update!Init, Update!Versions
<1>2. releases.files \in [Update!Versions -> [Update!Files -> 0 .. 2]]
  BY <1>1
<1>3. executable \in [image : Builds, synced : BOOLEAN] /\ durable = executable
  <2>1. Update!Image(1, 1) \in Update!Images
    BY <1>1, ImageTypes
  <2>2. Update!Image(1, 1) \in Builds /\ Update!Dev \in Builds
    BY <2>1 DEF Builds
  <2>3. durable = executable /\ \E i \in Builds : executable = [image |-> i, synced |-> TRUE]
    BY <2>2 DEF Update!Init, Update!Stored
  <2> QED
    BY <2>3
<1>4. UpdateTypes
  BY HostAssumption, <1>1, <1>2, <1>3 DEF UpdateTypes, Update!Init, Update!Stored, Update!Steps
<1>5. \A p \in Updaters : UpdaterInv(p)
  BY DEF Update!Init, UpdaterInv, Resolved, Signed, Locking, Received, Accepted
<1> QED
  BY <1>4, <1>5 DEF UpdateInv

(***************************************************************************)
(* Updates of any number of processes keep UpdateInv, and what they put in *)
(* place is a newer signed build for what they compared (Update).          *)
(***************************************************************************)
THEOREM UpdateInvariant ==
  Update!Spec => [](UpdateInv /\ Update!TypeOK) /\ Update!UpdatesReplaceWhatTheySaw
<1>1. Update!Init => UpdateInv
  BY UpdateInit
<1>2. UpdateInv /\ [Update!Next]_(Update!updateVars) => UpdateInv'
  BY UpdateStep
<1>3. UpdateInv /\ [Update!Next]_(Update!updateVars) => [InstallsRight]_(Update!updateVars)
  BY UpdateStep
<1>4. UpdateInv => Update!TypeOK
  BY DEF UpdateInv, UpdateTypes, Update!TypeOK, Builds
<1>5. Update!Spec => []UpdateInv /\ [][InstallsRight]_(Update!updateVars)
  BY <1>1, <1>2, <1>3, PTL DEF Update!Spec
<1>6. [][InstallsRight]_(Update!updateVars) <=> Update!UpdatesReplaceWhatTheySaw
  BY DEF InstallsRight, Update!UpdatesReplaceWhatTheySaw
<1> QED
  BY <1>4, <1>5, <1>6, PTL

-----------------------------------------------------------------------------
(* The system service. Between the look at the running processes and the   *)
(* removal of the account the locks keep panels out, and nothing the       *)
(* record names may become the account's after its paths were listed.      *)

\* What the settings and the record name.
Named == {Settings, serviceLocation.dir, serviceLocation.move} \ {NoDir}

\* The removal locks the retained directories, so nobody runs; and what the
\* account still owns of them is among the paths that are to be given back.
RemovalInv ==
  /\ Service!Locked => serviceDir = NoDir /\ manual = NoDir
  /\ cmd.step = "chown" => \A p \in Named : owner[p] = "service" => p \in cmd.paths

ServiceInv == Service!TypeOK /\ Service!AccountLeavesNothingBehind /\ RemovalInv

\* The type of a command, of the owners and of the record.
Command ==
  [op : {"none", "install", "uninstall", "start", "stop", "restart"}, step : Service!Steps,
   force : BOOLEAN, flag : BOOLEAN, dir : ServiceDirs \cup {NoDir}, installing : BOOLEAN,
   files : [Service!Roles -> Service!Contents], replaced : SUBSET Service!Roles,
   account : [user : BOOLEAN, group : BOOLEAN], paths : SUBSET Service!Paths]
Owners == [Service!Paths -> {"absent", "root", "service", "gone"}]
Places == [dir : ServiceDirs \cup {NoDir}, move : ServiceDirs \cup {NoDir}]

\* The types, with the names above.
LEMMA TypeParts ==
  Service!TypeOK <=>
    /\ serviceFiles \in [Service!Roles -> Service!Contents] /\ loaded \in Service!Contents
    /\ enabled \in BOOLEAN
    /\ serviceDir \in ServiceDirs \cup {NoDir} /\ manual \in ServiceDirs \cup {NoDir}
    /\ account \in {"none", "ours", "customized"} /\ group \in BOOLEAN
    /\ owner \in Owners /\ serviceData \in ServiceDirs \cup {NoDir}
    /\ serviceLocation \in Places /\ cmd \in Command
BY DEF Service!TypeOK, Command, Owners, Places

\* What a managed file may hold.
LEMMA FileTypes ==
  /\ Service!Missing \in Service!Contents /\ Service!Foreign \in Service!Contents
  /\ \A d \in ServiceDirs \cup {NoDir} : Service!InstallFiles(d) \in [Service!Roles -> Service!Contents]
  /\ \A f \in Service!Contents : f.dir \in ServiceDirs \cup {NoDir}
BY DEF Service!Missing, Service!Foreign, Service!Contents, Service!InstallFiles, Service!File

\* Idle, and a command that goes on.
LEMMA CommandTypes ==
  ASSUME cmd \in Command
  PROVE  /\ Service!Idle \in Command /\ Service!Idle.step = "idle"
         /\ \A s \in Service!Steps : [cmd EXCEPT !.step = s] \in Command
BY FileTypes DEF Command, Service!Idle, Service!Steps, Service!NoAccount

\* Steps of a command that leave the account, owners and places alone, and
\* start nothing.
LEMMA ServiceQuietKeeps ==
  ASSUME ServiceInv, Service!TypeOK', account' = account, owner' = owner, serviceLocation' = serviceLocation,
         serviceDir' \in {serviceDir, NoDir}, manual' \in {manual, NoDir},
         cmd'.step \in {"chown", "groupdel"} => cmd.step = cmd'.step /\ cmd'.paths = cmd.paths
  PROVE  ServiceInv'
BY DEF ServiceInv, Service!AccountLeavesNothingBehind, RemovalInv, Named, Service!Locked

\* What StartUnit does.
LEMMA UnitStartKeeps ==
  ASSUME ServiceInv, NEW unit \in Service!Contents, Service!StartUnit(unit), manual' = manual, account' = account,
         serviceData' = serviceData, serviceFiles' = serviceFiles, group' = group,
         enabled' \in BOOLEAN, cmd' \in Command,
         cmd'.step \in {"chown", "groupdel"} => cmd' = cmd
  PROVE  ServiceInv'
<1>1. /\ serviceFiles \in [Service!Roles -> Service!Contents] /\ loaded \in Service!Contents
      /\ enabled \in BOOLEAN
      /\ serviceDir \in ServiceDirs \cup {NoDir} /\ manual \in ServiceDirs \cup {NoDir}
      /\ account \in {"none", "ours", "customized"} /\ group \in BOOLEAN
      /\ owner \in Owners /\ serviceData \in ServiceDirs \cup {NoDir}
      /\ serviceLocation \in Places /\ cmd \in Command
  BY TypeParts DEF ServiceInv
<1>2. CASE UNCHANGED <<serviceDir, owner, serviceLocation>>
  <2>1. Service!TypeOK'
    BY <1>1, <1>2 DEF Service!StartUnit, Service!TypeOK, Owners, Places, Command
  <2> QED
    BY <1>2, <2>1, ServiceQuietKeeps
<1>3. CASE ~UNCHANGED <<serviceDir, owner, serviceLocation>>
  <2>1. /\ serviceDir = NoDir /\ Service!Runs(unit) /\ ~Service!Locked /\ manual = NoDir
        /\ loaded' = unit
        /\ serviceDir' = serviceData /\ serviceLocation' = [dir |-> serviceData, move |-> NoDir]
        /\ owner' = [owner EXCEPT ![serviceData] = "service"]
    BY <1>3 DEF Service!StartUnit
  <2>2. Service!TypeOK'
    BY <1>1, <2>1 DEF Service!TypeOK, Owners, Command, Places
  <2>3. cmd'.step \notin {"chown", "groupdel"}
    BY <2>1 DEF Service!Locked
  <2>4. RemovalInv'
    BY <2>3 DEF RemovalInv, Service!Locked
  <2>5. account # "none"
    BY <2>1 DEF Service!Runs
  <2>6. \A p \in Named' : owner'[p] # "gone"
    BY HostAssumption, <1>1, <2>1 DEF Named, Owners, Service!Paths, ServiceInv,
       Service!AccountLeavesNothingBehind
  <2>7. Service!AccountLeavesNothingBehind'
    BY <2>5, <2>6 DEF Service!AccountLeavesNothingBehind, Named
  <2> QED
    BY <2>2, <2>4, <2>7 DEF ServiceInv
<1> QED
  BY <1>2, <1>3

\* Steps that change owners or places, outside of a removal.
LEMMA OwnersChange ==
  ASSUME ServiceInv, Service!TypeOK', account' = account \/ account' # "none",
         serviceDir' \in {serviceDir, NoDir}, manual' \in {manual, NoDir},
         cmd'.step \notin {"chown", "groupdel"},
         \A p \in Named' : owner'[p] = "gone" => p \in Named /\ owner[p] = "gone"
  PROVE  ServiceInv'
BY DEF ServiceInv, Service!AccountLeavesNothingBehind, RemovalInv, Named, Service!Locked

\* The steps that leave account, owners and record alone and start nothing.
QuietServiceStep ==
  \/ \E force, flag \in BOOLEAN : Service!InstallCommand(force, flag) \/ Service!UninstallCommand(force, flag)
  \/ \E op \in {"start", "stop", "restart"} : Service!ControlCommand(op)
  \/ Service!Fail \/ Service!Preflight
  \/ Service!InstallFile("unit", "sysusers") \/ Service!InstallFile("sysusers", "tmpfiles")
  \/ Service!InstallFile("tmpfiles", "account")
  \/ Service!DaemonReload \/ Service!PrepareDataMove \/ Service!PrepareInstalledResources
  \/ Service!PreflightRemoval \/ Service!StopService \/ Service!Disable \/ Service!RecheckFiles \/ Service!Forget
  \/ \E r \in Service!Roles : Service!RemoveFile(r)
  \/ Service!ServiceExits \/ Service!ManualExit
  \/ \E d \in ServiceDirs : Service!EditDataDir(d)
  \/ Service!EditDataDir(NoDir)
  \/ \E r \in Service!Roles :
       \/ Service!EditFile(r, Service!Foreign) \/ Service!EditFile(r, Service!Missing)
       \/ Service!EditFile(r, Service!File("edited", serviceFiles[r].dir))

\* All of them keep the invariant.
LEMMA QuietServiceSteps ==
  ASSUME ServiceInv, QuietServiceStep
  PROVE  ServiceInv'
<1> USE DEF Service!Go, Service!Return, Service!data, Service!systemd, Service!identity
<1>1. /\ serviceFiles \in [Service!Roles -> Service!Contents] /\ loaded \in Service!Contents
      /\ enabled \in BOOLEAN
      /\ serviceDir \in ServiceDirs \cup {NoDir} /\ manual \in ServiceDirs \cup {NoDir}
      /\ account \in {"none", "ours", "customized"} /\ group \in BOOLEAN
      /\ owner \in Owners /\ serviceData \in ServiceDirs \cup {NoDir}
      /\ serviceLocation \in Places /\ cmd \in Command
  BY TypeParts DEF ServiceInv
<1>2. /\ Service!Idle \in Command /\ Service!Idle.step = "idle"
      /\ \A s \in Service!Steps : [cmd EXCEPT !.step = s] \in Command
  BY <1>1, CommandTypes
<1>3. ASSUME account' = account, group' = group, owner' = owner, serviceLocation' = serviceLocation,
             serviceDir' \in {serviceDir, NoDir}, manual' \in {manual, NoDir}, serviceData' \in ServiceDirs \cup {NoDir},
             serviceFiles' \in [Service!Roles -> Service!Contents], loaded' \in Service!Contents,
             enabled' \in BOOLEAN, cmd' \in Command,
             cmd'.step \in {"chown", "groupdel"} => cmd.step = cmd'.step /\ cmd'.paths = cmd.paths
      PROVE  ServiceInv'
  <2>1. Service!TypeOK'
    BY <1>1, <1>3 DEF Service!TypeOK, Command, Owners, Places
  <2> QED
    BY <1>3, <2>1, ServiceQuietKeeps
<1>4. ASSUME NEW s \in Service!Steps \ {"chown", "groupdel"}, Service!Go(s) PROVE cmd' \in Command /\ cmd'.step = s
  BY <1>1, <1>2, <1>4 DEF Command
<1>5. ASSUME NEW force \in BOOLEAN, NEW flag \in BOOLEAN,
             Service!InstallCommand(force, flag) \/ Service!UninstallCommand(force, flag)
      PROVE  ServiceInv'
  <2>1. cmd' \in Command /\ cmd'.step = "preflight"
    <3>1. PICK op \in {"install", "uninstall"}, b \in BOOLEAN, d \in ServiceDirs \cup {NoDir} :
            cmd' = [Service!Idle EXCEPT !.op = op, !.step = "preflight", !.force = force, !.flag = flag,
                                        !.installing = b, !.dir = d]
      <4>1. CASE Service!InstallCommand(force, flag)
        BY <1>1, <4>1 DEF Service!InstallCommand
      <4>2. CASE Service!UninstallCommand(force, flag)
        <5>1. cmd' = [Service!Idle EXCEPT !.op = "uninstall", !.step = "preflight", !.force = force, !.flag = flag]
          BY <4>2 DEF Service!UninstallCommand
        <5>2. Service!Idle.installing = FALSE /\ Service!Idle.dir = NoDir
          BY DEF Service!Idle
        <5>3. cmd' = [Service!Idle EXCEPT !.op = "uninstall", !.step = "preflight", !.force = force, !.flag = flag,
                                          !.installing = FALSE, !.dir = NoDir]
          BY <1>2, <5>1, <5>2 DEF Command
        <5> QED
          BY <5>3
      <4> QED
        BY <1>5, <4>1, <4>2
    <3>2. PICK i : i = Service!Idle /\ i \in Command
      BY <1>2
    <3>3. "preflight" \in Service!Steps
      BY DEF Service!Steps
    <3> QED
      BY <3>1, <3>2, <3>3 DEF Command
  <2> QED
    BY <1>1, <1>3, <1>5, <2>1 DEF Service!InstallCommand, Service!UninstallCommand
<1>6. ASSUME NEW op \in {"start", "stop", "restart"}, Service!ControlCommand(op) PROVE ServiceInv'
  <2>1. cmd' \in Command /\ cmd'.step = "prepare"
    <3>1. cmd' = [Service!Idle EXCEPT !.op = op, !.step = "prepare"]
      BY <1>6 DEF Service!ControlCommand
    <3>2. PICK i : i = Service!Idle /\ i \in Command
      BY <1>2
    <3>3. "prepare" \in Service!Steps
      BY DEF Service!Steps
    <3> QED
      BY <3>1, <3>2, <3>3 DEF Command
  <2> QED
    BY <1>1, <1>3, <1>6, <2>1 DEF Service!ControlCommand
<1>7. CASE Service!Fail
  BY <1>1, <1>2, <1>3, <1>7 DEF Service!Fail
<1>8. CASE Service!Preflight
  <2>1. PICK dir, s : /\ dir = Service!ResolveInstallSettings(cmd.dir) /\ s \in {"move", "resources"}
                      /\ cmd' = [cmd EXCEPT !.dir = dir, !.step = s]
    BY <1>8 DEF Service!Preflight
  <2>2. dir \in ServiceDirs \cup {NoDir}
    BY HostAssumption, <1>1, <2>1 DEF Service!ResolveInstallSettings, Command, Places
  <2>3. cmd' \in Command /\ cmd'.step = s
    BY <1>1, <2>1, <2>2 DEF Command, Service!Steps
  <2> QED
    BY <1>1, <1>3, <1>8, <2>1, <2>3 DEF Service!Preflight
<1>9. ASSUME NEW r \in Service!Roles, NEW s \in {"sysusers", "tmpfiles", "account"}, Service!InstallFile(r, s)
      PROVE  ServiceInv'
  <2>1. Service!InstallFiles(cmd.dir) \in [Service!Roles -> Service!Contents]
    BY <1>1, FileTypes DEF Command
  <2>2. /\ serviceFiles' \in [Service!Roles -> Service!Contents] /\ Service!Go(s)
        /\ s \in Service!Steps \ {"chown", "groupdel"}
    BY <1>1, <1>9, <2>1 DEF Service!InstallFile, Service!Steps
  <2> QED
    BY <1>1, <1>3, <1>4, <1>9, <2>2 DEF Service!InstallFile
<1>10. CASE Service!DaemonReload
  <2>1. /\ Service!Go("enable") /\ loaded' \in Service!Contents
        /\ "enable" \in Service!Steps \ {"chown", "groupdel"}
    BY <1>1, <1>10 DEF Service!DaemonReload, Service!Roles, Service!Steps
  <2> QED
    BY <1>1, <1>3, <1>4, <1>10, <2>1 DEF Service!DaemonReload
<1>11. CASE Service!PrepareDataMove
  <2>1. cmd' \in Command /\ cmd'.step \in {"systemctl", "installed", "preflight"}
    <3>1. \/ \E s \in {"systemctl", "installed"} : Service!Go(s)
          \/ cmd' = [cmd EXCEPT !.step = "preflight", !.installing = TRUE, !.force = TRUE, !.dir = serviceData]
      BY <1>11 DEF Service!PrepareDataMove
    <3>2. ASSUME NEW s \in {"systemctl", "installed"}, Service!Go(s) PROVE cmd' \in Command /\ cmd'.step = s
      BY <1>4, <3>2 DEF Service!Steps
    <3>3. CASE cmd' = [cmd EXCEPT !.step = "preflight", !.installing = TRUE, !.force = TRUE, !.dir = serviceData]
      BY <1>1, <3>3 DEF Command, Service!Steps
    <3> QED
      BY <3>1, <3>2, <3>3
  <2> QED
    BY <1>1, <1>3, <1>11, <2>1 DEF Service!PrepareDataMove
<1>12. CASE Service!PrepareInstalledResources
  <2>1. PICK dir, hint : /\ dir = Service!ResolveInstallSettings(hint) /\ hint \in {serviceFiles["unit"].dir, NoDir}
                         /\ cmd' \in {[cmd EXCEPT !.step = "systemctl"], [cmd EXCEPT !.step = "resources", !.dir = dir]}
    <3> DEFINE h == IF serviceData = NoDir THEN serviceFiles["unit"].dir ELSE NoDir
    <3> QED
      BY <1>12 DEF Service!PrepareInstalledResources
  <2>2. dir \in ServiceDirs \cup {NoDir}
    BY HostAssumption, <1>1, <2>1, FileTypes DEF Service!ResolveInstallSettings, Places,
       Service!Roles
  <2>3. cmd' \in Command /\ cmd'.step \in {"systemctl", "resources"}
    BY <1>1, <2>1, <2>2 DEF Command, Service!Steps
  <2> QED
    BY <1>1, <1>3, <1>12, <2>3 DEF Service!PrepareInstalledResources
<1>13. CASE Service!PreflightRemoval
  <2>1. \/ cmd' = Service!Idle
        \/ cmd' = [cmd EXCEPT !.step = "stop", !.files = serviceFiles, !.replaced = {},
                              !.account = Service!AccountToRemove]
    BY <1>13 DEF Service!PreflightRemoval
  <2>2. Service!AccountToRemove \in [user : BOOLEAN, group : BOOLEAN]
    BY <1>1 DEF Service!AccountToRemove, Service!NoAccount, Service!Account
  <2>3. cmd' \in Command /\ cmd'.step \in {"idle", "stop"}
    <3>1. CASE cmd' = Service!Idle
      BY <1>2, <3>1
    <3>2. CASE cmd' = [cmd EXCEPT !.step = "stop", !.files = serviceFiles, !.replaced = {},
                               !.account = Service!AccountToRemove]
      BY <1>1, <2>2, <3>2 DEF Command, Service!Steps
    <3> QED
      BY <2>1, <3>1, <3>2
  <2> QED
    BY <1>1, <1>3, <1>13, <2>3 DEF Service!PreflightRemoval
<1>14. CASE Service!StopService
  <2>1. Service!Go("disable") /\ "disable" \in Service!Steps \ {"chown", "groupdel"}
    BY <1>14 DEF Service!StopService, Service!Steps
  <2> QED
    BY <1>1, <1>3, <1>4, <1>14, <2>1 DEF Service!StopService
<1>15. CASE Service!Disable
  <2>1. /\ Service!Go("recheck") /\ "recheck" \in Service!Steps \ {"chown", "groupdel"}
        /\ loaded' \in Service!Contents
    BY <1>1, <1>15 DEF Service!Disable, Service!Steps, Service!Roles
  <2> QED
    BY <1>1, <1>3, <1>4, <1>15, <2>1 DEF Service!Disable
<1>16. CASE Service!RecheckFiles
  <2>1. PICK s \in {"remove", "protect"} : Service!Go(s)
    BY <1>16 DEF Service!RecheckFiles
  <2>2. s \in Service!Steps \ {"chown", "groupdel"}
    BY DEF Service!Steps
  <2> QED
    BY <1>1, <1>3, <1>4, <1>16, <2>1, <2>2 DEF Service!RecheckFiles
<1>17. CASE Service!Forget
  BY <1>1, <1>2, <1>3, <1>17 DEF Service!Forget, Service!Roles
<1>18. ASSUME NEW r \in Service!Roles, Service!RemoveFile(r) PROVE ServiceInv'
  <2>1. /\ cmd' = [cmd EXCEPT !.files[r] = Service!Missing]
        /\ serviceFiles' = [serviceFiles EXCEPT ![r] = Service!Missing] /\ cmd.step = "remove"
    BY <1>18 DEF Service!RemoveFile
  <2>2. [cmd.files EXCEPT ![r] = Service!Missing] \in [Service!Roles -> Service!Contents]
    BY <1>1, FileTypes DEF Command
  <2>3. cmd' \in Command /\ cmd'.step = "remove"
    BY <1>1, <2>1, <2>2 DEF Command
  <2>4. serviceFiles' \in [Service!Roles -> Service!Contents]
    BY <1>1, <2>1, FileTypes
  <2> QED
    BY <1>1, <1>3, <1>18, <2>3, <2>4 DEF Service!RemoveFile
<1>19. CASE Service!ServiceExits \/ Service!ManualExit
  BY <1>1, <1>3, <1>19 DEF Service!ServiceExits, Service!ManualExit
<1>20. ASSUME NEW d \in ServiceDirs \cup {NoDir}, Service!EditDataDir(d) PROVE ServiceInv'
  BY <1>1, <1>3, <1>20 DEF Service!EditDataDir
<1>21. ASSUME NEW r \in Service!Roles, NEW content \in Service!Contents, Service!EditFile(r, content)
      PROVE  ServiceInv'
  <2>1. /\ cmd' \in {cmd, [cmd EXCEPT !.replaced = @ \cup {r}]}
        /\ serviceFiles' = [serviceFiles EXCEPT ![r] = content]
    BY <1>21 DEF Service!EditFile
  <2>2. cmd' \in Command /\ cmd'.step = cmd.step /\ cmd'.paths = cmd.paths
    BY <1>1, <2>1 DEF Command
  <2>3. serviceFiles' \in [Service!Roles -> Service!Contents]
    BY <1>1, <2>1
  <2> QED
    BY <1>1, <1>3, <1>21, <2>2, <2>3 DEF Service!EditFile
<1>22. ASSUME NEW r \in Service!Roles, Service!EditFile(r, Service!File("edited", serviceFiles[r].dir))
       PROVE  ServiceInv'
  <2>1. Service!File("edited", serviceFiles[r].dir) \in Service!Contents
    BY <1>1, FileTypes DEF Service!File, Service!Contents
  <2> QED
    BY <1>21, <1>22, <2>1
<1> QED
  BY <1>5, <1>6, <1>7, <1>8, <1>9, <1>10, <1>11, <1>12, <1>13, <1>14, <1>15, <1>16, <1>17,
     <1>18, <1>19, <1>20, <1>21, <1>22, FileTypes DEF QuietServiceStep, Service!Roles

\* And so do the others: moves, ownership, starts and the removal itself.
LEMMA OtherServiceSteps ==
  ASSUME ServiceInv, Service!Next, ~QuietServiceStep
  PROVE  ServiceInv'
<1> USE DEF Service!Go, Service!Return, Service!data, Service!systemd, Service!identity
<1>1. /\ serviceFiles \in [Service!Roles -> Service!Contents] /\ loaded \in Service!Contents
      /\ enabled \in BOOLEAN
      /\ serviceDir \in ServiceDirs \cup {NoDir} /\ manual \in ServiceDirs \cup {NoDir}
      /\ account \in {"none", "ours", "customized"} /\ group \in BOOLEAN
      /\ owner \in Owners /\ serviceData \in ServiceDirs \cup {NoDir}
      /\ serviceLocation \in Places /\ cmd \in Command
  BY TypeParts DEF ServiceInv
<1>2. /\ Service!Idle \in Command /\ Service!Idle.step = "idle"
      /\ \A s \in Service!Steps : [cmd EXCEPT !.step = s] \in Command
  BY <1>1, CommandTypes
<1>3. ASSUME NEW s \in Service!Steps \ {"chown", "groupdel"}, Service!Go(s) PROVE cmd' \in Command /\ cmd'.step = s
  BY <1>1, <1>2, <1>3 DEF Command
<1>4. /\ \A p \in Named : owner[p] # "gone"
      /\ serviceLocation.dir \in ServiceDirs \cup {NoDir}
      /\ serviceLocation.move \in ServiceDirs \cup {NoDir}
      /\ Named \subseteq Service!Paths
  BY <1>1 DEF ServiceInv, Service!AccountLeavesNothingBehind, Named, Places, Service!Paths
<1>5. ASSUME group' \in BOOLEAN, account' \in {"ours", "customized"} \/ account' = account, owner' \in Owners,
             serviceLocation' \in Places, serviceData' \in ServiceDirs \cup {NoDir},
             serviceDir' \in {serviceDir, NoDir}, manual' \in {manual, NoDir},
             UNCHANGED <<serviceFiles, loaded, enabled>>, cmd' \in Command,
             cmd'.step \notin {"chown", "groupdel"}, \A p \in Named' : owner'[p] # "gone"
      PROVE  ServiceInv'
  <2>1. Service!TypeOK'
    BY <1>1, <1>5 DEF Service!TypeOK, Command, Owners, Places
  <2> QED
    BY <1>5, <2>1, OwnersChange
<1>6. CASE Service!BeginMove
  <2>1. /\ serviceLocation' = [dir |-> serviceLocation.dir, move |-> serviceData]
        /\ owner' = [owner EXCEPT ![serviceData] = "root"]
        /\ UNCHANGED <<serviceFiles, loaded, enabled, serviceDir, manual, account, group, serviceData, cmd>>
        /\ cmd.step = "move"
    BY <1>1, <1>6 DEF Service!BeginMove, Places
  <2>2. \A p \in Named' : owner'[p] # "gone"
    BY <1>1, <1>4, <2>1 DEF Named, Owners, Service!Paths
  <2> QED
    BY <1>1, <1>4, <1>5, <2>1, <2>2 DEF Owners, Places
<1>7. CASE Service!FinishMove
  <2>1. /\ serviceLocation' = [dir |-> serviceData, move |-> NoDir]
        /\ owner' = [owner EXCEPT ![serviceLocation.dir] = "absent", ![serviceData] = "root"]
        /\ UNCHANGED <<serviceFiles, loaded, enabled, serviceDir, manual, account, group, serviceData>>
    BY <1>7 DEF Service!FinishMove
  <2>2. cmd' \in Command /\ cmd'.step \in {"idle", "resources"}
    BY <1>2, <1>3, <1>7 DEF Service!FinishMove, Service!Steps
  <2>3. \A p \in Named' : owner'[p] # "gone"
    BY <1>1, <1>4, <2>1 DEF Named, Owners, Service!Paths
  <2> QED
    BY <1>1, <1>5, <2>1, <2>2, <2>3 DEF Owners, Places
<1>8. CASE Service!PrepareResources
  <2>1. /\ UNCHANGED <<serviceFiles, loaded, enabled, serviceDir, manual, account, group, serviceLocation>>
        /\ serviceData' = cmd.dir
        /\ owner' \in Owners /\ \A p \in Service!Paths : owner'[p] \in {owner[p], "root"}
    BY <1>1, <1>8 DEF Service!PrepareResources, Owners
  <2>2. PICK s \in {"unit", "account"} : Service!Go(s)
    BY <1>8 DEF Service!PrepareResources
  <2>3. cmd' \in Command /\ cmd'.step = s
    BY <1>3, <2>2 DEF Service!Steps
  <2>4. \A p \in Named' : owner'[p] # "gone"
    BY <1>4, <2>1 DEF Named
  <2> QED
    BY <1>1, <1>5, <2>1, <2>3, <2>4 DEF Command
<1>9. CASE Service!RunSysusers
  <2>1. Service!Go("ownSettings") /\ "ownSettings" \in Service!Steps \ {"chown", "groupdel"}
    BY <1>9 DEF Service!RunSysusers, Service!Steps
  <2>2. cmd' \in Command /\ cmd'.step = "ownSettings"
    BY <1>3, <2>1
  <2> QED
    BY <1>1, <1>4, <1>5, <1>9, <2>2 DEF Service!RunSysusers, Named
<1>10. CASE Service!OwnSettings
  <2>1. Service!Go("ownData") /\ "ownData" \in Service!Steps \ {"chown", "groupdel"}
    BY <1>10 DEF Service!OwnSettings, Service!Steps
  <2>2. cmd' \in Command /\ cmd'.step = "ownData"
    BY <1>3, <2>1
  <2>3. \A p \in Named' : owner'[p] # "gone"
    BY <1>1, <1>4, <1>10 DEF Service!OwnSettings, Named, Owners
  <2> QED
    BY <1>1, <1>4, <1>5, <1>10, <2>2, <2>3 DEF Service!OwnSettings, Owners
<1>11. CASE Service!OwnData
  <2>1. PICK s \in {"reload", "systemctl"} : Service!Go(s)
    BY <1>11 DEF Service!OwnData
  <2>2. cmd' \in Command /\ cmd'.step = s
    BY <1>3, <2>1 DEF Service!Steps
  <2>3. \A p \in Named' : owner'[p] # "gone"
    BY <1>1, <1>4, <1>11 DEF Service!OwnData, Named, Owners
  <2> QED
    BY <1>1, <1>4, <1>5, <1>11, <2>2, <2>3 DEF Service!OwnData, Owners
<1>12. Service!Fragment \in Service!Contents
  BY <1>1 DEF Service!Fragment, Service!Roles
<1>13. CASE Service!Enable
  <2>1. cmd' \in Command /\ cmd'.step \in {"idle", "installed"}
    <3>1. cmd' = Service!Idle \/ cmd' = [cmd EXCEPT !.step = "installed", !.installing = FALSE]
      BY <1>13 DEF Service!Enable
    <3>2. CASE cmd' = Service!Idle
      BY <1>2, <3>2
    <3>3. CASE cmd' = [cmd EXCEPT !.step = "installed", !.installing = FALSE]
      BY <1>1, <3>3 DEF Command, Service!Steps
    <3> QED
      BY <3>1, <3>2, <3>3
  <2>2. CASE Service!StartUnit(Service!Fragment)
    BY <1>12, <1>13, <2>1, <2>2, UnitStartKeeps DEF Service!Enable
  <2>3. CASE UNCHANGED <<loaded, serviceDir, owner, serviceLocation>>
    <3>1. Service!TypeOK'
      BY <1>1, <1>13, <2>1, <2>3 DEF Service!Enable, Service!TypeOK, Command, Owners, Places
    <3> QED
      BY <1>13, <2>1, <2>3, <3>1, ServiceQuietKeeps DEF Service!Enable
  <2> QED
    BY <1>13, <2>2, <2>3 DEF Service!Enable
<1>14. CASE Service!Systemctl
  <2>1. cmd' = Service!Idle
    BY <1>14 DEF Service!Systemctl
  <2>2. CASE Service!StartUnit(Service!Fragment)
    BY <1>1, <1>2, <1>12, <1>14, <2>1, <2>2, UnitStartKeeps DEF Service!Systemctl
  <2>3. CASE serviceDir' \in {serviceDir, NoDir} /\ UNCHANGED <<loaded, owner, serviceLocation>>
    <3>1. Service!TypeOK'
      BY <1>1, <1>2, <1>14, <2>1, <2>3 DEF Service!Systemctl, Service!TypeOK, Command, Owners,
         Places
    <3> QED
      BY <1>2, <1>14, <2>1, <2>3, <3>1, ServiceQuietKeeps DEF Service!Systemctl
  <2> QED
    BY <1>14, <2>2, <2>3 DEF Service!Systemctl
<1>15. CASE Service!Protect
  <2>1. /\ cmd' = [cmd EXCEPT !.step = "chown", !.paths = Service!RetainedAccountPaths]
        /\ serviceDir = NoDir /\ manual = NoDir
        /\ UNCHANGED <<serviceFiles, loaded, enabled, serviceDir, manual, account, group, owner>>
        /\ UNCHANGED <<serviceData, serviceLocation>>
    BY <1>15 DEF Service!Protect, Service!RequireAccountIdle
  <2>2. Service!RetainedAccountPaths \subseteq Service!Paths
    BY HostAssumption, <1>1, FileTypes DEF Service!RetainedAccountPaths, Service!Paths, Places,
       Service!Roles
  <2>3. cmd' \in Command /\ cmd'.step = "chown" /\ cmd'.paths = Service!RetainedAccountPaths
    BY <1>1, <2>1, <2>2 DEF Command, Service!Steps
  <2>4. Service!TypeOK'
    BY <1>1, <2>1, <2>3 DEF Service!TypeOK, Command, Owners, Places
  <2>5. \A p \in Named : owner[p] = "service" => p \in Service!RetainedAccountPaths
    BY DEF Named, Service!RetainedAccountPaths, Service!Exists
  <2> QED
    BY <2>1, <2>3, <2>4, <2>5 DEF ServiceInv, Service!AccountLeavesNothingBehind, RemovalInv,
       Named, Service!Locked
<1>16. ASSUME NEW p \in Service!Paths, Service!TransferToRoot(p) PROVE ServiceInv'
  <2>1. /\ cmd' = [cmd EXCEPT !.paths = @ \ {p}] /\ cmd.step = "chown"
        /\ owner' = [owner EXCEPT ![p] = IF @ = "service" THEN "root" ELSE @]
        /\ UNCHANGED <<serviceFiles, loaded, enabled, serviceDir, manual, account, group>>
        /\ UNCHANGED <<serviceData, serviceLocation>>
    BY <1>16 DEF Service!TransferToRoot
  <2>2. cmd' \in Command /\ cmd'.step = "chown" /\ cmd'.paths = cmd.paths \ {p}
    BY <1>1, <2>1 DEF Command
  <2>3. /\ owner' \in Owners /\ owner'[p] # "service"
        /\ \A q \in Service!Paths : owner'[q] \in {owner[q], "root"}
    BY <1>1, <2>1 DEF Owners
  <2>4. Service!TypeOK'
    BY <1>1, <2>1, <2>2, <2>3 DEF Service!TypeOK, Command, Owners, Places
  <2>5. Named' = Named
    BY <2>1 DEF Named
  <2>6. RemovalInv'
    BY <1>4, <2>1, <2>2, <2>3, <2>5 DEF ServiceInv, RemovalInv, Service!Locked
  <2>7. Service!AccountLeavesNothingBehind'
    BY <1>4, <2>1, <2>3, <2>5 DEF ServiceInv, Service!AccountLeavesNothingBehind, Named
  <2> QED
    BY <2>4, <2>6, <2>7 DEF ServiceInv
<1>17. CASE Service!RemoveUser
  <2>1. /\ Service!Go("groupdel") /\ cmd.step = "chown" /\ cmd.paths = {}
        /\ UNCHANGED <<serviceFiles, loaded, enabled, serviceDir, manual, serviceData, serviceLocation>>
        /\ account' \in {account, "none"} /\ group' \in BOOLEAN
        /\ owner' \in {owner, [p \in Service!Paths |-> IF owner[p] = "service" THEN "gone" ELSE owner[p]]}
    BY <1>1, <1>17 DEF Service!RemoveUser
  <2>2. cmd' \in Command /\ cmd'.step = "groupdel"
    <3>1. cmd' = [cmd EXCEPT !.step = "groupdel"]
      BY <2>1
    <3> QED
      BY <1>1, <3>1 DEF Command, Service!Steps
  <2>3. serviceDir = NoDir /\ manual = NoDir /\ \A p \in Named : owner[p] # "service"
    BY <2>1 DEF ServiceInv, RemovalInv, Service!Locked
  <2>4. owner' \in Owners /\ \A p \in Named : owner'[p] # "gone"
    BY <1>1, <1>4, <2>1, <2>3 DEF Owners
  <2>5. Service!TypeOK'
    BY <1>1, <2>1, <2>2, <2>4 DEF Service!TypeOK, Command, Owners, Places
  <2> QED
    BY <2>1, <2>2, <2>3, <2>4, <2>5 DEF ServiceInv, RemovalInv,
       Service!AccountLeavesNothingBehind, Named, Service!Locked
<1>18. CASE Service!RemoveGroup
  <2>1. Service!Go("remove") /\ "remove" \in Service!Steps \ {"chown", "groupdel"}
    BY <1>18 DEF Service!RemoveGroup, Service!Steps
  <2>2. cmd' \in Command /\ cmd'.step = "remove"
    BY <1>3, <2>1
  <2> QED
    BY <1>1, <1>4, <1>5, <1>18, <2>2 DEF Service!RemoveGroup, Named
<1>19. CASE Service!ServiceStarts
  BY <1>1, <1>12, <1>19, UnitStartKeeps DEF Service!ServiceStarts
<1>20. CASE Service!ManualStart
  <2>1. /\ manual' = serviceData /\ serviceLocation' = [dir |-> serviceData, move |-> NoDir]
        /\ serviceData # NoDir
        /\ account # "none" /\ owner[serviceData] = "service" /\ ~Service!Locked
        /\ UNCHANGED <<serviceFiles, loaded, enabled, serviceDir, account, group, owner, serviceData, cmd>>
    BY <1>20 DEF Service!ManualStart
  <2>2. Service!TypeOK'
    BY <1>1, <2>1 DEF Service!TypeOK, Command, Owners, Places
  <2>3. \A p \in Named' : owner'[p] # "gone"
    BY HostAssumption, <1>4, <2>1 DEF Named
  <2> QED
    BY <2>1, <2>2, <2>3 DEF ServiceInv, RemovalInv, Service!AccountLeavesNothingBehind, Named,
       Service!Locked
<1>21. ASSUME NEW d \in ServiceDirs, Service!DeleteData(d) PROVE ServiceInv'
  <2>1. /\ owner' = [owner EXCEPT ![d] = "absent"]
        /\ UNCHANGED <<serviceFiles, loaded, enabled, serviceDir, manual, account, group>>
        /\ UNCHANGED <<serviceData, serviceLocation, cmd>>
    BY <1>21 DEF Service!DeleteData
  <2>2. owner' \in Owners /\ \A q \in Service!Paths : owner'[q] \in {owner[q], "absent"}
    BY <1>1, <2>1 DEF Owners
  <2>3. Service!TypeOK'
    BY <1>1, <2>1, <2>2 DEF Service!TypeOK, Command, Owners, Places
  <2>4. Named' = Named
    BY <2>1 DEF Named
  <2>5. RemovalInv'
    BY <1>4, <2>1, <2>2, <2>4 DEF ServiceInv, RemovalInv, Service!Locked
  <2>6. Service!AccountLeavesNothingBehind'
    BY <1>4, <2>1, <2>2, <2>4 DEF ServiceInv, Service!AccountLeavesNothingBehind, Named
  <2> QED
    BY <2>3, <2>5, <2>6 DEF ServiceInv
<1>22. CASE Service!CustomizeAccount
  <2>1. Service!TypeOK'
    BY <1>1, <1>22 DEF Service!CustomizeAccount, Service!TypeOK, Command, Owners, Places
  <2> QED
    BY <1>22, <2>1 DEF Service!CustomizeAccount, ServiceInv, RemovalInv,
       Service!AccountLeavesNothingBehind, Named, Service!Locked
<1> QED
  BY <1>6, <1>7, <1>8, <1>9, <1>10, <1>11, <1>13, <1>14, <1>15, <1>16, <1>17, <1>18, <1>19,
     <1>20, <1>21, <1>22
     DEF Service!Next, QuietServiceStep

\* A host without the service.
LEMMA ServiceStarted ==
  ASSUME Service!Init
  PROVE  ServiceInv
<1>1. Service!TypeOK
  BY FileTypes DEF Service!Init, Service!TypeOK, Service!Idle, Service!NoLocation,
     Service!NoAccount, Service!Steps
<1>2. cmd.step = "idle" /\ serviceLocation.dir = NoDir /\ serviceLocation.move = NoDir
  BY DEF Service!Init, Service!Idle, Service!NoLocation
<1> QED
  BY <1>1, <1>2 DEF Service!Init, ServiceInv, RemovalInv, Service!AccountLeavesNothingBehind,
     Service!Locked, Service!Paths

(***************************************************************************)
(* Whichever step of whichever command fails or is the last, the removal   *)
(* of the account finds nobody running and its paths given back.           *)
(***************************************************************************)
THEOREM ServiceInvariant ==
  Service!Spec => []ServiceInv
<1>1. Service!Init => ServiceInv
  BY ServiceStarted
<1>2. ServiceInv /\ [Service!Next]_(Service!serviceVars) => ServiceInv'
  <2>1. ASSUME ServiceInv, UNCHANGED Service!serviceVars PROVE ServiceInv'
    BY <2>1 DEF Service!serviceVars, ServiceInv, Service!TypeOK, RemovalInv,
       Service!AccountLeavesNothingBehind, Named, Service!Locked, Service!Fragment
  <2> QED
    BY <2>1, QuietServiceSteps, OtherServiceSteps
<1> QED
  BY <1>1, <1>2, PTL DEF Service!Spec

-----------------------------------------------------------------------------
(* The catalog. A validator stands for what its page had, so the stored    *)
(* validators say what the stored catalog is, wherever it came from, and a *)
(* refresh that finds them unchanged has seen the list as far as they go.  *)

\* Steps of a refresh, and what stands for the content of a page.
CatalogSteps == {"idle", "probe", "last", "unchanged", "load", "repository"}
Etags == Seq(Releases) \cup {Catalog!NoETag}

\* The releases on the first n places, and those that the first k validators stand for.
Shown(n) == {listed[i] : i \in {j \in 1 .. Len(listed) : j <= n}}
Covered(etags, k) == UNION {Catalog!ToSet(etags[i]) : i \in 1 .. k}
AllTagged(etags) == \A i \in DOMAIN etags : etags[i] # Catalog!NoETag

ListTypes == listed \in Seq(Releases) /\ Catalog!IsInjective(listed)
CatalogStateTypes ==
  /\ catalogState \in [stored : BOOLEAN, validator : Seq(Etags), catalog : SUBSET Stable, refreshed : Int]
  /\ Len(catalogState.validator) <= MaximumPages
RefreshTypes ==
  refresh \in [step : CatalogSteps, page : 0 .. MaximumPages + 1, validator : Seq(Etags),
               releases : Seq(Releases), quiet : BOOLEAN]

\* A catalog with a validator consists of what its pages had.
ListedInv ==
  catalogState.validator # <<>> =>
    /\ AllTagged(catalogState.validator)
    /\ catalogState.catalog = Covered(catalogState.validator, Len(catalogState.validator)) \cap Stable

\* While upstream rests the pages probed so far are what it shows.
ProbeInv ==
  /\ refresh.step \in {"idle", "probe", "last", "unchanged"} => refresh.validator = <<>> /\ refresh.releases = <<>>
  /\ refresh.step \in {"probe", "last", "unchanged"} =>
       catalogState.validator # <<>> /\ refresh.page \in 1 .. Len(catalogState.validator) + 1
  /\ refresh.step = "probe" => refresh.page <= Len(catalogState.validator)
  /\ refresh.step \in {"last", "unchanged"} => refresh.page = Len(catalogState.validator) + 1
  /\ refresh.step \in {"probe", "last", "unchanged"} /\ refresh.quiet =>
       Covered(catalogState.validator, refresh.page - 1) = Shown((refresh.page - 1) * PerPage)
  /\ refresh.step = "unchanged" /\ refresh.quiet => Len(listed) <= (refresh.page - 1) * PerPage

\* And so are the pages loaded so far.
LoadInv ==
  refresh.step \in {"load", "repository"} =>
    /\ refresh.page = Len(refresh.validator) + 1
    /\ Len(refresh.releases) <= (refresh.page - 1) * PerPage
    /\ AllTagged(refresh.validator) => Catalog!ToSet(refresh.releases) = Covered(refresh.validator, refresh.page - 1)
    /\ refresh.quiet => Catalog!ToSet(refresh.releases) = Shown((refresh.page - 1) * PerPage)
    /\ refresh.step = "repository" /\ refresh.quiet => Len(listed) <= (refresh.page - 1) * PerPage
    /\ refresh.step = "repository" => refresh.page <= MaximumPages + 1 /\ refresh.page > 1

CatalogInv == ListTypes /\ CatalogStateTypes /\ RefreshTypes /\ ListedInv /\ ProbeInv /\ LoadInv

\* What RefreshIsExact says of one step.
RefreshesExactly == (catalogState' # catalogState /\ refresh.quiet) => catalogState'.catalog = Catalog!Filter(listed)

-----------------------------------------------------------------------------
\* The elements of a list.
LEMMA CatalogLists ==
  ASSUME NEW R, NEW s \in Seq(R)
  PROVE  /\ Catalog!ToSet(s) = {s[i] : i \in 1 .. Len(s)} /\ Catalog!ToSet(s) \subseteq R
         /\ s = <<>> <=> Len(s) = 0
BY DEF Catalog!ToSet

\* What two lists have together.
LEMMA JoinedLists ==
  ASSUME NEW R, NEW s \in Seq(R), NEW t \in Seq(R)
  PROVE  /\ s \o t \in Seq(R) /\ Len(s \o t) = Len(s) + Len(t)
         /\ Catalog!ToSet(s \o t) = Catalog!ToSet(s) \cup Catalog!ToSet(t)
<1>1. s \o t \in Seq(R) /\ Len(s \o t) = Len(s) + Len(t)
  OBVIOUS
<1>2. \A i \in 1 .. Len(s) : (s \o t)[i] = s[i]
  OBVIOUS
<1>3. \A i \in 1 .. Len(t) : (s \o t)[Len(s) + i] = t[i]
  OBVIOUS
<1>4. \A i \in 1 .. Len(s) + Len(t) : (s \o t)[i] = IF i <= Len(s) THEN s[i] ELSE t[i - Len(s)]
  OBVIOUS
<1>5. Catalog!ToSet(s \o t) \subseteq Catalog!ToSet(s) \cup Catalog!ToSet(t)
  <2>1. ASSUME NEW i \in 1 .. Len(s) + Len(t) PROVE (s \o t)[i] \in Catalog!ToSet(s) \cup Catalog!ToSet(t)
    <3>1. CASE i <= Len(s)
      BY <1>4, <3>1, CatalogLists
    <3>2. CASE ~(i <= Len(s))
      <4>1. i - Len(s) \in 1 .. Len(t) /\ (s \o t)[i] = t[i - Len(s)]
        BY <1>4, <3>2
      <4> QED
        BY <4>1, CatalogLists
    <3> QED
      BY <3>1, <3>2
  <2>2. Catalog!ToSet(s \o t) = {(s \o t)[i] : i \in 1 .. Len(s) + Len(t)}
    BY <1>1, CatalogLists
  <2> QED
    BY <2>1, <2>2
<1>6. Catalog!ToSet(s) \cup Catalog!ToSet(t) \subseteq Catalog!ToSet(s \o t)
  <2>1. Catalog!ToSet(s \o t) = {(s \o t)[i] : i \in 1 .. Len(s) + Len(t)}
    BY <1>1, CatalogLists
  <2>2. ASSUME NEW i \in 1 .. Len(s) PROVE s[i] \in Catalog!ToSet(s \o t)
    BY <1>2, <2>1
  <2>3. ASSUME NEW i \in 1 .. Len(t) PROVE t[i] \in Catalog!ToSet(s \o t)
    BY <1>3, <2>1
  <2>4. /\ Catalog!ToSet(s) = {s[i] : i \in 1 .. Len(s)}
        /\ Catalog!ToSet(t) = {t[i] : i \in 1 .. Len(t)}
    BY CatalogLists
  <2> QED
    BY <2>2, <2>3, <2>4
<1> QED
  BY <1>1, <1>5, <1>6

\* What a request for the places after a up to b brings.
LEMMA Slice ==
  ASSUME NEW R, NEW s \in Seq(R), NEW a \in Nat, NEW b \in Nat, a <= b,
         NEW p, p = SubSeq(s, a + 1, IF b < Len(s) THEN b ELSE Len(s))
  PROVE  /\ p \in Seq(R) /\ Len(p) <= b - a
         /\ Catalog!ToSet(p) = {s[i] : i \in {j \in 1 .. Len(s) : a < j /\ j <= b}}
         /\ p = <<>> => Len(s) <= a \/ a = b
<1>1. PICK e \in Nat : e <= b /\ e <= Len(s) /\ (e = b \/ e = Len(s)) /\ p = SubSeq(s, a + 1, e)
  OBVIOUS
<1>2. CASE a < e
  <2>1. p \in Seq(R) /\ Len(p) = e - a /\ \A i \in 1 .. e - a : p[i] = s[a + i]
    BY <1>1, <1>2
  <2>2. Catalog!ToSet(p) = {p[i] : i \in 1 .. e - a}
    <3>1. Catalog!ToSet(p) = {p[i] : i \in 1 .. Len(p)}
      BY ONLY <2>1, CatalogLists
    <3> QED
      BY <2>1, <3>1
  <2>3. ASSUME NEW i \in 1 .. e - a PROVE p[i] \in {s[k] : k \in {j \in 1 .. Len(s) : a < j /\ j <= b}}
    <3>1. a + i \in {j \in 1 .. Len(s) : a < j /\ j <= b}
      BY <1>1, <1>2
    <3> QED
      BY <2>1, <3>1
  <2>4. ASSUME NEW k \in 1 .. Len(s), a < k, k <= b PROVE s[k] \in Catalog!ToSet(p)
    <3>1. k - a \in 1 .. e - a /\ a + (k - a) = k
      BY <1>1, <2>4
    <3> QED
      BY <2>1, <2>2, <3>1
  <2>5. Catalog!ToSet(p) = {s[i] : i \in {j \in 1 .. Len(s) : a < j /\ j <= b}}
    BY <2>2, <2>3, <2>4
  <2>6. p # <<>> /\ Len(p) <= b - a
    <3>1. e - a > 0 /\ e - a <= b - a
      BY <1>1, <1>2
    <3>2. p = <<>> => Len(p) = 0
      BY ONLY <2>1, CatalogLists
    <3>3. Len(p) = e - a /\ e - a \in Int
      BY <1>1, <2>1
    <3> QED
      BY <3>1, <3>2, <3>3
  <2> QED
    BY <2>1, <2>5, <2>6
<1>3. CASE ~(a < e)
  <2>1. p = <<>> /\ p \in Seq(R) /\ Len(p) = 0
    BY <1>1, <1>3
  <2>2. {j \in 1 .. Len(s) : a < j /\ j <= b} = {}
    BY <1>1, <1>3
  <2>3. Catalog!ToSet(<<>>) = {}
    BY DEF Catalog!ToSet
  <2>4. Len(s) <= a \/ a = b
    BY <1>1, <1>3
  <2>5. Catalog!ToSet(p) = {s[i] : i \in {j \in 1 .. Len(s) : a < j /\ j <= b}}
    BY <2>1, <2>2, <2>3
  <2> QED
    BY <2>1, <2>4, <2>5
<1> QED
  BY <1>2, <1>3

\* The places up to a page and those of the page are the places up to the next.
LEMMA PageShows ==
  ASSUME ListTypes, NEW k \in Nat \ {0}
  PROVE  /\ Catalog!Page(k) \in Seq(Releases) /\ Len(Catalog!Page(k)) <= PerPage
         /\ Shown(k * PerPage) = Shown((k - 1) * PerPage) \cup Catalog!ToSet(Catalog!Page(k))
         /\ Catalog!Page(k) = <<>> => Len(listed) <= (k - 1) * PerPage
         /\ Catalog!Page(k) # Catalog!NoETag
         /\ ~Catalog!HasNextLink(k) => Len(listed) <= k * PerPage
<1>1. PICK a \in Nat, b \in Nat : a = (k - 1) * PerPage /\ b = k * PerPage /\ b = a + PerPage
  <2>1. (k - 1) * PerPage \in Nat /\ k * PerPage \in Nat /\ k * PerPage = (k - 1) * PerPage + PerPage
    BY HostAssumption
  <2> QED
    BY <2>1
<1>2. a < b /\ PerPage \in Nat /\ b - a = PerPage
  BY HostAssumption, <1>1
<1>3. Catalog!Page(k) = SubSeq(listed, a + 1, IF b < Len(listed) THEN b ELSE Len(listed))
  BY <1>1 DEF Catalog!Page
<1>4. /\ Catalog!Page(k) \in Seq(Releases) /\ Len(Catalog!Page(k)) <= PerPage
      /\ Catalog!ToSet(Catalog!Page(k)) = {listed[i] : i \in {j \in 1 .. Len(listed) : a < j /\ j <= b}}
      /\ Catalog!Page(k) = <<>> => Len(listed) <= a
  <2>1. listed \in Seq(Releases) /\ a <= b /\ a # b
    BY <1>2 DEF ListTypes
  <2>2. /\ Catalog!Page(k) \in Seq(Releases) /\ Len(Catalog!Page(k)) <= b - a
        /\ Catalog!ToSet(Catalog!Page(k)) = {listed[i] : i \in {j \in 1 .. Len(listed) : a < j /\ j <= b}}
        /\ Catalog!Page(k) = <<>> => Len(listed) <= a \/ a = b
    BY ONLY a \in Nat, b \in Nat, <1>3, <2>1, Slice, ZenonT(60)
  <2> QED
    BY <1>2, <2>1, <2>2
<1>5. Shown(b) = Shown(a) \cup Catalog!ToSet(Catalog!Page(k))
  BY <1>2, <1>4 DEF Shown, ListTypes
<1>6. Catalog!Page(k) # Catalog!NoETag
  <2>1. ASSUME Catalog!Page(k) = Catalog!NoETag PROVE FALSE
    <3>1. Catalog!Page(k)[1] = "none" /\ Len(Catalog!Page(k)) = 1
      BY <2>1 DEF Catalog!NoETag
    <3> QED
      BY HostAssumption, <1>4, <3>1
  <2> QED
    BY <2>1
<1>7. ~Catalog!HasNextLink(k) => Len(listed) <= b
  BY <1>1 DEF Catalog!HasNextLink, ListTypes
<1> QED
  BY <1>1, <1>4, <1>5, <1>6, <1>7

\* All places of the list.
LEMMA AllShown ==
  ASSUME ListTypes, NEW n \in Nat, Len(listed) <= n
  PROVE  Shown(n) = Catalog!ToSet(listed)
BY DEF ListTypes, Shown, Catalog!ToSet

\* No place of it.
LEMMA NothingShown ==
  /\ Shown(0) = {}
  /\ \A etags : Covered(etags, 0) = {}
  /\ Catalog!ToSet(<<>>) = {}
BY DEF Shown, Covered, Catalog!ToSet

\* One more validator.
LEMMA HeldGrows ==
  ASSUME NEW etags, NEW k \in Nat
  PROVE  Covered(etags, k + 1) = Covered(etags, k) \cup Catalog!ToSet(etags[k + 1])
BY DEF Covered

\* The cardinality that the catalog counts with.
LEMMA CountsReleases == Catalog!Cardinality(Releases) = Cardinality(Releases)
BY DEF Catalog!Cardinality, Cardinality

\* An injective list of releases is no longer than there are releases.
LEMMA InjectiveFits ==
  ASSUME NEW s \in Seq(Releases), Catalog!IsInjective(s)
  PROVE  s \in Catalog!SeqOf(Releases, Catalog!Cardinality(Releases))
<1>1. s \in [1 .. Len(s) -> Releases] /\ Len(s) \in Nat
  OBVIOUS
<1>2. s \in Injection(1 .. Len(s), Releases)
  BY <1>1 DEF Injection, Catalog!IsInjective, IsInjective
<1>3. Cardinality(1 .. Len(s)) <= Cardinality(Releases) /\ Cardinality(1 .. Len(s)) = Len(s)
  <2>1. Cardinality(1 .. Len(s)) = Len(s)
    <3>1. Cardinality(1 .. Len(s)) = IF 1 > Len(s) THEN 0 ELSE Len(s) - 1 + 1
      BY <1>1, FS_Interval
    <3> QED
      BY <1>1, <3>1
  <2>2. Cardinality(1 .. Len(s)) <= Cardinality(Releases)
    BY HostAssumption, <1>2, FS_Injection
  <2> QED
    BY <2>1, <2>2
<1>4. Catalog!Cardinality(Releases) = Cardinality(Releases) /\ Cardinality(Releases) \in Nat
  BY HostAssumption, CountsReleases, FS_CardinalityType
<1> QED
  BY <1>1, <1>3, <1>4 DEF Catalog!SeqOf

\* The types of CoreCatalog follow.
LEMMA CatalogTypes ==
  ASSUME CatalogInv
  PROVE  Catalog!TypeOK
<1>1. /\ listed \in Catalog!SeqOf(Releases, Catalog!Cardinality(Releases))
      /\ Catalog!IsInjective(listed)
  BY HostAssumption, InjectiveFits DEF CatalogInv, ListTypes
<1>2. Len(refresh.releases) <= MaximumPages * PerPage
  <2>1. CASE refresh.step \in {"load", "repository"}
    <3>1. PICK k \in Int : k = refresh.page - 1 /\ k <= MaximumPages
      BY HostAssumption DEF CatalogInv, RefreshTypes
    <3>2. PICK n \in Nat : n = Len(refresh.releases) /\ n <= k * PerPage
      BY <2>1, <3>1 DEF CatalogInv, LoadInv, RefreshTypes
    <3>3. /\ k * PerPage <= MaximumPages * PerPage /\ k * PerPage \in Int
          /\ MaximumPages * PerPage \in Int
      BY HostAssumption, <3>1
    <3> QED
      BY <3>2, <3>3
  <2>2. CASE refresh.releases = <<>>
    <3>1. 0 <= MaximumPages * PerPage /\ MaximumPages * PerPage \in Int
      BY HostAssumption
    <3> QED
      BY <2>2, <3>1
  <2> QED
    BY <2>1, <2>2 DEF CatalogInv, ProbeInv, RefreshTypes, CatalogSteps
<1> QED
  BY HostAssumption, <1>1, <1>2 DEF Catalog!TypeOK, CatalogInv, CatalogStateTypes, RefreshTypes,
     CatalogSteps

-----------------------------------------------------------------------------
\* Another step and page of a refresh leave the rest of it alone.
LEMMA RefreshMoves ==
  ASSUME RefreshTypes, NEW st \in CatalogSteps, NEW p \in 0 .. MaximumPages + 1,
         refresh' = [refresh EXCEPT !.step = st, !.page = p]
  PROVE  /\ RefreshTypes' /\ refresh'.step = st /\ refresh'.page = p
         /\ refresh'.validator = refresh.validator /\ refresh'.releases = refresh.releases
         /\ refresh'.quiet = refresh.quiet
<1>1. PICK v \in Seq(Etags), r \in Seq(Releases), q \in BOOLEAN, t \in CatalogSteps, k \in 0 .. MaximumPages + 1 :
        refresh = [step |-> t, page |-> k, validator |-> v, releases |-> r, quiet |-> q]
  BY DEF RefreshTypes
<1>2. refresh' = [step |-> st, page |-> p, validator |-> v, releases |-> r, quiet |-> q]
  BY <1>1
<1> QED
  BY <1>1, <1>2 DEF RefreshTypes

\* What is shown changes with upstream only.
LEMMA ShownStays ==
  ASSUME UNCHANGED listed
  PROVE  \A n : Shown(n)' = Shown(n)
BY DEF Shown

\* A page that is unchanged is one more that upstream shows; another makes the refresh load.
LEMMA ProbePageKeeps ==
  ASSUME CatalogInv, Catalog!ProbePage
  PROVE  CatalogInv'
<1>1. /\ refresh.step = "probe" /\ UNCHANGED <<listed, catalogState>>
      /\ refresh.page \in 1 .. Len(catalogState.validator) /\ catalogState.validator # <<>>
      /\ Len(catalogState.validator) <= MaximumPages
      /\ refresh.validator = <<>> /\ refresh.releases = <<>> /\ MaximumPages \in Nat
      /\ Len(catalogState.validator) \in Nat
  BY HostAssumption DEF CatalogInv, ProbeInv, Catalog!ProbePage, CatalogStateTypes, RefreshTypes
<1>2. ListTypes' /\ CatalogStateTypes' /\ ListedInv' /\ RefreshTypes
  BY <1>1 DEF CatalogInv, ListTypes, CatalogStateTypes, ListedInv, AllTagged, Covered
<1>3. CASE ~Catalog!Unchanged(catalogState.validator[refresh.page], refresh.page)
  <2>1. refresh' = [refresh EXCEPT !.step = "load", !.page = 1]
    BY <1>3 DEF Catalog!ProbePage
  <2>2. /\ RefreshTypes' /\ refresh'.step = "load" /\ refresh'.page = 1 /\ refresh'.validator = <<>>
        /\ refresh'.releases = <<>>
    <3>1. "load" \in CatalogSteps /\ 1 \in 0 .. MaximumPages + 1
      BY <1>1 DEF CatalogSteps
    <3> QED
      BY <1>1, <1>2, <2>1, <3>1, RefreshMoves
  <2>3. ProbeInv'
    BY <2>2 DEF ProbeInv
  <2>4. LoadInv'
    BY HostAssumption, <2>2, NothingShown DEF LoadInv, Shown, Covered, Catalog!ToSet
  <2> QED
    BY <1>2, <2>2, <2>3, <2>4 DEF CatalogInv
<1>4. CASE Catalog!Unchanged(catalogState.validator[refresh.page], refresh.page)
  <2>1. PICK s \in {"probe", "last"} :
          /\ refresh' = [refresh EXCEPT !.step = s, !.page = refresh.page + 1]
          /\ s = "last" <=> refresh.page = Len(catalogState.validator)
    BY <1>1, <1>4 DEF Catalog!ProbePage
  <2>2. /\ RefreshTypes' /\ refresh'.step = s /\ refresh'.page = refresh.page + 1
        /\ refresh'.validator = <<>>
        /\ refresh'.releases = <<>> /\ refresh'.quiet = refresh.quiet
    <3>1. s \in CatalogSteps /\ refresh.page + 1 \in 0 .. MaximumPages + 1
      BY <1>1 DEF CatalogSteps
    <3> QED
      BY <1>1, <1>2, <2>1, <3>1, RefreshMoves
  <2>3. PICK k \in Nat \ {0} : k = refresh.page
    BY <1>1
  <2>4. ASSUME refresh.quiet PROVE Covered(catalogState.validator, k) = Shown(k * PerPage)
    <3>1. Covered(catalogState.validator, k - 1) = Shown((k - 1) * PerPage)
      BY <1>1, <2>3, <2>4 DEF CatalogInv, ProbeInv
    <3>2. Covered(catalogState.validator, k) = Covered(catalogState.validator, k - 1)
                                             \cup Catalog!ToSet(catalogState.validator[k])
      BY <2>3, HeldGrows
    <3>3. Shown(k * PerPage) = Shown((k - 1) * PerPage) \cup Catalog!ToSet(Catalog!Page(k))
      BY PageShows DEF CatalogInv
    <3> QED
      BY <1>4, <2>3, <3>1, <3>2, <3>3 DEF Catalog!Unchanged
  <2>5. PICK m \in Nat : /\ m = Len(catalogState.validator) /\ k <= m /\ Len(catalogState'.validator) = m
                         /\ refresh'.page = k + 1 /\ (k + 1) - 1 = k
    BY <1>1, <2>2, <2>3
  <2>6. ProbeInv'
    <3>1. /\ Covered(catalogState'.validator, k) = Covered(catalogState.validator, k)
          /\ (Shown(k * PerPage))' = Shown(k * PerPage)
      BY <1>1, ShownStays
    <3>2. refresh'.quiet => Covered(catalogState'.validator, k) = (Shown(k * PerPage))'
      BY <2>2, <2>4, <3>1
    <3>3. s = "last" <=> k = m
      BY <2>1, <2>3, <2>5
    <3>4. refresh'.page - 1 = k /\ k + 1 \in 1 .. m + 1 /\ catalogState'.validator # <<>>
      BY <1>1, <2>5
    <3>5. s = "probe" => k + 1 <= m
      BY <2>5, <3>3
    <3> QED
      BY <2>2, <2>5, <3>2, <3>3, <3>4, <3>5 DEF ProbeInv, Covered, Shown, Catalog!ToSet
  <2>7. LoadInv'
    BY <2>2 DEF LoadInv
  <2> QED
    BY <1>2, <2>2, <2>6, <2>7 DEF CatalogInv
<1> QED
  BY <1>3, <1>4

\* An empty page without a next one ends the list.
LEMMA ProbeLastPageKeeps ==
  ASSUME CatalogInv, Catalog!ProbeLastPage
  PROVE  CatalogInv'
<1>1. /\ refresh.step = "last" /\ UNCHANGED <<listed, catalogState>>
      /\ refresh.page = Len(catalogState.validator) + 1 /\ catalogState.validator # <<>>
      /\ Len(catalogState.validator) <= MaximumPages
      /\ refresh.validator = <<>> /\ refresh.releases = <<>> /\ MaximumPages \in Nat
      /\ Len(catalogState.validator) \in Nat
  BY HostAssumption DEF CatalogInv, ProbeInv, Catalog!ProbeLastPage, CatalogStateTypes,
     RefreshTypes
<1>2. ListTypes' /\ CatalogStateTypes' /\ ListedInv' /\ RefreshTypes
  BY <1>1 DEF CatalogInv, ListTypes, CatalogStateTypes, ListedInv, AllTagged, Covered
<1>3. CASE ~(Catalog!PageIsEmpty(refresh.page) /\ ~Catalog!HasNextLink(refresh.page))
  <2>1. refresh' = [refresh EXCEPT !.step = "load", !.page = 1]
    BY <1>3 DEF Catalog!ProbeLastPage
  <2>2. /\ RefreshTypes' /\ refresh'.step = "load" /\ refresh'.page = 1 /\ refresh'.validator = <<>>
        /\ refresh'.releases = <<>>
    <3>1. "load" \in CatalogSteps /\ 1 \in 0 .. MaximumPages + 1
      BY <1>1 DEF CatalogSteps
    <3> QED
      BY <1>1, <1>2, <2>1, <3>1, RefreshMoves
  <2>3. ProbeInv'
    BY <2>2 DEF ProbeInv
  <2>4. LoadInv'
    BY HostAssumption, <2>2, NothingShown DEF LoadInv, Shown, Covered, Catalog!ToSet
  <2> QED
    BY <1>2, <2>2, <2>3, <2>4 DEF CatalogInv
<1>4. CASE Catalog!PageIsEmpty(refresh.page) /\ ~Catalog!HasNextLink(refresh.page)
  <2>1. refresh' = [refresh EXCEPT !.step = "unchanged"]
    BY <1>4 DEF Catalog!ProbeLastPage
  <2>2. /\ RefreshTypes' /\ refresh'.step = "unchanged" /\ refresh'.page = refresh.page
        /\ refresh'.validator = <<>>
        /\ refresh'.releases = <<>> /\ refresh'.quiet = refresh.quiet
    <3>1. "unchanged" \in CatalogSteps /\ refresh.page \in 0 .. MaximumPages + 1
      BY <1>1 DEF CatalogSteps
    <3>2. refresh' = [refresh EXCEPT !.step = "unchanged", !.page = refresh.page]
      BY <1>2, <2>1 DEF RefreshTypes
    <3> QED
      BY <1>1, <1>2, <3>1, <3>2, RefreshMoves
  <2>3. Len(listed) <= (refresh.page - 1) * PerPage
    <3>1. refresh.page \in Nat \ {0}
      BY <1>1
    <3> QED
      BY <1>4, <3>1, PageShows DEF CatalogInv, Catalog!PageIsEmpty
  <2>4. ProbeInv'
    <3>1. PICK k \in Nat : k = Len(catalogState.validator) /\ refresh.page = k + 1 /\ (k + 1) - 1 = k
      BY <1>1
    <3>2. refresh.quiet => Covered(catalogState.validator, k) = Shown(k * PerPage) /\ Len(listed) <= k * PerPage
      BY <1>1, <2>3, <3>1 DEF CatalogInv, ProbeInv
    <3>3. /\ Covered(catalogState'.validator, k) = Covered(catalogState.validator, k)
          /\ (Shown(k * PerPage))' = Shown(k * PerPage)
      BY <1>1, ShownStays
    <3>4. refresh'.page = k + 1 /\ Len(catalogState'.validator) = k /\ k + 1 \in 1 .. k + 1
      BY <1>1, <2>2, <3>1
    <3> QED
      BY <1>1, <2>2, <3>1, <3>2, <3>3, <3>4 DEF ProbeInv, Covered, Shown, Catalog!ToSet
  <2>5. LoadInv'
    BY <2>2 DEF LoadInv
  <2> QED
    BY <1>2, <2>2, <2>4, <2>5 DEF CatalogInv
<1> QED
  BY <1>3, <1>4

\* A loaded page is one more that upstream shows.
LEMMA LoadPageKeeps ==
  ASSUME CatalogInv, Catalog!LoadPage
  PROVE  CatalogInv'
<1>1. /\ refresh.step = "load" /\ refresh.page <= MaximumPages /\ UNCHANGED <<listed, catalogState>>
      /\ MaximumPages \in Nat /\ PerPage \in Nat
  BY HostAssumption DEF Catalog!LoadPage
<1>2. ListTypes' /\ CatalogStateTypes' /\ ListedInv' /\ RefreshTypes /\ ListTypes
  BY <1>1 DEF CatalogInv, ListTypes, CatalogStateTypes, ListedInv, AllTagged, Covered
<1>3. PICK v \in Seq(Etags), r \in Seq(Releases), q \in BOOLEAN, k \in Nat \ {0} :
        /\ refresh = [step |-> "load", page |-> k, validator |-> v, releases |-> r, quiet |-> q]
        /\ k = Len(v) + 1 /\ Len(r) <= (k - 1) * PerPage
        /\ AllTagged(v) => Catalog!ToSet(r) = Covered(v, k - 1)
        /\ q => Catalog!ToSet(r) = Shown((k - 1) * PerPage)
  <2>1. /\ refresh.page = Len(refresh.validator) + 1
        /\ Len(refresh.releases) <= (refresh.page - 1) * PerPage
        /\ AllTagged(refresh.validator) => Catalog!ToSet(refresh.releases) = Covered(refresh.validator, refresh.page - 1)
        /\ refresh.quiet => Catalog!ToSet(refresh.releases) = Shown((refresh.page - 1) * PerPage)
    BY <1>1 DEF CatalogInv, LoadInv
  <2>2. /\ refresh.validator \in Seq(Etags) /\ refresh.releases \in Seq(Releases)
        /\ refresh.quiet \in BOOLEAN
        /\ refresh = [step |-> refresh.step, page |-> refresh.page, validator |-> refresh.validator,
                      releases |-> refresh.releases, quiet |-> refresh.quiet]
    BY <1>2 DEF RefreshTypes
  <2>3. refresh.page \in Nat \ {0}
    BY <2>1, <2>2
  <2> QED
    BY <1>1, <2>1, <2>2, <2>3
<1>4. PICK etag \in {Catalog!Page(k), Catalog!NoETag}, s \in {"load", "repository"} :
        /\ refresh' = [step |-> s, page |-> k + 1, validator |-> Append(v, etag),
                       releases |-> r \o Catalog!Page(k), quiet |-> q]
        /\ s = "repository" <=> ~Catalog!HasNextLink(k)
  BY <1>3 DEF Catalog!LoadPage
<1>5. /\ Catalog!Page(k) \in Seq(Releases) /\ Len(Catalog!Page(k)) <= PerPage
      /\ Shown(k * PerPage) = Shown((k - 1) * PerPage) \cup Catalog!ToSet(Catalog!Page(k))
      /\ Catalog!Page(k) # Catalog!NoETag /\ (~Catalog!HasNextLink(k) => Len(listed) <= k * PerPage)
  BY <1>2, PageShows
<1>6. /\ r \o Catalog!Page(k) \in Seq(Releases)
      /\ Len(r \o Catalog!Page(k)) = Len(r) + Len(Catalog!Page(k))
      /\ Catalog!ToSet(r \o Catalog!Page(k)) = Catalog!ToSet(r) \cup Catalog!ToSet(Catalog!Page(k))
  BY <1>5, JoinedLists
<1>7. /\ Append(v, etag) \in Seq(Etags) /\ Len(Append(v, etag)) = k /\ Append(v, etag)[k] = etag
      /\ \A i \in 1 .. k - 1 : Append(v, etag)[i] = v[i]
  <2>1. etag \in Etags
    BY <1>5 DEF Etags
  <2> QED
    BY <1>3, <2>1
<1>8. RefreshTypes'
  BY <1>1, <1>3, <1>4, <1>6, <1>7 DEF RefreshTypes, CatalogSteps
<1>9. ProbeInv'
  BY <1>4 DEF ProbeInv
<1>10. PICK w \in Seq(Etags), t \in Seq(Releases) :
         /\ w = Append(v, etag) /\ t = r \o Catalog!Page(k)
         /\ refresh' = [step |-> s, page |-> k + 1, validator |-> w, releases |-> t, quiet |-> q]
  BY <1>4, <1>6, <1>7
<1>11. Len(t) <= k * PerPage
  <2>1. PICK a \in Nat, b \in Nat : a = (k - 1) * PerPage /\ b = k * PerPage /\ b = a + PerPage
    <3>1. /\ (k - 1) * PerPage \in Nat /\ k * PerPage \in Nat
          /\ k * PerPage = (k - 1) * PerPage + PerPage
      BY <1>1
    <3> QED
      BY <3>1
  <2> QED
    BY <1>1, <1>3, <1>5, <1>6, <1>10, <2>1
<1>12. ASSUME AllTagged(w) PROVE Catalog!ToSet(t) = Covered(w, k)
  <2>1. /\ DOMAIN w = 1 .. k /\ DOMAIN v = 1 .. k - 1 /\ w[k] = etag
        /\ \A i \in 1 .. k - 1 : w[i] = v[i]
    BY <1>3, <1>7, <1>10
  <2>2. AllTagged(v) /\ etag = Catalog!Page(k)
    BY <1>12, <2>1 DEF AllTagged
  <2>3. Covered(w, k - 1) = Covered(v, k - 1)
    BY <2>1 DEF Covered
  <2>4. Covered(w, k) = Covered(w, k - 1) \cup Catalog!ToSet(w[k])
    BY HeldGrows
  <2> QED
    BY <1>3, <1>6, <1>10, <2>1, <2>2, <2>3, <2>4
<1>13. q => Catalog!ToSet(t) = Shown(k * PerPage)
  BY <1>3, <1>5, <1>6, <1>10
<1>14. Len(w) = k
  BY <1>7, <1>10
<1>15. /\ refresh'.page = k + 1 /\ refresh'.validator = w /\ refresh'.releases = t
       /\ refresh'.quiet = q /\ refresh'.step = s
       /\ (k + 1) - 1 = k /\ listed' = listed
  BY <1>1, <1>10
<1>16. LoadInv'
  <2>1. (Shown(k * PerPage))' = Shown(k * PerPage)
    BY <1>1, ShownStays
  <2>2. /\ refresh'.page = Len(refresh'.validator) + 1 /\ refresh'.page - 1 = k
        /\ Len(refresh'.releases) <= k * PerPage
        /\ AllTagged(refresh'.validator) => Catalog!ToSet(refresh'.releases) = Covered(refresh'.validator, k)
        /\ refresh'.quiet => Catalog!ToSet(refresh'.releases) = (Shown(k * PerPage))'
    BY <1>11, <1>12, <1>13, <1>14, <1>15, <2>1
  <2>3. refresh'.step = "repository" /\ refresh'.quiet => Len(listed') <= k * PerPage
    BY <1>4, <1>5, <1>15
  <2>4. refresh'.page <= MaximumPages + 1 /\ refresh'.page > 1
    BY <1>1, <1>3, <1>15
  <2> QED
    BY <2>2, <2>3, <2>4 DEF LoadInv, Shown, Covered, AllTagged, Catalog!ToSet
<1> QED
  BY <1>2, <1>8, <1>9, <1>16 DEF CatalogInv

\* What is saved is what upstream showed, if it rested.
LEMMA SaveKeeps ==
  ASSUME CatalogInv, Catalog!Save, catalogClock \in Int
  PROVE  CatalogInv' /\ RefreshesExactly
<1>1. refresh' = Catalog!Idle /\ listed' = listed /\ ListTypes
  BY DEF Catalog!Save, CatalogInv
<1>2. ListTypes' /\ RefreshTypes' /\ ProbeInv' /\ LoadInv'
  BY HostAssumption, <1>1 DEF ListTypes, RefreshTypes, ProbeInv, LoadInv, Catalog!Idle,
     CatalogSteps
<1>3. CASE /\ refresh.step = "unchanged"
           /\ catalogState' = [catalogState EXCEPT !.refreshed = catalogClock]
  <2>1. /\ CatalogStateTypes' /\ catalogState'.catalog = catalogState.catalog
        /\ catalogState'.validator = catalogState.validator
    BY <1>3 DEF CatalogStateTypes, CatalogInv
  <2>2. ListedInv'
    BY <2>1 DEF ListedInv, CatalogInv, AllTagged, Covered
  <2>3. ASSUME refresh.quiet PROVE catalogState.catalog = Catalog!Filter(listed)
    <3>1. PICK k \in Nat : k = Len(catalogState.validator) /\ refresh.page - 1 = k
      BY <1>3 DEF CatalogInv, ProbeInv, CatalogStateTypes
    <3>2. /\ Covered(catalogState.validator, k) = Shown(k * PerPage) /\ Len(listed) <= k * PerPage
          /\ k * PerPage \in Nat
      BY HostAssumption, <1>3, <2>3, <3>1 DEF CatalogInv, ProbeInv
    <3>3. catalogState.catalog = Covered(catalogState.validator, k) \cap Stable
      BY <1>3, <3>1 DEF CatalogInv, ProbeInv, ListedInv
    <3> QED
      BY <1>1, <3>2, <3>3, AllShown DEF Catalog!Filter
  <2> QED
    BY <1>2, <2>1, <2>2, <2>3 DEF CatalogInv, RefreshesExactly
<1>4. CASE /\ refresh.step = "repository"
           /\ catalogState' = [stored |-> TRUE, validator |-> Catalog!PageValidator(refresh.validator),
                               catalog |-> Catalog!Filter(refresh.releases), refreshed |-> catalogClock]
  <2>1. PICK k \in Nat : /\ k = Len(refresh.validator) /\ refresh.page - 1 = k /\ k <= MaximumPages
                         /\ AllTagged(refresh.validator) => Catalog!ToSet(refresh.releases) = Covered(refresh.validator, k)
                         /\ refresh.quiet => Catalog!ToSet(refresh.releases) = Shown(k * PerPage) /\ Len(listed) <= k * PerPage
    <3>1. /\ Len(refresh.validator) \in Nat /\ refresh.page = Len(refresh.validator) + 1
          /\ MaximumPages \in Nat
      BY HostAssumption, <1>4 DEF CatalogInv, LoadInv, RefreshTypes
    <3>2. refresh.page - 1 = Len(refresh.validator)
      BY <3>1
    <3> QED
      BY <1>4, <3>1, <3>2 DEF CatalogInv, LoadInv
  <2>2. Catalog!PageValidator(refresh.validator) = IF AllTagged(refresh.validator) THEN refresh.validator ELSE <<>>
    BY DEF Catalog!PageValidator, AllTagged
  <2>3. CatalogStateTypes'
    <3>1. refresh.validator \in Seq(Etags) /\ Catalog!Filter(refresh.releases) \subseteq Stable
      BY DEF CatalogInv, RefreshTypes, Catalog!Filter
    <3> QED
      BY HostAssumption, <1>4, <2>1, <2>2, <3>1 DEF CatalogStateTypes
  <2>4. ListedInv'
    <3>1. ASSUME catalogState'.validator # <<>>
          PROVE  /\ AllTagged(refresh.validator) /\ catalogState'.validator = refresh.validator
                 /\ catalogState'.catalog = Covered(refresh.validator, k) \cap Stable
      BY <1>4, <2>1, <2>2, <3>1 DEF Catalog!Filter
    <3> QED
      BY <2>1, <3>1 DEF ListedInv, AllTagged, Covered
  <2>5. refresh.quiet => catalogState'.catalog = Catalog!Filter(listed)
    <3>1. k * PerPage \in Nat
      BY HostAssumption
    <3> QED
      BY <1>1, <1>4, <2>1, <3>1, AllShown DEF Catalog!Filter
  <2> QED
    BY <1>2, <2>3, <2>4, <2>5 DEF CatalogInv, RefreshesExactly
<1> QED
  BY <1>3, <1>4 DEF Catalog!Save

\* A release is on the list once.
LEMMA ListsStayInjective ==
  ASSUME ListTypes, NEW r \in Releases, NEW place \in Nat, Catalog!Publish(r, place) \/ Catalog!Withdraw(place)
  PROVE  ListTypes'
<1>1. listed \in Seq(Releases) /\ \A a, b \in 1 .. Len(listed) : listed[a] = listed[b] => a = b
  BY DEF ListTypes, Catalog!IsInjective
<1>2. PICK n \in Nat : n = Len(listed)
  BY <1>1
<1>3. CASE Catalog!Publish(r, place)
  <2>1. place \in 1 .. n + 1 /\ \A i \in 1 .. n : listed[i] # r
    BY <1>1, <1>2, <1>3 DEF Catalog!Publish, Catalog!ToSet
  <2>2. PICK before \in Seq(Releases), after \in Seq(Releases) :
          /\ before = SubSeq(listed, 1, place - 1) /\ after = SubSeq(listed, place, n)
          /\ Len(before) = place - 1 /\ Len(after) = n - place + 1
          /\ \A i \in 1 .. place - 1 : before[i] = listed[i]
          /\ \A i \in 1 .. n - place + 1 : after[i] = listed[place - 1 + i]
    <3>1. /\ SubSeq(listed, 1, place - 1) \in Seq(Releases)
          /\ Len(SubSeq(listed, 1, place - 1)) = place - 1
      BY <1>1, <1>2, <2>1
    <3>2. SubSeq(listed, place, n) \in Seq(Releases) /\ Len(SubSeq(listed, place, n)) = n - place + 1
      BY <1>1, <1>2, <2>1
    <3>3. \A i \in 1 .. place - 1 : SubSeq(listed, 1, place - 1)[i] = listed[i]
      BY <1>1, <1>2, <2>1
    <3>4. \A i \in 1 .. n - place + 1 : SubSeq(listed, place, n)[i] = listed[place - 1 + i]
      BY <1>1, <1>2, <2>1
    <3> QED
      BY <3>1, <3>2, <3>3, <3>4
  <2>3. listed' = before \o <<r>> \o after
    BY <1>2, <1>3, <2>2 DEF Catalog!Publish, Catalog!InsertAt
  <2>4. listed' \in Seq(Releases) /\ Len(listed') = n + 1
    <3>1. <<r>> \o after \in Seq(Releases) /\ Len(<<r>> \o after) = n - place + 2
      BY <2>1, <2>2
    <3>2. (place - 1) + (n - place + 2) = n + 1
      BY <2>1
    <3>3. /\ before \o (<<r>> \o after) \in Seq(Releases)
          /\ Len(before \o (<<r>> \o after)) = (place - 1) + (n - place + 2)
      BY <2>2, <3>1
    <3> QED
      BY <2>3, <3>2, <3>3
  <2>5. \A i \in 1 .. n + 1 : listed'[i] = IF i < place THEN listed[i] ELSE IF i = place THEN r ELSE listed[i - 1]
    <3>1. PICK head \in Seq(Releases) : head = before \o <<r>> /\ Len(head) = place /\ listed' = head \o after
      <4>1. Len(before \o <<r>>) = place /\ before \o <<r>> \in Seq(Releases)
        BY <2>1, <2>2
      <4>2. (before \o <<r>>) \o after = before \o <<r>> \o after
        OBVIOUS
      <4> QED
        BY <2>3, <4>1, <4>2
    <3>2. \A i \in 1 .. place : head[i] = IF i < place THEN listed[i] ELSE r
      <4>1. Len(before) = place - 1 /\ place \in Nat
        BY <2>1, <2>2
      <4>2. \A i \in 1 .. place : head[i] = IF i <= place - 1 THEN before[i] ELSE r
        BY <3>1, <4>1
      <4> QED
        BY <2>1, <2>2, <4>2
    <3>3. \A i \in 1 .. n + 1 : listed'[i] = IF i <= place THEN head[i] ELSE after[i - place]
      <4>1. Len(head) = place /\ Len(after) = n - place + 1 /\ n \in Nat /\ place \in 1 .. n + 1
        BY <1>2, <2>1, <2>2, <3>1
      <4> QED
        BY <3>1, <4>1
    <3>4. ASSUME NEW i \in 1 .. n + 1, i > place PROVE after[i - place] = listed[i - 1]
      <4>1. i - place \in 1 .. n - place + 1 /\ place - 1 + (i - place) = i - 1
        BY <2>1, <3>4
      <4> QED
        BY <2>2, <4>1
    <3> QED
      <4>1. ASSUME NEW i \in 1 .. n + 1, i <= place
            PROVE  listed'[i] = IF i < place THEN listed[i] ELSE IF i = place THEN r ELSE listed[i - 1]
        BY <2>1, <3>2, <3>3, <4>1
      <4>2. ASSUME NEW i \in 1 .. n + 1, i > place
            PROVE  listed'[i] = IF i < place THEN listed[i] ELSE IF i = place THEN r ELSE listed[i - 1]
        BY <2>1, <3>3, <3>4, <4>2
      <4> QED
        BY <2>1, <4>1, <4>2
  <2>6. \A a, b \in 1 .. n + 1 : listed'[a] = listed'[b] => a = b
    <3>1. ASSUME NEW a \in 1 .. n + 1, NEW b \in 1 .. n + 1, listed'[a] = listed'[b] PROVE a = b
      <4> DEFINE F(i) == IF i < place THEN i ELSE i - 1
      <4>1. \A i \in 1 .. n + 1 : i # place => F(i) \in 1 .. n /\ listed'[i] = listed[F(i)]
        BY <2>1, <2>5
      <4>2. listed'[place] = r
        BY <2>1, <2>5
      <4>3. CASE a # place /\ b # place
        <5>1. F(a) = F(b)
          BY <1>1, <1>2, <3>1, <4>1, <4>3
        <5> QED
          BY <2>1, <4>3, <5>1
      <4>4. CASE a = place \/ b = place
        BY <2>1, <3>1, <4>1, <4>2, <4>4
      <4> QED
        BY <4>3, <4>4
    <3> QED
      BY <3>1
  <2> QED
    BY <2>4, <2>6 DEF ListTypes, Catalog!IsInjective
<1>4. CASE Catalog!Withdraw(place)
  <2>1. place \in 1 .. n /\ listed' = SubSeq(listed, 1, place - 1) \o SubSeq(listed, place + 1, n)
    BY <1>1, <1>2, <1>4 DEF Catalog!Withdraw, Catalog!RemoveAt
  <2>2. PICK before \in Seq(Releases), after \in Seq(Releases) :
          /\ before = SubSeq(listed, 1, place - 1) /\ after = SubSeq(listed, place + 1, n)
          /\ Len(before) = place - 1 /\ Len(after) = n - place
          /\ \A i \in 1 .. place - 1 : before[i] = listed[i]
          /\ \A i \in 1 .. n - place : after[i] = listed[place + i]
    <3>1. /\ SubSeq(listed, 1, place - 1) \in Seq(Releases)
          /\ Len(SubSeq(listed, 1, place - 1)) = place - 1
      BY <1>1, <1>2, <2>1
    <3>2. /\ SubSeq(listed, place + 1, n) \in Seq(Releases)
          /\ Len(SubSeq(listed, place + 1, n)) = n - place
      BY <1>1, <1>2, <2>1
    <3>3. \A i \in 1 .. place - 1 : SubSeq(listed, 1, place - 1)[i] = listed[i]
      BY <1>1, <1>2, <2>1
    <3>4. \A i \in 1 .. n - place : SubSeq(listed, place + 1, n)[i] = listed[place + i]
      BY <1>1, <1>2, <2>1
    <3> QED
      BY <3>1, <3>2, <3>3, <3>4
  <2>3. listed' \in Seq(Releases) /\ Len(listed') = n - 1
    BY <2>1, <2>2
  <2>4. \A i \in 1 .. n - 1 : listed'[i] = IF i < place THEN listed[i] ELSE listed[i + 1]
    <3>1. \A i \in 1 .. n - 1 : listed'[i] = IF i < place THEN before[i] ELSE after[i - place + 1]
      <4>1. listed' = before \o after /\ place \in 1 .. n /\ n \in Nat
        BY <1>2, <2>1, <2>2
      <4>2. \A i \in 1 .. n - 1 : (before \o after)[i] = IF i <= place - 1 THEN before[i] ELSE after[i - (place - 1)]
        BY <2>2, <4>1
      <4>3. \A i \in 1 .. n - 1 : (i <= place - 1 <=> i < place) /\ i - (place - 1) = i - place + 1
        BY <4>1
      <4> QED
        BY <4>1, <4>2, <4>3
    <3>2. ASSUME NEW i \in 1 .. n - 1, ~(i < place) PROVE after[i - place + 1] = listed[i + 1]
      <4>1. i - place + 1 \in 1 .. n - place /\ place + (i - place + 1) = i + 1
        BY <2>1, <3>2
      <4> QED
        BY <2>2, <4>1
    <3> QED
      <4>1. ASSUME NEW i \in 1 .. n - 1, i < place PROVE listed'[i] = listed[i]
        BY <2>1, <2>2, <3>1, <4>1
      <4>2. ASSUME NEW i \in 1 .. n - 1, ~(i < place) PROVE listed'[i] = listed[i + 1]
        BY <3>1, <3>2, <4>2
      <4> QED
        BY <4>1, <4>2
  <2>5. \A a, b \in 1 .. n - 1 : listed'[a] = listed'[b] => a = b
    <3>1. ASSUME NEW a \in 1 .. n - 1, NEW b \in 1 .. n - 1, listed'[a] = listed'[b] PROVE a = b
      <4> DEFINE F(i) == IF i < place THEN i ELSE i + 1
      <4>1. \A i \in 1 .. n - 1 : F(i) \in 1 .. n /\ listed'[i] = listed[F(i)]
        <5>1. \A i \in 1 .. n - 1 : F(i) \in 1 .. n
          BY <2>1
        <5>2. \A i \in 1 .. n - 1 : listed'[i] = listed[F(i)]
          BY <2>4
        <5> QED
          BY <5>1, <5>2
      <4>2. F(a) = F(b)
        BY <1>1, <1>2, <3>1, <4>1
      <4> QED
        BY <2>1, <4>2
    <3> QED
      BY <3>1
  <2> QED
    BY <2>3, <2>5 DEF ListTypes, Catalog!IsInjective
<1> QED
  BY <1>3, <1>4

\* Every step keeps the invariant, and changes the catalog to what upstream shows.
LEMMA CatalogStep ==
  ASSUME CatalogInv, catalogClock \in Int, [Catalog!Next]_(Catalog!catalogVars)
  PROVE  CatalogInv' /\ catalogClock' \in Int /\ RefreshesExactly
<1>1. /\ ListTypes /\ CatalogStateTypes /\ RefreshTypes /\ ListedInv /\ ProbeInv /\ LoadInv
      /\ MaximumPages \in Nat
  BY HostAssumption DEF CatalogInv
<1>2. ASSUME UNCHANGED <<listed, catalogState>>, refresh' = Catalog!Idle PROVE CatalogInv'
  <2>1. RefreshTypes' /\ ProbeInv' /\ LoadInv'
    BY <1>1, <1>2 DEF RefreshTypes, ProbeInv, LoadInv, Catalog!Idle, CatalogSteps
  <2> QED
    BY <1>1, <1>2, <2>1 DEF CatalogInv, ListTypes, CatalogStateTypes, ListedInv, AllTagged,
       Covered
<1>3. ASSUME UNCHANGED <<listed, catalogState, refresh>> PROVE CatalogInv'
  <2>1. ListTypes' /\ CatalogStateTypes' /\ RefreshTypes'
    BY <1>1, <1>3 DEF ListTypes, CatalogStateTypes, RefreshTypes
  <2>2. ListedInv'
    BY <1>1, <1>3 DEF ListedInv, AllTagged, Covered
  <2>3. \A n : Shown(n)' = Shown(n)
    BY <1>3, ShownStays
  <2>4. ProbeInv'
    BY <1>1, <1>3, <2>3 DEF ProbeInv, Covered, Shown
  <2>5. LoadInv'
    BY <1>1, <1>3, <2>3 DEF LoadInv, AllTagged, Covered, Shown
  <2> QED
    BY <2>1, <2>2, <2>4, <2>5 DEF CatalogInv
<1>4. ASSUME NEW force \in BOOLEAN, Catalog!RefreshCatalog(force)
      PROVE  CatalogInv' /\ catalogClock' \in Int /\ RefreshesExactly
  <2>1. PICK s \in {"load", "probe"} :
          /\ refresh' = [step |-> s, page |-> 1, validator |-> <<>>, releases |-> <<>>, quiet |-> TRUE]
          /\ s = "load" <=> catalogState.validator = <<>>
    BY <1>4 DEF Catalog!RefreshCatalog, Catalog!Idle
  <2>2. UNCHANGED <<listed, catalogState, catalogClock>>
    BY <1>4 DEF Catalog!RefreshCatalog
  <2>3. RefreshTypes'
    BY <1>1, <2>1 DEF RefreshTypes, CatalogSteps
  <2>4. ListTypes' /\ CatalogStateTypes' /\ ListedInv'
    BY <1>1, <2>2 DEF ListTypes, CatalogStateTypes, ListedInv, AllTagged, Covered
  <2>5. /\ refresh'.page = 1 /\ refresh'.validator = <<>> /\ refresh'.releases = <<>>
        /\ refresh'.step = s
    BY <2>1
  <2>6. ProbeInv'
    <3>1. catalogState.validator # <<>> => Len(catalogState.validator) >= 1 /\ Len(catalogState.validator) \in Nat
      BY <1>1 DEF CatalogStateTypes
    <3>2. (1 - 1) * PerPage = 0
      BY HostAssumption
    <3> QED
      BY <2>1, <2>2, <2>5, <3>1, <3>2 DEF ProbeInv, Covered, Shown
  <2>7. LoadInv'
    BY HostAssumption, <2>5, NothingShown DEF LoadInv, Shown, Covered, Catalog!ToSet
  <2> QED
    BY <2>2, <2>3, <2>4, <2>6, <2>7 DEF CatalogInv, RefreshesExactly
<1>5. CASE Catalog!ProbePage
  BY <1>5, ProbePageKeeps DEF Catalog!ProbePage, RefreshesExactly
<1>6. CASE Catalog!ProbeLastPage
  BY <1>6, ProbeLastPageKeeps DEF Catalog!ProbeLastPage, RefreshesExactly
<1>7. CASE Catalog!LoadPage
  BY <1>7, LoadPageKeeps DEF Catalog!LoadPage, RefreshesExactly
<1>8. CASE Catalog!Save
  BY <1>8, SaveKeeps DEF Catalog!Save
<1>9. CASE Catalog!Fail
  BY <1>2, <1>9 DEF Catalog!Fail, RefreshesExactly
<1>10. CASE Catalog!UpstreamChanges
  <2>1. /\ UNCHANGED <<catalogState, catalogClock>> /\ refresh' = [refresh EXCEPT !.quiet = FALSE]
        /\ \/ \E r \in Releases : \E place \in 1 .. Catalog!Cardinality(Releases) : Catalog!Publish(r, place)
           \/ \E place \in 1 .. Catalog!Cardinality(Releases) : Catalog!Withdraw(place)
    BY <1>10 DEF Catalog!UpstreamChanges
  <2>2. ListTypes'
    <3>1. Catalog!Cardinality(Releases) \in Nat
      BY HostAssumption, CountsReleases, FS_CardinalityType
    <3>2. ASSUME NEW r \in Releases, NEW place \in 1 .. Catalog!Cardinality(Releases), Catalog!Publish(r, place)
          PROVE  ListTypes'
      BY <1>1, <3>1, <3>2, ListsStayInjective
    <3>3. ASSUME NEW place \in 1 .. Catalog!Cardinality(Releases), Catalog!Withdraw(place) PROVE ListTypes'
      <4>1. listed[place] \in Releases
        BY <1>1, <3>3 DEF ListTypes, Catalog!Withdraw
      <4> QED
        BY <1>1, <3>1, <3>3, <4>1, ListsStayInjective
    <3> QED
      BY <2>1, <3>2, <3>3
  <2>3. /\ RefreshTypes' /\ refresh'.quiet = FALSE /\ refresh'.step = refresh.step
        /\ refresh'.page = refresh.page
        /\ refresh'.validator = refresh.validator /\ refresh'.releases = refresh.releases
    BY <1>1, <2>1 DEF RefreshTypes
  <2>4. CatalogStateTypes' /\ ListedInv'
    BY <1>1, <2>1 DEF CatalogStateTypes, ListedInv, AllTagged, Covered
  <2>5. ProbeInv' /\ LoadInv'
    BY <1>1, <2>1, <2>3 DEF ProbeInv, LoadInv, AllTagged, Covered
  <2> QED
    BY <2>1, <2>2, <2>3, <2>4, <2>5 DEF CatalogInv, RefreshesExactly
<1>11. CASE Catalog!Tick
  BY <1>3, <1>11 DEF Catalog!Tick, RefreshesExactly
<1>12. CASE UNCHANGED Catalog!catalogVars
  BY <1>3, <1>12 DEF Catalog!catalogVars, RefreshesExactly
<1> QED
  BY <1>4, <1>5, <1>6, <1>7, <1>8, <1>9, <1>10, <1>11, <1>12 DEF Catalog!Next

\* Nothing is stored at first.
LEMMA CatalogStarts ==
  ASSUME Catalog!Init
  PROVE  CatalogInv /\ catalogClock \in Int
BY HostAssumption DEF Catalog!Init, CatalogInv, ListTypes, CatalogStateTypes, RefreshTypes,
   ListedInv, ProbeInv, LoadInv, Catalog!None, Catalog!Idle, Catalog!IsInjective, CatalogSteps

(***************************************************************************)
(* For lists and pages of any length a refresh during which upstream rests *)
(* ends with the stable releases of the list, loaded or found unchanged.   *)
(***************************************************************************)
THEOREM CatalogInvariant ==
  Catalog!Spec => []Catalog!TypeOK /\ Catalog!RefreshIsExact
<1>1. Catalog!Init => CatalogInv /\ catalogClock \in Int
  BY CatalogStarts
<1>2. (CatalogInv /\ catalogClock \in Int) /\ [Catalog!Next]_(Catalog!catalogVars)
        => (CatalogInv /\ catalogClock \in Int)'
  BY CatalogStep
<1>3. (CatalogInv /\ catalogClock \in Int) /\ [Catalog!Next]_(Catalog!catalogVars)
        => [RefreshesExactly]_(Catalog!catalogVars)
  BY CatalogStep
<1>4. CatalogInv => Catalog!TypeOK
  BY CatalogTypes
<1>5. Catalog!Spec => []CatalogInv /\ [][RefreshesExactly]_(Catalog!catalogVars)
  BY <1>1, <1>2, <1>3, PTL DEF Catalog!Spec
<1>6. [][RefreshesExactly]_(Catalog!catalogVars) <=> Catalog!RefreshIsExact
  BY DEF RefreshesExactly, Catalog!RefreshIsExact
<1> QED
  BY <1>4, <1>5, <1>6, PTL

-----------------------------------------------------------------------------
(* The parts as they run together: each makes a step of its own or stutters *)

LEMMA HostHasMove == Spec => Move!Spec
<1>1. Init => Move!Init
  BY DEF Init
<1>2. [Next]_<<part, moveVars, catalogVars, coresVars, trafficVars, corelogsVars, updateVars, serviceVars>>
        => [Move!Next]_(Move!moveVars)
  BY DEF Next, moveVars, Move!moveVars
<1> QED
  BY <1>1, <1>2, PTL DEF Spec, Move!Spec

\* The cores of this host behave as CoreArtifacts says.
LEMMA HostHasCores == Spec => Cores!Spec
<1>1. Init => Cores!Init
  BY DEF Init
<1>2. [Next]_<<part, moveVars, catalogVars, coresVars, trafficVars, corelogsVars, updateVars, serviceVars>>
        => [Cores!Next]_(Cores!coreVars)
  BY DEF Next, coresVars, Cores!coreVars
<1> QED
  BY <1>1, <1>2, PTL DEF Spec, Cores!Spec

\* The updates of this host behave as SelfUpdate says.
LEMMA HostHasUpdate == Spec => Update!Spec
<1>1. Init => Update!Init
  BY DEF Init
<1>2. [Next]_<<part, moveVars, catalogVars, coresVars, trafficVars, corelogsVars, updateVars, serviceVars>>
        => [Update!Next]_(Update!updateVars)
  BY DEF Next, updateVars, Update!updateVars
<1> QED
  BY <1>1, <1>2, PTL DEF Spec, Update!Spec

\* The service of this host behaves as SystemService says.
LEMMA HostHasService == Spec => Service!Spec
<1>1. Init => Service!Init
  BY DEF Init
<1>2. [Next]_<<part, moveVars, catalogVars, coresVars, trafficVars, corelogsVars, updateVars, serviceVars>>
        => [Service!Next]_(Service!serviceVars)
  BY DEF Next, serviceVars, Service!serviceVars
<1> QED
  BY <1>1, <1>2, PTL DEF Spec, Service!Spec

\* The catalog of this host behaves as CoreCatalog says.
LEMMA HostHasCatalog == Spec => Catalog!Spec
<1>1. Init => Catalog!Init
  BY DEF Init
<1>2. [Next]_<<part, moveVars, catalogVars, coresVars, trafficVars, corelogsVars, updateVars, serviceVars>>
        => [Catalog!Next]_(Catalog!catalogVars)
  BY DEF Next, catalogVars, Catalog!catalogVars
<1> QED
  BY <1>1, <1>2, PTL DEF Spec, Catalog!Spec

(***************************************************************************)
(* Wherever a move is interrupted, in any order of the entries it removes, *)
(* and for any number of directories, processes and moves, the newest      *)
(* version of every item is on disk (moveDataDirectory, removeMovedSource).*)
(***************************************************************************)
THEOREM MovesLoseNothing == Spec => []NothingIsLost
<1>1. MoveInv => NothingIsLost
  BY MoveKeepsTypes, MoveLosesNothing DEF NothingIsLost
<1> QED
  BY <1>1, HostHasMove, MoveInvariant, PTL

(***************************************************************************)
(* A panel that serves has all of the data in its newest version, and no   *)
(* other one serves (EstablishDataLocation, AcquireLease).                 *)
(***************************************************************************)
THEOREM PanelsServeTheData == Spec => []ServesTheData
<1>1. MoveInv => ServesTheData
  BY MoveServesTheData DEF ServesTheData
<1> QED
  BY <1>1, HostHasMove, MoveInvariant, PTL

(***************************************************************************)
(* Every core that the database offers, a startup artifact needs or the    *)
(* panel applies is completely stored, also after a power failure.         *)
(***************************************************************************)
THEOREM CoresAreAlwaysInstalled == Spec => []CoresAreInstalled
<1>1. CoresInv /\ Cores!CoresAreInstalled => CoresAreInstalled
  BY DEF CoresInv, CoresAreInstalled
<1> QED
  BY <1>1, HostHasCores, CoresInvariant, CoresStayInstalled, PTL

(***************************************************************************)
(* Whatever interleaves with an update, it replaces the executable that it *)
(* compared, by a whole build that was signed for a newer release (Update).*)
(***************************************************************************)
THEOREM UpdatesKeepTheirPromise == Spec => UpdatesReplaceWhatTheySaw
<1>1. Update!Spec => [](UpdateInv /\ Update!TypeOK) /\ Update!UpdatesReplaceWhatTheySaw
  BY UpdateInvariant
<1>2. [](UpdateInv /\ Update!TypeOK) => [](part = "update" => Update!TypeOK)
  BY PTL
<1> QED
  BY <1>1, <1>2, HostHasUpdate DEF UpdatesReplaceWhatTheySaw

(***************************************************************************)
(* A service that runs keeps its account, and what the settings and the    *)
(* record name is never owned by nobody (removeSystemAccount,              *)
(* retainedAccountPaths).                                                  *)
(***************************************************************************)
THEOREM AccountsLeaveNothingBehind == Spec => []AccountLeavesNothingBehind
<1>1. ServiceInv => AccountLeavesNothingBehind
  BY DEF ServiceInv, AccountLeavesNothingBehind
<1> QED
  BY <1>1, HostHasService, ServiceInvariant, PTL

(***************************************************************************)
(* A refresh during which upstream stays as it is leaves exactly its       *)
(* stable releases, whatever earlier refreshes met between two pages       *)
(* (releasePagesUnchanged, loadReleasePages, encodePageValidator).         *)
(***************************************************************************)
THEOREM RefreshesAreExact == Spec => RefreshIsExact
<1>1. Catalog!Spec => []Catalog!TypeOK /\ Catalog!RefreshIsExact
  BY CatalogInvariant
<1>2. []Catalog!TypeOK => [](part = "catalog" => Catalog!TypeOK)
  BY PTL
<1> QED
  BY <1>1, <1>2, HostHasCatalog DEF RefreshIsExact
=============================================================================
