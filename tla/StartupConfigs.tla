--------------------------- MODULE StartupConfigs ---------------------------
(***************************************************************************)
(* The disposable execution files of internal/runtime/config_files.go and  *)
(* internal/runtime/materialize.go: one file per startup configuration     *)
(* digest, written for a check or a child and removed with its last user.  *)
(* files.mu makes acquire, Close and prune critical sections, so each is   *)
(* one action here.  A crash of the panel forgets every counter and keeps  *)
(* the directory, with whatever an interrupted materialization left there. *)
(*                                                                         *)
(* Throughout the project an operator whose name extends that of the       *)
(* definition right after it is a faulty variant of that definition: no    *)
(* specification uses it, it serves the mutation checks of the properties. *)
(***************************************************************************)
EXTENDS Integers, FiniteSets

CONSTANTS
  Digests,   \* startup configuration digests
  Holders,   \* handles a check or a child can hold
  NoDigest,  \* a handle that is closed or was never opened
  Temp       \* the temporary file of an interrupted materialization

ASSUME ConfigsAssumption ==
  /\ NoDigest \notin Digests
  /\ Temp \notin Digests
  /\ IsFiniteSet(Holders)

VARIABLES
  held,      \* the digest each handle keeps materialized
  users,     \* files.users, where tracked holds its keys
  tracked,   \* keys of files.users
  disk       \* files present in runtime/configs

configVars == <<held, users, tracked, disk>>

Names == Digests \cup {Temp}

(***************************************************************************)
(* files.removeUnusedLocked: every tracked name without users is removed;  *)
(* a name whose removal fails keeps its zero and is tried again later.     *)
(* The set failed is empty when everything could be removed, and all of    *)
(* the unused names when the directory itself could not be opened.         *)
(***************************************************************************)
UnusedOffByOne(counts, names) == {n \in names : counts[n] <= 1}

Unused(counts, names) == {n \in names : counts[n] = 0}

RemoveUnusedForgetsFailed(counts, names, failed) ==
  LET unused == Unused(counts, names) IN
    /\ users' = counts
    /\ tracked' = names \ unused
    /\ disk' = disk \ (unused \ failed)

RemoveUnused(counts, names, failed) ==
  LET gone == Unused(counts, names) \ failed IN
    /\ users' = counts
    /\ tracked' = names \ gone
    /\ disk' = disk \ gone

TypeOK ==
  /\ held \in [Holders -> Digests \cup {NoDigest}]
  /\ users \in [Names -> Nat]
  /\ tracked \subseteq Names
  /\ disk \subseteq Names

\* What any earlier process may have left in the directory.
Init ==
  /\ held = [h \in Holders |-> NoDigest]
  /\ users = [n \in Names |-> 0]
  /\ tracked = {}
  /\ disk \in SUBSET Names

(***************************************************************************)
(* files.acquire: materialize, then count the new user.  A failure before  *)
(* the link leaves nothing; one after it (syncDirectory) leaves the file   *)
(* without counting it.                                                    *)
(***************************************************************************)
Acquire(h, d) ==
  /\ held[h] = NoDigest
  /\ held' = [held EXCEPT ![h] = d]
  /\ users' = [users EXCEPT ![d] = @ + 1]
  /\ tracked' = tracked \cup {d}
  /\ disk' = disk \cup {d}

AcquireFails(h, d) ==
  /\ held[h] = NoDigest
  /\ disk' \in {disk, disk \cup {d}}
  /\ UNCHANGED <<held, users, tracked>>

(***************************************************************************)
(* startupConfigFile.Close, whose sync.Once makes a second Close a no-op.  *)
(***************************************************************************)
Release(h) ==
  LET d == held[h]
      counts == [users EXCEPT ![d] = @ - 1] IN
    /\ d # NoDigest
    /\ held' = [held EXCEPT ![h] = NoDigest]
    /\ \E failed \in SUBSET Unused(counts, tracked) :
         RemoveUnused(counts, tracked, failed)

(***************************************************************************)
(* files.prune: adopt what is on disk with zero users, remove the unused.  *)
(* A context that ends during the directory walk leaves the names read so  *)
(* far tracked and removes nothing.                                        *)
(***************************************************************************)
Prune ==
  LET names == tracked \cup disk IN
    /\ \E failed \in SUBSET Unused(users, names) :
         RemoveUnused(users, names, failed)
    /\ UNCHANGED held

PruneCancelled ==
  /\ \E seen \in SUBSET disk : tracked' = tracked \cup seen
  /\ UNCHANGED <<held, users, disk>>

(***************************************************************************)
(* The panel dies, perhaps inside acquire: the temporary file may survive, *)
(* and so may the link to it.  Children die with the panel (Pdeathsig).    *)
(***************************************************************************)
Crash ==
  /\ held' = [h \in Holders |-> NoDigest]
  /\ users' = [n \in Names |-> 0]
  /\ tracked' = {}
  /\ \E d \in Digests : disk' \in {disk, disk \cup {Temp}, disk \cup {Temp, d}}

Next ==
  \/ \E h \in Holders, d \in Digests : Acquire(h, d) \/ AcquireFails(h, d)
  \/ \E h \in Holders : Release(h)
  \/ Prune
  \/ PruneCancelled
  \/ Crash

Spec == Init /\ [][Next]_configVars

-----------------------------------------------------------------------------

HoldersOf(d) == {h \in Holders : held[h] = d}

(***************************************************************************)
(* A file a check or a child was started with stays on disk, under its     *)
(* counter, until the last handle on that digest is closed: no release of  *)
(* another digest, failed removal, prune or cancelled prune takes it away. *)
(***************************************************************************)
HeldFilesStay == \A h \in Holders : held[h] # NoDigest => held[h] \in disk \cap tracked

\* The counters of files.users are exactly the open handles on each digest.
UsersCountHandles == \A d \in Digests : users[d] = Cardinality(HoldersOf(d))

\* A name without a counter in files.users has the map's zero value.
CountsAreTracked == \A n \in Names : users[n] > 0 => n \in tracked

ConfigsInv == TypeOK /\ HeldFilesStay /\ UsersCountHandles /\ CountsAreTracked

(***************************************************************************)
(* No file is forgotten: outside a crash and a failed acquire, no step     *)
(* leaves on disk a file that no counter knows, so every removal still     *)
(* owed is retried by a later release.                                     *)
(***************************************************************************)
NothingIsForgotten ==
  [][\/ Crash
     \/ \E h \in Holders, d \in Digests : AcquireFails(h, d)
     \/ (disk' \ tracked') \subseteq (disk \ tracked)]_configVars

=============================================================================
