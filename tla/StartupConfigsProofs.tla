------------------------ MODULE StartupConfigsProofs ------------------------
(***************************************************************************)
(* Proofs about StartupConfigs for every set of digests and every finite   *)
(* set of handles.  ConfigsInv is inductive: that a held file stays needs  *)
(* the counters to be exact, and their exactness is counting holders.      *)
(***************************************************************************)
EXTENDS StartupConfigs, FiniteSetTheorems, TLAPS

\* The set of handles on a digest is finite, so it has a cardinality, which
\* is zero only if nobody holds the digest.
LEMMA HoldersFinite ==
  ASSUME NEW d
  PROVE  /\ IsFiniteSet(HoldersOf(d))
         /\ Cardinality(HoldersOf(d)) \in Nat
         /\ Cardinality(HoldersOf(d)) = 0 <=> HoldersOf(d) = {}
<1>1. HoldersOf(d) \in SUBSET Holders
  BY DEF HoldersOf
<1>2. IsFiniteSet(HoldersOf(d))
  BY <1>1, FS_Subset, ConfigsAssumption
<1> QED
  BY <1>2, FS_CardinalityType, FS_EmptySet

\* The same for the handles after a step.
LEMMA HoldersFiniteAfter ==
  ASSUME NEW d
  PROVE  /\ IsFiniteSet(HoldersOf(d)')
         /\ Cardinality(HoldersOf(d)') \in Nat
         /\ Cardinality(HoldersOf(d)') = 0 <=> HoldersOf(d)' = {}
<1>1. HoldersOf(d)' \in SUBSET Holders
  BY DEF HoldersOf
<1>2. IsFiniteSet(HoldersOf(d)')
  BY <1>1, FS_Subset, ConfigsAssumption
<1> QED
  BY <1>2, FS_CardinalityType, FS_EmptySet

\* What removeUnusedLocked leaves: the counters it was given, and every name
\* that has a user.
LEMMA RemoveKeepsUsed ==
  ASSUME NEW counts \in [Names -> Nat], NEW names \in SUBSET Names, NEW failed,
         RemoveUnused(counts, names, failed)
  PROVE  /\ users' = counts
         /\ tracked' \subseteq names /\ disk' \subseteq disk
         /\ \A n \in names : counts[n] # 0 => n \in tracked'
         /\ \A n \in disk : n \notin names \/ counts[n] # 0 => n \in disk'
BY DEF RemoveUnused, Unused

\* A handle that opens a digest is one more holder of it, and of no other.
LEMMA HoldersGrow ==
  ASSUME TypeOK, NEW h \in Holders, NEW d \in Digests, held[h] = NoDigest,
         held' = [held EXCEPT ![h] = d], NEW e \in Digests
  PROVE  Cardinality(HoldersOf(e)') =
           IF e = d THEN Cardinality(HoldersOf(e)) + 1 ELSE Cardinality(HoldersOf(e))
<1>1. CASE e = d
  <2>1. HoldersOf(e)' = HoldersOf(e) \cup {h} /\ h \notin HoldersOf(e)
    BY <1>1, ConfigsAssumption DEF HoldersOf, TypeOK
  <2> QED
    BY <2>1, <1>1, HoldersFinite, FS_AddElement
<1>2. CASE e # d
  <2>1. HoldersOf(e)' = HoldersOf(e)
    BY <1>2, ConfigsAssumption DEF HoldersOf, TypeOK
  <2> QED
    BY <2>1, <1>2
<1> QED
  BY <1>1, <1>2

\* A handle that closes is one holder less of its digest, and of no other.
LEMMA HoldersShrink ==
  ASSUME TypeOK, NEW h \in Holders, held[h] # NoDigest,
         held' = [held EXCEPT ![h] = NoDigest], NEW e \in Digests
  PROVE  Cardinality(HoldersOf(e)') =
           IF e = held[h] THEN Cardinality(HoldersOf(e)) - 1 ELSE Cardinality(HoldersOf(e))
<1>1. CASE e = held[h]
  <2>1. HoldersOf(e)' = HoldersOf(e) \ {h} /\ h \in HoldersOf(e)
    BY <1>1, ConfigsAssumption DEF HoldersOf, TypeOK
  <2> QED
    BY <2>1, <1>1, HoldersFinite, FS_RemoveElement
<1>2. CASE e # held[h]
  <2>1. HoldersOf(e)' = HoldersOf(e)
    BY <1>2, ConfigsAssumption DEF HoldersOf, TypeOK
  <2> QED
    BY <2>1, <1>2
<1> QED
  BY <1>1, <1>2

\* A held file has a counter above zero.
LEMMA HeldIsCounted ==
  ASSUME ConfigsInv, NEW h \in Holders, held[h] # NoDigest
  PROVE  held[h] \in Digests /\ users[held[h]] \in Nat /\ users[held[h]] # 0
<1>1. held[h] \in Digests
  BY DEF ConfigsInv, TypeOK
<1>2. HoldersOf(held[h]) # {}
  BY DEF HoldersOf
<1>3. users[held[h]] = Cardinality(HoldersOf(held[h]))
  BY <1>1 DEF ConfigsInv, UsersCountHandles
<1> QED
  BY <1>1, <1>2, <1>3, HoldersFinite

\* A new directory satisfies the invariant.
LEMMA InitInv == Init => ConfigsInv
<1> SUFFICES ASSUME Init PROVE ConfigsInv
  OBVIOUS
<1>1. TypeOK /\ HeldFilesStay /\ CountsAreTracked
  BY DEF Init, TypeOK, HeldFilesStay, CountsAreTracked
<1>2. ASSUME NEW d \in Digests PROVE users[d] = Cardinality(HoldersOf(d))
  <2>1. HoldersOf(d) = {}
    BY ConfigsAssumption DEF Init, HoldersOf
  <2>2. users[d] = 0
    BY DEF Init, Names
  <2> QED
    BY <2>1, <2>2, FS_EmptySet
<1> QED
  BY <1>1, <1>2 DEF ConfigsInv, UsersCountHandles

\* A materialized file is counted, tracked and on disk.
LEMMA AcquireInv ==
  ASSUME ConfigsInv, NEW h \in Holders, NEW d \in Digests, Acquire(h, d)
  PROVE  ConfigsInv'
<1> USE DEF ConfigsInv, Names
<1>1. TypeOK'
  BY DEF TypeOK, Acquire
<1>2. HeldFilesStay' /\ CountsAreTracked'
  BY DEF TypeOK, Acquire, HeldFilesStay, CountsAreTracked
<1>3. ASSUME NEW e \in Digests PROVE users'[e] = Cardinality(HoldersOf(e)')
  <2>1. Cardinality(HoldersOf(e)') =
          IF e = d THEN Cardinality(HoldersOf(e)) + 1 ELSE Cardinality(HoldersOf(e))
    BY HoldersGrow DEF Acquire
  <2> QED
    BY <2>1 DEF Acquire, TypeOK, UsersCountHandles
<1> QED
  BY <1>1, <1>2, <1>3 DEF UsersCountHandles

\* Releasing a handle removes a file only with its last user.
LEMMA ReleaseInv ==
  ASSUME ConfigsInv, NEW h \in Holders, Release(h)
  PROVE  ConfigsInv'
<1> USE DEF ConfigsInv, Names
<1> DEFINE counts == [users EXCEPT ![held[h]] = @ - 1]
<1>1. held[h] # NoDigest /\ held' = [held EXCEPT ![h] = NoDigest]
  BY DEF Release
<1>2. held[h] \in Digests /\ users[held[h]] # 0
  BY <1>1, HeldIsCounted
<1>3. counts \in [Names -> Nat]
  BY <1>2 DEF TypeOK
<1>4. PICK failed \in SUBSET Unused(counts, tracked) : RemoveUnused(counts, tracked, failed)
  BY DEF Release
<1>5. /\ users' = counts
      /\ tracked' \subseteq tracked /\ disk' \subseteq disk
      /\ \A n \in tracked : counts[n] # 0 => n \in tracked'
      /\ \A n \in disk : n \notin tracked \/ counts[n] # 0 => n \in disk'
  <2>1. tracked \in SUBSET Names
    BY DEF TypeOK
  <2> QED
    BY <1>3, <1>4, <2>1, RemoveKeepsUsed
<1>6. TypeOK'
  BY <1>1, <1>3, <1>5 DEF TypeOK
<1>7. \A e \in Digests : users'[e] = Cardinality(HoldersOf(e)')
  <2> SUFFICES ASSUME NEW e \in Digests PROVE users'[e] = Cardinality(HoldersOf(e)')
    OBVIOUS
  <2>1. Cardinality(HoldersOf(e)') =
          IF e = held[h] THEN Cardinality(HoldersOf(e)) - 1 ELSE Cardinality(HoldersOf(e))
    BY <1>1, HoldersShrink
  <2> QED
    BY <2>1, <1>5 DEF TypeOK, UsersCountHandles
<1>8. HeldFilesStay'
  <2> SUFFICES ASSUME NEW k \in Holders, held'[k] # NoDigest
               PROVE  held'[k] \in disk' \cap tracked'
    BY DEF HeldFilesStay
  <2>1. held'[k] = held[k] /\ held[k] # NoDigest /\ k # h
    BY <1>1 DEF TypeOK
  <2>2. held[k] \in Digests /\ held[k] \in disk \cap tracked
    BY <2>1 DEF TypeOK, HeldFilesStay
  <2>3. PICK e \in Digests : e = held[k]
    BY <2>2
  <2>4. HoldersOf(e)' # {}
    BY <2>1, <2>3 DEF HoldersOf
  <2>5. Cardinality(HoldersOf(e)') # 0
    BY <2>4, HoldersFiniteAfter
  <2>6. counts[held[k]] # 0
    BY <2>3, <2>5, <1>5, <1>7
  <2> QED
    BY <2>1, <2>2, <2>6, <1>5
<1>9. CountsAreTracked'
  <2> SUFFICES ASSUME NEW n \in Names, users'[n] > 0 PROVE n \in tracked'
    BY DEF CountsAreTracked
  <2>1. users[n] > 0 /\ counts[n] # 0
    BY <1>3, <1>5, <1>2 DEF TypeOK
  <2> QED
    BY <2>1, <1>5 DEF CountsAreTracked
<1> QED
  BY <1>6, <1>7, <1>8, <1>9 DEF UsersCountHandles

\* The steps that open and close no handle and change no counter.
LEMMA QuietInv ==
  ASSUME ConfigsInv, TypeOK', held' = held, users' = users,
         \A n \in Names : users[n] # 0 => /\ n \in tracked => n \in tracked'
                                          /\ n \in disk => n \in disk'
  PROVE  ConfigsInv'
<1> USE DEF ConfigsInv
<1>1. UsersCountHandles'
  BY DEF UsersCountHandles, HoldersOf
<1>2. HeldFilesStay'
  <2> SUFFICES ASSUME NEW h \in Holders, held[h] # NoDigest
               PROVE  held[h] \in disk' \cap tracked'
    BY DEF HeldFilesStay
  <2>1. held[h] \in Names /\ users[held[h]] # 0
    BY HeldIsCounted DEF Names
  <2> QED
    BY <2>1 DEF HeldFilesStay
<1>3. CountsAreTracked'
  BY DEF CountsAreTracked, TypeOK
<1> QED
  BY <1>1, <1>2, <1>3

\* Pruning spares the files in use.
LEMMA PruneInv == ConfigsInv /\ Prune => ConfigsInv'
<1> SUFFICES ASSUME ConfigsInv, Prune PROVE ConfigsInv'
  OBVIOUS
<1> DEFINE names == tracked \cup disk
<1>1. users \in [Names -> Nat] /\ names \in SUBSET Names
  BY DEF ConfigsInv, TypeOK
<1>2. PICK failed \in SUBSET Unused(users, names) : RemoveUnused(users, names, failed)
  BY DEF Prune
<1>3. /\ users' = users
      /\ tracked' \subseteq names /\ disk' \subseteq disk
      /\ \A n \in names : users[n] # 0 => n \in tracked'
      /\ \A n \in disk : n \notin names \/ users[n] # 0 => n \in disk'
  BY <1>1, <1>2, RemoveKeepsUsed
<1>4. held' = held
  BY DEF Prune
<1>5. TypeOK'
  BY <1>1, <1>3, <1>4 DEF ConfigsInv, TypeOK
<1> QED
  BY <1>3, <1>4, <1>5, QuietInv

\* A crash loses the handles and their counts together.
LEMMA CrashInv == ConfigsInv /\ Crash => ConfigsInv'
<1> SUFFICES ASSUME ConfigsInv, Crash PROVE ConfigsInv'
  OBVIOUS
<1>1. TypeOK' /\ HeldFilesStay' /\ CountsAreTracked'
  BY DEF ConfigsInv, Crash, TypeOK, HeldFilesStay, CountsAreTracked, Names
<1>2. ASSUME NEW d \in Digests PROVE users'[d] = Cardinality(HoldersOf(d)')
  <2>1. HoldersOf(d)' = {}
    BY ConfigsAssumption DEF Crash, HoldersOf
  <2>2. users'[d] = 0
    BY DEF Crash, Names
  <2> QED
    BY <2>1, <2>2, FS_EmptySet
<1> QED
  BY <1>1, <1>2 DEF ConfigsInv, UsersCountHandles

\* Every step keeps the invariant.
LEMMA StepInv == ConfigsInv /\ [Next]_configVars => ConfigsInv'
<1> SUFFICES ASSUME ConfigsInv, [Next]_configVars PROVE ConfigsInv'
  OBVIOUS
<1>1. ASSUME NEW h \in Holders, NEW d \in Digests, Acquire(h, d) PROVE ConfigsInv'
  BY <1>1, AcquireInv
<1>2. ASSUME NEW h \in Holders, NEW d \in Digests, AcquireFails(h, d) PROVE ConfigsInv'
  <2>1. TypeOK'
    BY <1>2 DEF AcquireFails, ConfigsInv, TypeOK, Names
  <2> QED
    BY <1>2, <2>1, QuietInv DEF AcquireFails
<1>3. ASSUME NEW h \in Holders, Release(h) PROVE ConfigsInv'
  BY <1>3, ReleaseInv
<1>4. CASE Prune
  BY <1>4, PruneInv
<1>5. CASE PruneCancelled
  <2>1. TypeOK'
    BY <1>5 DEF PruneCancelled, ConfigsInv, TypeOK
  <2> QED
    BY <1>5, <2>1, QuietInv DEF PruneCancelled
<1>6. CASE Crash
  BY <1>6, CrashInv
<1>7. CASE UNCHANGED configVars
  <2>1. TypeOK' /\ held' = held /\ users' = users /\ tracked' = tracked /\ disk' = disk
    BY <1>7 DEF configVars, ConfigsInv, TypeOK
  <2> QED
    BY <2>1, QuietInv
<1> QED
  BY <1>1, <1>2, <1>3, <1>4, <1>5, <1>6, <1>7 DEF Next

(***************************************************************************)
(* In every reachable state the counters of files.users are the open       *)
(* handles, and a file somebody holds is on disk and tracked.              *)
(***************************************************************************)
THEOREM ConfigsInvariant == Spec => []ConfigsInv
<1> QED
  BY InitInv, StepInv, PTL DEF Spec

\* The three invariants the run MCStartupConfigs checks, for every instance.
THEOREM ConfigsSafe == Spec => [](TypeOK /\ HeldFilesStay /\ UsersCountHandles)
<1>1. ConfigsInv => TypeOK /\ HeldFilesStay /\ UsersCountHandles
  BY DEF ConfigsInv
<1> QED
  BY <1>1, ConfigsInvariant, PTL

(***************************************************************************)
(* Outside a crash and a failed acquire no step leaves on disk a file that *)
(* no counter knows: what could not be removed is still tracked.           *)
(***************************************************************************)
THEOREM ConfigsForgetNothing == Spec => NothingIsForgotten
<1> DEFINE Kept == (disk' \ tracked') \subseteq (disk \ tracked)
           Excused == Crash \/ \E h \in Holders, d \in Digests : AcquireFails(h, d)
<1>1. ConfigsInv /\ [Next]_configVars => [Excused \/ Kept]_configVars
  <2> SUFFICES ASSUME ConfigsInv, Next, ~Excused PROVE Kept
    OBVIOUS
  <2>1. ASSUME NEW h \in Holders, NEW d \in Digests, Acquire(h, d) PROVE Kept
    BY <2>1 DEF Acquire
  <2>2. ASSUME NEW h \in Holders, Release(h) PROVE Kept
    BY <2>2 DEF Release, RemoveUnused, Unused
  <2>3. CASE Prune
    BY <2>3 DEF Prune, RemoveUnused, Unused
  <2>4. CASE PruneCancelled
    BY <2>4 DEF PruneCancelled
  <2> QED
    BY <2>1, <2>2, <2>3, <2>4 DEF Next
<1>2. [Excused \/ Kept]_configVars
        => [\/ Crash
            \/ \E h \in Holders, d \in Digests : AcquireFails(h, d)
            \/ (disk' \ tracked') \subseteq (disk \ tracked)]_configVars
  OBVIOUS
<1> QED
  BY <1>1, <1>2, ConfigsInvariant, PTL DEF Spec, NothingIsForgotten

=============================================================================
