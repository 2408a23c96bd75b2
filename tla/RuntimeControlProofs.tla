------------------------ MODULE RuntimeControlProofs ------------------------
(***************************************************************************)
(* Proofs about RuntimeControl for every set of bundles, commands and      *)
(* faults and every bound: the selection is sound, a replacement is one of *)
(* a checked and desired bundle, history is closed, a living service is on *)
(* record, evidence fences the living, and recovery is bounded.            *)
(*                                                                         *)
(* The selection needs that a bundle past its check is ready and desired,  *)
(* and that a rollback still names hub.rollback when it commits            *)
(* (SelectionInv); history needs what each kind of evidence will say       *)
(* (EvidenceInv).  Both rest on the types of the first part.  That a       *)
(* living service is on record, that evidence fences the living and that   *)
(* recovery is bounded rest on LaneInv, at the end: who is served at each  *)
(* step (ServiceInv), what the record may name (FenceInv) and how attempts *)
(* and the recovery row agree (BudgetInv).                                 *)
(***************************************************************************)
EXTENDS RuntimeControl, FiniteSetTheorems, TLAPS

-----------------------------------------------------------------------------
(***************************************************************************)
(* Type correctness of RuntimeControl, for every set of bundles, commands  *)
(* and faults and for every bound.                                         *)
(*                                                                         *)
(* The types need to know what kind of intent may be at each step          *)
(* (IntentInv), that the bound on starts was checked when the intent began *)
(* (SpawnInv), that a manager which reports a failure names its bundle     *)
(* (ProcessInv), and that evidence always comes with a state to log        *)
(* (RunInv).                                                               *)
(***************************************************************************)

IntentSteps == Steps \ {"idle", "down", "closing"}
StartKinds == {"apply", "start", "restart", "rollback"}

IntentInv ==
  /\ pc \in IntentSteps => intent.kind \in StartKinds \cup {"stop"}
  /\ pc \in IntentSteps /\ intent.kind # "stop" => intent.bundle \in Bundles
  /\ pc \in {"preflight", "bind", "replace", "launch"} => intent.kind # "stop"

SpawnInv ==
  pc \in {"preflight", "bind", "perform", "replace", "launch"} => Starts < MaxStarts

ProcessInv ==
  /\ manager.process # 0 => child[manager.process] # "none"
  /\ "failed" \in {manager.state, manager.after} => manager.bundle \in Bundles

RunInv ==
  /\ run.evidence # "none" => run.state # "none"
  /\ pc = "lost" => run.state # "none"

ShapeInv == TypeOK /\ IntentInv /\ SpawnInv /\ ProcessInv /\ RunInv

\* The processes ever spawned are finitely many.
LEMMA StartsNat == Starts \in Nat
<1>1. IsFiniteSet({p \in Pids : child[p] # "none"})
  BY FS_Interval, FS_Subset, ControlAssumption DEF Pids
<1> QED
  BY <1>1, FS_CardinalityType DEF Starts

\* Starts counts the processes that were ever spawned.
LEMMA StartsStay ==
  ASSUME \A p \in Pids : (child'[p] = "none") <=> (child[p] = "none")
  PROVE  Starts' = Starts
<1>1. {p \in Pids : child[p] # "none"}' = {p \in Pids : child[p] # "none"}
  OBVIOUS
<1> QED
  BY <1>1 DEF Starts

-----------------------------------------------------------------------------
(* Types.  The record types are kept folded; a step's proof unfolds the one *)
(* of the variable it is about.                                             *)

MaybeBundle == Bundles \cup {None}
MaybePid == Pids \cup {0}
ChildStates == {"none", "alive", "doomed", "dead", "gone"}

Hubs == [desired : MaybeBundle, applied : MaybeBundle, rollback : MaybeBundle,
         running : BOOLEAN, generation : Generations]
Recoveries == [generation : Generations, attempt : 0 .. MaximumAttempts,
               deadline : {"none", "waiting", "due"}, succeeded : BOOLEAN]
Observations == [pid : MaybePid, bundle : MaybeBundle, stable : BOOLEAN]
Failures == [bundle : Bundles, started : MaybePid, cause : Generations, generation : Generations]
Managers == [process : MaybePid, state : {"stopped", "running", "failed"}, bundle : MaybeBundle,
             after : {"stopped", "failed"}, started : MaybePid, cause : Generations]
Intents == [kind : CommandKinds \cup {"none"}, bundle : MaybeBundle, select : BOOLEAN,
            disable : BOOLEAN, recovery : BOOLEAN, boot : BOOLEAN]
Runs == [ended : BOOLEAN, started : BOOLEAN, fence : MaybePid,
         evidence : {"none", "record", "clear"}, state : TransitionStates \cup {"none"},
         ok : BOOLEAN, second : BOOLEAN]

Types ==
  /\ hub \in Hubs /\ recovery \in Recoveries /\ observation \in Observations
  /\ latest \in TransitionStates /\ unobserved \subseteq Failures
  /\ startup \in [Bundles -> {"none", "pending", "failed", "ready"}]
  /\ current \subseteq Bundles /\ fileOk \in BOOLEAN
  /\ manager \in Managers /\ child \in [Pids -> ChildStates]
  /\ pc \in Steps /\ intent \in Intents /\ run \in Runs
  /\ watched \in MaybePid /\ tries \in Nat /\ forgiven \in BOOLEAN

\* The folded types are those of RuntimeControl, before and after a step.
LEMMA TypesFolded == (TypeOK <=> Types) /\ (TypeOK' <=> Types')
<1> USE DEF TypeOK, Types, Hubs, Recoveries, Observations, Failures, Managers, Intents, Runs,
            MaybeBundle, MaybePid, ChildStates
<1>1. TypeOK <=> Types
  OBVIOUS
<1>2. TypeOK' <=> Types'
  OBVIOUS
<1> QED
  BY <1>1, <1>2

\* The fields that steps read have their types.
LEMMA FieldTypes ==
  ASSUME Types
  PROVE  /\ hub.applied \in MaybeBundle /\ hub.rollback \in MaybeBundle
         /\ hub.generation \in Generations
         /\ recovery.attempt \in 0 .. MaximumAttempts
         /\ observation.pid \in MaybePid /\ observation.bundle \in MaybeBundle
         /\ observation.stable \in BOOLEAN
         /\ manager.process \in MaybePid /\ manager.bundle \in MaybeBundle
         /\ manager.started \in MaybePid /\ manager.cause \in Generations
         /\ manager.after \in {"stopped", "failed"}
         /\ intent.bundle \in MaybeBundle /\ intent.kind \in CommandKinds \cup {"none"}
         /\ run.fence \in MaybePid /\ run.state \in TransitionStates \cup {"none"}
         /\ run.ok \in BOOLEAN
BY DEF Types, Hubs, Recoveries, Observations, Managers, Intents, Runs

\* The initial and the empty records have their types.
LEMMA NullTypes ==
  /\ NoObservation \in Observations /\ NoRecovery \in Recoveries
  /\ NoIntent \in Intents /\ NoRun \in Runs /\ NewManager \in Managers
<1> USE ControlAssumption DEF MaybeBundle, MaybePid
<1>1. NoObservation \in Observations
  BY DEF NoObservation, Observations
<1>2. NoRecovery \in Recoveries
  BY DEF NoRecovery, Recoveries, Generations, MaximumAttempts
<1>3. NoIntent \in Intents
  BY DEF NoIntent, Intents
<1>4. NoRun \in Runs
  BY DEF NoRun, Runs
<1>5. NewManager \in Managers
  BY DEF NewManager, Managers, Generations
<1> QED
  BY <1>1, <1>2, <1>3, <1>4, <1>5

\* executeIntent returns to an idle lane, or to the end of the panel.
LEMMA ReturnTypes ==
  ASSUME NEW ok, Return(ok)
  PROVE  pc' \in {"idle", "closing"} /\ intent' = NoIntent /\ run' = NoRun
BY DEF Return

\* recordLiveObservation writes a well-formed row.
LEMMA RecordedTypes ==
  ASSUME Types, Recorded
  PROVE  observation' \in Observations
<1>1. (observation.stable /\ observation.pid = manager.process) \in BOOLEAN
  OBVIOUS
<1> QED
  BY <1>1, FieldTypes DEF Recorded, Observations

\* commitSuccessfulRuntimeIntent writes a well-formed hub row.
LEMMA CommittedTypes ==
  ASSUME Types, IntentInv, pc = "complete"
  PROVE  Committed \in Hubs
<1>1. hub \in Hubs /\ hub.applied \in MaybeBundle /\ None \in MaybeBundle /\ intent.select \in BOOLEAN
  BY FieldTypes DEF Types, MaybeBundle, Intents
<1>2. intent.kind \in StartKinds \cup {"stop"}
  BY DEF IntentInv, IntentSteps, Steps
<1>3. intent.kind # "stop" => intent.bundle \in MaybeBundle
  BY DEF IntentInv, IntentSteps, Steps, MaybeBundle
<1>4. CASE intent.kind \in {"apply", "start", "restart"}
  BY <1>1, <1>3, <1>4 DEF Committed, Hubs
<1>5. CASE intent.kind = "rollback"
  BY <1>1, <1>3, <1>5 DEF Committed, Hubs
<1>6. CASE intent.kind = "stop"
  BY <1>1, <1>6 DEF Committed, Hubs
<1> QED
  BY <1>2, <1>4, <1>5, <1>6 DEF StartKinds

\* Every step that begins no intent and schedules no recovery keeps the types.
LEMMA StepTypes ==
  ASSUME ShapeInv,
         \/ SaveConfiguration
         \/ \E b \in Bundles : CreateStartup(b)
         \/ \E b \in Bundles : CheckStartup(b)
         \/ EndContext
         \/ GiveUp
         \/ Preflight
         \/ Bind
         \/ Perform
         \/ Select
         \/ Replace
         \/ LaunchRefused
         \/ LaunchFails
         \/ LaunchUnhealthy
         \/ LaunchHealthy
         \/ Failed
         \/ Record
         \/ Confirm
         \/ PrepareCommit
         \/ StopLost
         \/ Halt
         \/ Uncertain
         \/ Complete
         \/ CompleteFails
         \/ DeadlinePasses
         \/ TickRunning
         \/ \E p \in Pids : ChildExits(p)
         \/ Reap
         \/ Shutdown
         \/ Close
         \/ Crash
         \/ Boot
         \/ BootStopped
  PROVE  Types'
<1>0. Types /\ IntentInv /\ SpawnInv /\ ProcessInv /\ RunInv
  BY TypesFolded DEF ShapeInv
<1> USE <1>0, FieldTypes, NullTypes, ReturnTypes DEF Types, storeVars, configVars, processVars, laneVars,
        historyVars
<1>1. CASE SaveConfiguration
  <2>1. current' \subseteq Bundles
    BY <1>1 DEF SaveConfiguration
  <2>2. fileOk' \in BOOLEAN
    BY <1>1 DEF SaveConfiguration
  <2> QED
    BY <1>1, <2>1, <2>2 DEF SaveConfiguration
<1>2. CASE \E b \in Bundles : CreateStartup(b)
  <2>1. startup' \in [Bundles -> {"none", "pending", "failed", "ready"}]
    BY <1>2 DEF CreateStartup
  <2>2. current' \subseteq Bundles
    BY <1>2 DEF CreateStartup
  <2> QED
    BY <1>2, <2>1, <2>2 DEF CreateStartup
<1>3. CASE \E b \in Bundles : CheckStartup(b)
  <2>1. startup' \in [Bundles -> {"none", "pending", "failed", "ready"}]
    BY <1>3 DEF CheckStartup
  <2> QED
    BY <1>3, <2>1 DEF CheckStartup
<1>4. CASE EndContext
  <2>1. run' \in Runs
    BY <1>4 DEF EndContext, Runs, MaybePid, TransitionStates
  <2> QED
    BY <1>4, <2>1 DEF EndContext
<1>5. CASE GiveUp
  <2>1. pc' \in Steps
    BY <1>5 DEF GiveUp, Steps
  <2>2. intent' \in Intents
    BY <1>5 DEF GiveUp, Intents
  <2>3. run' \in Runs
    BY <1>5 DEF GiveUp, Runs, MaybePid, TransitionStates
  <2> QED
    BY <1>5, <2>1, <2>2, <2>3 DEF GiveUp
<1>6. CASE Preflight
  <2>1. startup' \in [Bundles -> {"none", "pending", "failed", "ready"}]
    BY <1>6 DEF Preflight
  <2>2. pc' \in Steps
    BY <1>6 DEF Preflight, Steps
  <2>3. intent' \in Intents
    BY <1>6 DEF Preflight, Intents
  <2>4. run' \in Runs
    BY <1>6 DEF Preflight, Runs, MaybePid, TransitionStates
  <2> QED
    BY <1>6, <2>1, <2>2, <2>3, <2>4 DEF Preflight
<1>7. CASE Bind
  <2>1. hub' \in Hubs
    BY <1>7 DEF Bind, Hubs, MaybeBundle
  <2>2. pc' \in Steps
    BY <1>7 DEF Bind, Steps
  <2>3. intent' \in Intents
    BY <1>7 DEF Bind, Intents
  <2>4. run' \in Runs
    BY <1>7 DEF Bind, Runs, MaybePid, TransitionStates
  <2> QED
    BY <1>7, <2>1, <2>2, <2>3, <2>4 DEF Bind
<1>8. CASE Perform
  <2>1. pc' \in Steps
    BY <1>8 DEF Perform, Steps
  <2>2. run' \in Runs
    BY <1>8 DEF Perform, Runs, MaybePid, TransitionStates
  <2> QED
    BY <1>8, <2>1, <2>2 DEF Perform
<1>9. CASE Select
  <2>1. pc' \in Steps
    BY <1>9 DEF Select, Steps
  <2>2. intent' \in Intents
    BY <1>9 DEF Select, Intents
  <2>3. run' \in Runs
    BY <1>9 DEF Select, Runs, MaybePid, TransitionStates
  <2> QED
    BY <1>9, <2>1, <2>2, <2>3 DEF Select
<1>10. CASE Replace
  <2>1. manager' \in Managers
    BY <1>10 DEF Replace, StopReturns, StopCut, Managers, MaybePid
  <2>2. child' \in [Pids -> ChildStates]
    BY <1>10 DEF Replace, StopReturns, StopCut, ChildStates, MaybePid
  <2>3. pc' \in Steps
    BY <1>10 DEF Replace, StopReturns, StopCut, Steps
  <2> QED
    BY <1>10, <2>1, <2>2, <2>3 DEF Replace, StopReturns, StopCut
<1>11. CASE LaunchRefused
  <2>1. pc' \in Steps
    BY <1>11 DEF LaunchRefused, Steps
  <2> QED
    BY <1>11, <2>1 DEF LaunchRefused
<1>12. CASE LaunchFails
  <2>1. manager' \in Managers
    BY <1>12 DEF LaunchFails, Managers, MaybePid
  <2>2. pc' \in Steps
    BY <1>12 DEF LaunchFails, Steps
  <2> QED
    BY <1>12, <2>1, <2>2 DEF LaunchFails
<1>13. CASE LaunchUnhealthy
  <2>1. Starts + 1 \in Pids
    BY <1>13, StartsNat, ControlAssumption DEF LaunchUnhealthy, SpawnInv, Pids
  <2>2. manager' \in Managers
    BY <1>13, <2>1 DEF LaunchUnhealthy, Spawned, Managers, MaybePid
  <2>3. child' \in [Pids -> ChildStates]
    BY <1>13 DEF LaunchUnhealthy, Spawned, ChildStates, MaybePid
  <2>4. pc' \in Steps
    BY <1>13 DEF LaunchUnhealthy, Spawned, Steps
  <2> QED
    BY <1>13, <2>1, <2>2, <2>3, <2>4 DEF LaunchUnhealthy, Spawned
<1>14. CASE LaunchHealthy
  <2>1. Starts + 1 \in Pids
    BY <1>14, StartsNat, ControlAssumption DEF LaunchHealthy, SpawnInv, Pids
  <2>2. manager' \in Managers
    BY <1>14, <2>1 DEF LaunchHealthy, Spawned, Managers, MaybePid
  <2>3. child' \in [Pids -> ChildStates]
    BY <1>14 DEF LaunchHealthy, Spawned, ChildStates, MaybePid
  <2>4. run' \in Runs
    BY <1>14 DEF LaunchHealthy, Spawned, Runs, MaybePid, TransitionStates
  <2>5. pc' \in Steps
    BY <1>14 DEF LaunchHealthy, Spawned, Steps
  <2> QED
    BY <1>14, <2>1, <2>2, <2>3, <2>4, <2>5 DEF LaunchHealthy, Spawned
<1>15. CASE Failed
  <2>1. run' \in Runs
    BY <1>15 DEF Failed, Runs, MaybePid, TransitionStates
  <2>2. pc' \in Steps
    BY <1>15 DEF Failed, Steps
  <2> QED
    BY <1>15, <2>1, <2>2 DEF Failed
<1>16. CASE Record
  <2>1. observation' \in Observations
    BY <1>16, RecordedTypes DEF Record
  <2>2. run' \in Runs
    BY <1>16 DEF Record, Recorded, Lost, Runs, MaybePid, TransitionStates
  <2>3. pc' \in Steps
    BY <1>16 DEF Record, Recorded, Lost, Steps
  <2> QED
    BY <1>16, <2>1, <2>2, <2>3 DEF Record, Recorded, Lost
<1>17. CASE Confirm
  <2>1. observation' \in Observations
    BY <1>17, RecordedTypes DEF Confirm
  <2>2. pc' \in Steps
    BY <1>17 DEF Confirm, Recorded, Lost, Steps
  <2>3. intent' \in Intents
    BY <1>17 DEF Confirm, Recorded, Lost, Intents
  <2>4. run' \in Runs
    BY <1>17 DEF Confirm, Recorded, Lost, Runs, MaybePid, TransitionStates
  <2> QED
    BY <1>17, <2>1, <2>2, <2>3, <2>4 DEF Confirm, Recorded, Lost
<1>18. CASE PrepareCommit
  <2>1. pc' \in Steps
    BY <1>18 DEF PrepareCommit, Lost, Steps
  <2>2. intent' \in Intents
    BY <1>18 DEF PrepareCommit, Lost, Intents
  <2>3. run' \in Runs
    BY <1>18 DEF PrepareCommit, Lost, Runs, MaybePid, TransitionStates
  <2> QED
    BY <1>18, <2>1, <2>2, <2>3 DEF PrepareCommit, Lost
<1>19. CASE StopLost
  <2>1. manager' \in Managers
    BY <1>19 DEF StopLost, StopReturns, StopCut, Managers, MaybePid
  <2>2. child' \in [Pids -> ChildStates]
    BY <1>19 DEF StopLost, StopReturns, StopCut, ChildStates, MaybePid
  <2>3. run' \in Runs
    BY <1>19 DEF StopLost, StopReturns, StopCut, Runs, MaybePid, TransitionStates
  <2>4. pc' \in Steps
    BY <1>19 DEF StopLost, StopReturns, StopCut, Steps
  <2> QED
    BY <1>19, <2>1, <2>2, <2>3, <2>4 DEF StopLost, StopReturns, StopCut
<1>20. CASE Halt
  <2>1. manager' \in Managers
    BY <1>20 DEF Halt, StopReturns, StopCut, Managers, MaybePid
  <2>2. child' \in [Pids -> ChildStates]
    BY <1>20 DEF Halt, StopReturns, StopCut, ChildStates, MaybePid
  <2>3. run' \in Runs
    BY <1>20 DEF Halt, StopReturns, StopCut, Runs, MaybePid, TransitionStates
  <2>4. pc' \in Steps
    BY <1>20 DEF Halt, StopReturns, StopCut, Steps
  <2> QED
    BY <1>20, <2>1, <2>2, <2>3, <2>4 DEF Halt, StopReturns, StopCut
<1>21. CASE Uncertain
  <2>1. pc' \in Steps
    BY <1>21 DEF Uncertain, Steps
  <2>2. intent' \in Intents
    BY <1>21 DEF Uncertain, Intents
  <2>3. run' \in Runs
    BY <1>21 DEF Uncertain, Runs, MaybePid, TransitionStates
  <2> QED
    BY <1>21, <2>1, <2>2, <2>3 DEF Uncertain
<1>22. CASE Complete
  <2>1. observation' \in Observations
    BY <1>22 DEF Complete, Observations, MaybePid
  <2>2. latest' \in TransitionStates
    BY <1>22 DEF Complete, TransitionStates, RunInv
  <2>3. recovery' \in Recoveries
    BY <1>22 DEF Complete, Recoveries
  <2>4. hub' \in Hubs
    BY <1>22, CommittedTypes DEF Complete
  <2>5. pc' \in Steps
    BY <1>22 DEF Complete, Steps
  <2>6. intent' \in Intents
    BY <1>22 DEF Complete, Intents
  <2>7. run' \in Runs
    BY <1>22 DEF Complete, Runs, MaybePid, TransitionStates
  <2> QED
    BY <1>22, <2>1, <2>2, <2>3, <2>4, <2>5, <2>6, <2>7 DEF Complete
<1>23. CASE CompleteFails
  <2>1. pc' \in Steps
    BY <1>23 DEF CompleteFails, Steps
  <2>2. intent' \in Intents
    BY <1>23 DEF CompleteFails, Intents
  <2>3. run' \in Runs
    <3>1. CASE run' = [run EXCEPT !.fence = observation.pid, !.evidence = "none",
                                  !.state = "failed", !.ok = FALSE, !.second = TRUE]
      BY <3>1 DEF Runs, TransitionStates
    <3>2. CASE run' = NoRun
      BY <3>2
    <3> QED
      BY <1>23, <3>1, <3>2 DEF CompleteFails
  <2> QED
    BY <1>23, <2>1, <2>2, <2>3 DEF CompleteFails
<1>24. CASE DeadlinePasses
  <2>1. recovery' \in Recoveries
    BY <1>24 DEF DeadlinePasses, Recoveries
  <2> QED
    BY <1>24, <2>1 DEF DeadlinePasses
<1>25. CASE TickRunning
  <2>1. observation' \in Observations
    BY <1>25 DEF TickRunning, Observations, MaybePid
  <2>2. tries' \in Nat
    BY <1>25 DEF TickRunning
  <2>3. watched' \in MaybePid
    BY <1>25 DEF TickRunning, MaybePid
  <2> QED
    BY <1>25, <2>1, <2>2, <2>3 DEF TickRunning
<1>26. CASE \E p \in Pids : ChildExits(p)
  <2>1. child' \in [Pids -> ChildStates]
    BY <1>26 DEF ChildExits, ChildStates, MaybePid
  <2> QED
    BY <1>26, <2>1 DEF ChildExits
<1>27. CASE Reap
  <2>1. manager' \in Managers
    BY <1>27 DEF Reap, Managers, MaybePid
  <2>2. child' \in [Pids -> ChildStates]
    BY <1>27 DEF Reap, ChildStates, MaybePid
  <2> QED
    BY <1>27, <2>1, <2>2 DEF Reap
<1>28. CASE Shutdown
  <2>1. pc' \in Steps
    BY <1>28 DEF Shutdown, Steps
  <2> QED
    BY <1>28, <2>1 DEF Shutdown
<1>29. CASE Close
  <2>1. observation' \in Observations
    BY <1>29 DEF Close, Observations, MaybePid
  <2>2. latest' \in TransitionStates
    BY <1>29 DEF Close, TransitionStates
  <2>3. tries' \in Nat
    BY <1>29 DEF Close
  <2>4. child' \in [Pids -> ChildStates]
    BY <1>29 DEF Close, ChildStates, MaybePid
  <2>5. manager' \in Managers
    BY <1>29 DEF Close, Managers, MaybePid
  <2>6. pc' \in Steps
    BY <1>29 DEF Close, Steps
  <2>7. watched' \in MaybePid
    BY <1>29 DEF Close, MaybePid
  <2> QED
    BY <1>29, <2>1, <2>2, <2>3, <2>4, <2>5, <2>6, <2>7 DEF Close
<1>30. CASE Crash
  <2>1. child' \in [Pids -> ChildStates]
    BY <1>30 DEF Crash, ChildStates, MaybePid
  <2>2. manager' \in Managers
    BY <1>30 DEF Crash, Managers, MaybePid
  <2>3. watched' \in MaybePid
    BY <1>30 DEF Crash, MaybePid
  <2>4. pc' \in Steps
    BY <1>30 DEF Crash, Steps
  <2>5. intent' \in Intents
    BY <1>30 DEF Crash, Intents
  <2>6. run' \in Runs
    BY <1>30 DEF Crash, Runs, MaybePid, TransitionStates
  <2> QED
    BY <1>30, <2>1, <2>2, <2>3, <2>4, <2>5, <2>6 DEF Crash
<1>31. CASE Boot
  <2>1. pc' \in Steps
    BY <1>31 DEF Boot, Steps
  <2>2. latest' \in TransitionStates
    BY <1>31 DEF Boot, TransitionStates
  <2> QED
    BY <1>31, <2>1, <2>2 DEF Boot
<1>32. CASE BootStopped
  <2>1. pc' \in Steps
    BY <1>32 DEF BootStopped, Steps
  <2>2. observation' \in Observations
    BY <1>32 DEF BootStopped, Observations, MaybePid
  <2>3. latest' \in TransitionStates
    BY <1>32 DEF BootStopped, TransitionStates
  <2> QED
    BY <1>32, <2>1, <2>2, <2>3 DEF BootStopped
<1> QED
  BY <1>1, <1>2, <1>3, <1>4, <1>5, <1>6, <1>7, <1>8, <1>9, <1>10, <1>11, <1>12, <1>13, <1>14, <1>15, <1>16, <1>17, <1>18, <1>19, <1>20, <1>21, <1>22, <1>23, <1>24, <1>25, <1>26, <1>27, <1>28, <1>29, <1>30, <1>31, <1>32

-----------------------------------------------------------------------------
(* The steps that reserve a generation *)

\* Commands that name their bundle keep the types.
LEMMA BeginDirectTypes ==
  ASSUME Types, NEW kind \in CommandKinds, NEW b \in MaybeBundle, BeginDirect(kind, b)
  PROVE  Types'
<1> USE DEF Types, storeVars, configVars, processVars, laneVars, historyVars, BeginDirect, Begin
<1>1. hub.generation + 1 \in Generations
  BY FieldTypes, ControlAssumption DEF MayBegin, Generations
<1>2. (kind \notin {"stop", "disable"}) \in BOOLEAN
  OBVIOUS
<1>3. hub' \in Hubs
  BY <1>1, <1>2 DEF Hubs
<1>4. intent' \in Intents
  BY DEF Intents, NoIntent, CommandKinds
<1>5. pc' \in Steps
  BY DEF Steps
<1> QED
  BY <1>3, <1>4, <1>5, NullTypes

\* Commands that snapshot the saved file keep the types.
LEMMA BeginConfiguredTypes ==
  ASSUME Types, NEW kind \in CommandKinds, NEW b \in Bundles, BeginConfigured(kind, b)
  PROVE  Types'
<1> USE DEF Types, storeVars, configVars, processVars, laneVars, historyVars, BeginConfigured, Begin
<1>1. hub.generation + 1 \in Generations
  BY FieldTypes, ControlAssumption DEF MayBegin, Generations
<1>2. hub' \in Hubs
  BY <1>1 DEF Hubs
<1>3. Selecting(kind) \in BOOLEAN
  BY DEF Selecting
<1>4. intent' \in Intents
  BY <1>3 DEF Intents, NoIntent, CommandKinds, MaybeBundle
<1>5. startup' \in [Bundles -> {"none", "pending", "failed", "ready"}] /\ pc' \in Steps
  BY DEF Steps
<1> QED
  BY <1>2, <1>4, <1>5, NullTypes

\* Every explicit command keeps the types.
LEMMA CommandTypes ==
  ASSUME Types, Command
  PROVE  Types'
<1> USE DEF CommandKinds, MaybeBundle
<1>1. hub.applied \in MaybeBundle /\ hub.rollback \in MaybeBundle
  BY FieldTypes
<1>2. CASE \E b \in Bundles : BeginApply(b)
  BY <1>2, BeginDirectTypes DEF BeginApply
<1>3. CASE BeginStart
  BY <1>1, <1>3, BeginDirectTypes DEF BeginStart
<1>4. CASE BeginRollback
  BY <1>1, <1>4, BeginDirectTypes DEF BeginRollback
<1>5. CASE \E kind \in {"stop", "disable"} : BeginStop(kind)
  BY <1>1, <1>5, BeginDirectTypes DEF BeginStop
<1>6. CASE \E kind \in {"start", "restart", "enable"}, b \in Bundles : BeginConfigured(kind, b)
  BY <1>6, BeginConfiguredTypes
<1> QED
  BY <1>2, <1>3, <1>4, <1>5, <1>6 DEF Command

\* A recovery attempt that is due keeps the types.
LEMMA ResumeTypes ==
  ASSUME Types, NEW boot \in BOOLEAN, Resume(boot)
  PROVE  Types'
<1> USE DEF Types, storeVars, configVars, processVars, laneVars, historyVars, Resume
<1>1. hub.generation + 1 \in Generations
  BY FieldTypes, ControlAssumption DEF MayBegin, Generations
<1>2. hub' \in Hubs /\ hub'.generation \in Generations
  BY <1>1 DEF Hubs
<1>3. recovery' \in Recoveries
  BY <1>2 DEF Recoveries
<1>4. intent' \in Intents
  BY FieldTypes DEF Intents, NoIntent, CommandKinds
<1>5. pc' \in Steps /\ tries' \in Nat
  BY DEF Steps
<1> QED
  BY <1>2, <1>3, <1>4, <1>5, NullTypes

\* The attempt written for the next recovery is within the budget.
LEMMA ScheduleTypes ==
  ASSUME Types, NEW clean \in BOOLEAN, Schedule(clean)
  PROVE  /\ recovery' \in Recoveries /\ observation' = NoObservation
         /\ UNCHANGED <<hub, startup, current, fileOk, manager, child, intent, run, watched, tries>>
<1>1. Attempt(clean) \in Nat \ {0}
  BY FieldTypes DEF Attempt, MaximumAttempts
<1>2. Attempt(clean) <= MaximumAttempts => Attempt(clean) \in 0 .. MaximumAttempts
  BY <1>1 DEF MaximumAttempts
<1>3. hub.generation \in Generations /\ recovery \in Recoveries
  BY FieldTypes DEF Types
<1>4. recovery' \in Recoveries
  BY <1>1, <1>2, <1>3 DEF Schedule, Recoveries, MaximumAttempts
<1> QED
  BY <1>4 DEF Schedule, configVars, processVars

\* What is logged of a failure names the bundle of a start.
LEMMA FailureTypes ==
  ASSUME Types, ProcessInv, manager.state = "failed"
  PROVE  Failure \in Failures
<1>1. manager.bundle \in Bundles
  BY DEF ProcessInv
<1>2. 0 \in Generations
  BY ControlAssumption DEF Generations
<1> QED
  BY <1>1, <1>2, FieldTypes DEF Failure, Failures

\* The reconciler keeps the types.
LEMMA TickTypes ==
  ASSUME Types, ProcessInv, TickSettled \/ TickFailedObserved \/ TickFailedUnobserved
  PROVE  Types'
<1> USE NullTypes DEF Types, storeVars, configVars, processVars, laneVars, historyVars
<1>1. CASE Resume(FALSE)
  BY <1>1, ResumeTypes
<1>2. CASE TickSettled /\ ~Resume(FALSE)
  BY <1>2, ScheduleTypes DEF TickSettled
<1>3. CASE TickFailedObserved /\ ~Resume(FALSE)
  <2>1. latest' \in TransitionStates
    BY <1>3 DEF TickFailedObserved, TransitionStates
  <2> QED
    BY <1>3, <2>1, ScheduleTypes DEF TickFailedObserved
<1>4. CASE TickFailedUnobserved /\ ~Resume(FALSE)
  <2>1. LogFailure
    BY <1>4 DEF TickFailedUnobserved
  <2>2. latest' \in TransitionStates
    BY <2>1 DEF LogFailure, TransitionStates
  <2>3. unobserved' \subseteq Failures
    BY <1>4, <2>1, FailureTypes DEF LogFailure, TickFailedUnobserved
  <2>4. CASE ~Eligible
    BY <1>4, <2>2, <2>3, <2>4 DEF TickFailedUnobserved
  <2>5. CASE Eligible
    <3>1. Schedule(FALSE) /\ UNCHANGED <<pc, forgiven>>
      BY <1>4, <2>5 DEF TickFailedUnobserved
    <3> QED
      BY <2>2, <2>3, <3>1, ScheduleTypes
  <2> QED
    BY <2>4, <2>5
<1> QED
  BY <1>1, <1>2, <1>3, <1>4

\* The start of a panel whose service should run keeps the types.
LEMMA BootRecoveringTypes ==
  ASSUME Types, BootRecovering
  PROVE  Types'
<1> USE NullTypes DEF Types, storeVars, configVars, processVars, laneVars, historyVars
<1> DEFINE clean == observation.pid = 0
<1>1. CASE Resume(TRUE)
  BY <1>1, ResumeTypes
<1>2. CASE Schedule(clean) /\ BootRecovering /\ ~Resume(TRUE)
         /\ ~(OnSchedule /\ recovery.deadline = "waiting")
  <2>1. clean \in BOOLEAN
    OBVIOUS
  <2>2. /\ pc' = "idle" /\ UNCHANGED unobserved
        /\ latest' = (IF clean THEN latest ELSE "unknown")
        /\ forgiven' = (forgiven \/ (OnSchedule /\ Attempt(FALSE) > MaximumAttempts
                                         /\ Attempt(clean) = 1 /\ tries # 0))
    BY <1>2 DEF BootRecovering
  <2>3. pc' \in Steps /\ latest' \in TransitionStates
    BY <2>2 DEF Steps, TransitionStates
  <2>4. forgiven' \in BOOLEAN
    BY <2>2
  <2> HIDE DEF clean
  <2> QED
    BY <1>2, <2>1, <2>2, <2>3, <2>4, ScheduleTypes
<1>3. CASE /\ OnSchedule /\ recovery.deadline = "waiting" /\ pc' = "idle"
           /\ UNCHANGED <<storeVars, configVars, processVars, intent, run, watched, historyVars>>
  <2>1. pc' \in Steps
    BY <1>3 DEF Steps
  <2> QED
    BY <1>3, <2>1
<1> QED
  BY <1>1, <1>2, <1>3 DEF BootRecovering, Schedule

-----------------------------------------------------------------------------
(* Who moves the lane, and what the others leave alone *)

Outside ==
  \/ SaveConfiguration
  \/ \E b \in Bundles : CreateStartup(b) \/ CheckStartup(b)
  \/ DeadlinePasses \/ TickRunning \/ (\E p \in Pids : ChildExits(p)) \/ Reap

Leaving == GiveUp \/ Shutdown \/ Close \/ Crash \/ Boot \/ BootStopped

Resuming == Eligible /\ \E boot \in BOOLEAN : Resume(boot)

Scheduling == /\ TickSettled \/ TickFailedObserved \/ TickFailedUnobserved \/ BootRecovering
              /\ ~Resuming

\* What happens beside the lane leaves its intent and the hub alone.
LEMMA OutsideKeeps ==
  ASSUME Outside
  PROVE  UNCHANGED <<hub, pc, intent, run>>
<1> USE DEF storeVars, laneVars
<1>1. CASE SaveConfiguration
  BY <1>1 DEF SaveConfiguration
<1>2. CASE \E b \in Bundles : CreateStartup(b) \/ CheckStartup(b)
  BY <1>2 DEF CreateStartup, CheckStartup
<1>3. CASE DeadlinePasses
  BY <1>3 DEF DeadlinePasses
<1>4. CASE TickRunning
  BY <1>4 DEF TickRunning
<1>5. CASE \E p \in Pids : ChildExits(p)
  BY <1>5 DEF ChildExits
<1>6. CASE Reap
  BY <1>6 DEF Reap
<1> QED
  BY <1>1, <1>2, <1>3, <1>4, <1>5, <1>6 DEF Outside

\* These steps end an intent, or happen without one.
LEMMA LeavingKeeps ==
  ASSUME Leaving
  PROVE  pc' \notin IntentSteps /\ UNCHANGED <<hub, startup>>
<1> USE DEF storeVars, configVars, IntentSteps
<1>1. CASE GiveUp
  BY <1>1, ReturnTypes DEF GiveUp
<1>2. CASE Shutdown \/ Close
  BY <1>2 DEF Shutdown, Close
<1>3. CASE Crash
  BY <1>3 DEF Crash
<1>4. CASE Boot \/ BootStopped
  BY <1>4 DEF Boot, BootStopped
<1> QED
  BY <1>1, <1>2, <1>3, <1>4 DEF Leaving

\* A recovery that is scheduled, or not due, begins no intent.
LEMMA SchedulingKeeps ==
  ASSUME Scheduling
  PROVE  pc' \notin IntentSteps /\ UNCHANGED <<hub, startup, manager, child, run>>
<1> USE DEF storeVars, configVars, processVars, laneVars, IntentSteps, Schedule
<1>1. CASE TickSettled
  BY <1>1 DEF Scheduling, Resuming, TickSettled
<1>2. CASE TickFailedObserved
  BY <1>2 DEF Scheduling, Resuming, TickFailedObserved
<1>3. CASE TickFailedUnobserved
  BY <1>3 DEF Scheduling, Resuming, TickFailedUnobserved
<1>4. CASE BootRecovering
  BY <1>4 DEF Scheduling, Resuming, BootRecovering
<1> QED
  BY <1>1, <1>2, <1>3, <1>4 DEF Scheduling

\* Every step is of one of six kinds.
LEMMA StepKinds ==
  ASSUME Next
  PROVE  Outside \/ EndContext \/ Leaving \/ Scheduling \/ Resuming \/ Command \/ LaneStep
BY DEF Next, Outside, Leaving, Scheduling, Resuming, Tick, Started

\* The lane goes from step to step of one intent, until that intent returns.
LEMMA LaneMoves ==
  ASSUME LaneStep
  PROVE  /\ pc \in IntentSteps /\ pc' # "preflight"
         /\ pc' \notin IntentSteps \/ intent' = intent
         /\ pc' = "bind" => pc = "preflight"
         /\ pc' = "perform" => pc = "bind"
         /\ pc' \in {"replace", "launch"} =>
              pc \in {"perform", "replace"} /\ (intent.kind = "stop" => pc = "replace")
<1> USE ReturnTypes DEF storeVars, processVars, laneVars, IntentSteps, Steps
<1>1. CASE Preflight
  BY <1>1 DEF Preflight
<1>2. CASE Bind
  BY <1>2 DEF Bind
<1>3. CASE Perform
  BY <1>3 DEF Perform
<1>4. CASE Select
  BY <1>4 DEF Select
<1>5. CASE Replace
  BY <1>5 DEF Replace, StopReturns, StopCut
<1>6. CASE LaunchRefused
  BY <1>6 DEF LaunchRefused
<1>7. CASE LaunchFails
  BY <1>7 DEF LaunchFails
<1>8. CASE LaunchUnhealthy
  BY <1>8 DEF LaunchUnhealthy, Spawned
<1>9. CASE LaunchHealthy
  BY <1>9 DEF LaunchHealthy, Spawned
<1>10. CASE Failed
  BY <1>10 DEF Failed
<1>11. CASE Record
  BY <1>11 DEF Record, Recorded, Lost
<1>12. CASE Confirm
  BY <1>12 DEF Confirm, Recorded, Lost
<1>13. CASE PrepareCommit
  BY <1>13 DEF PrepareCommit, Lost
<1>14. CASE StopLost
  BY <1>14 DEF StopLost, StopReturns, StopCut
<1>15. CASE Halt
  BY <1>15 DEF Halt, StopReturns, StopCut
<1>16. CASE Uncertain
  BY <1>16 DEF Uncertain
<1>17. CASE Complete
  BY <1>17 DEF Complete
<1>18. CASE CompleteFails
  BY <1>18 DEF CompleteFails
<1> QED
  BY <1>1, <1>2, <1>3, <1>4, <1>5, <1>6, <1>7, <1>8, <1>9, <1>10, <1>11, <1>12, <1>13, <1>14, <1>15, <1>16, <1>17, <1>18 DEF LaneStep

\* Every intent that is not a stop keeps a bundle, at every step.
LEMMA IntentPreserved ==
  ASSUME Types, IntentInv, Next
  PROVE  IntentInv'
<1> USE DEF IntentInv
<1>1. CASE Outside
  BY <1>1, OutsideKeeps
<1>2. CASE EndContext
  BY <1>2 DEF EndContext
<1>3. CASE Leaving \/ Scheduling
  BY <1>3, LeavingKeeps, SchedulingKeeps DEF IntentSteps, Steps
<1>4. CASE Resuming
  <2>1. hub.applied \in Bundles
    BY <1>4, FieldTypes DEF Resuming, Eligible, MaybeBundle
  <2> QED
    BY <1>4, <2>1 DEF Resuming, Resume, NoIntent, StartKinds
<1>5. CASE Command
  <2>1. ASSUME NEW kind \in CommandKinds, NEW b \in MaybeBundle, BeginDirect(kind, b),
               kind \in {"stop", "disable"} \/ (kind \in StartKinds /\ b \in Bundles)
        PROVE  IntentInv'
    BY <2>1 DEF BeginDirect, NoIntent, StartKinds
  <2>2. ASSUME NEW kind \in {"start", "restart", "enable"}, NEW b \in Bundles,
               BeginConfigured(kind, b)
        PROVE  IntentInv'
    BY <2>2 DEF BeginConfigured, NoIntent, StartKinds
  <2>3. hub.applied \in MaybeBundle /\ hub.rollback \in MaybeBundle
    BY FieldTypes
  <2>4. CASE \E b \in Bundles : BeginApply(b)
    BY <2>1, <2>4 DEF BeginApply, CommandKinds, StartKinds, MaybeBundle
  <2>5. CASE BeginStart
    BY <2>1, <2>3, <2>5 DEF BeginStart, CommandKinds, StartKinds, MaybeBundle
  <2>6. CASE BeginRollback
    BY <2>1, <2>3, <2>6 DEF BeginRollback, CommandKinds, StartKinds, MaybeBundle
  <2>7. CASE \E kind \in {"stop", "disable"} : BeginStop(kind)
    BY <2>1, <2>3, <2>7 DEF BeginStop, CommandKinds
  <2> QED
    BY <1>5, <2>2, <2>4, <2>5, <2>6, <2>7 DEF Command
<1>6. CASE LaneStep
  BY <1>6, LaneMoves DEF IntentSteps, Steps
<1> QED
  BY <1>1, <1>2, <1>3, <1>4, <1>5, <1>6, StepKinds

-----------------------------------------------------------------------------
(* The bound on starts *)

SpawnSteps == {"preflight", "bind", "perform", "replace", "launch"}

\* Until a launch the lane spawns nothing.
LEMMA LaneSpawns ==
  ASSUME Types, ProcessInv, LaneStep, pc' \in SpawnSteps
  PROVE  pc \in SpawnSteps /\ \A p \in Pids : (child'[p] = "none") <=> (child[p] = "none")
<1> USE ReturnTypes DEF Types, storeVars, processVars, laneVars, SpawnSteps
<1>1. CASE Preflight
  BY <1>1 DEF Preflight
<1>2. CASE Bind
  BY <1>2 DEF Bind
<1>3. CASE Perform
  BY <1>3 DEF Perform
<1>4. CASE Select
  BY <1>4 DEF Select
<1>5. CASE Replace
  <2>1. child \in [Pids -> ChildStates] /\ manager.process \in MaybePid
    BY FieldTypes
  <2>2. CASE StopReturns
    BY <1>5, <2>1, <2>2 DEF Replace, StopReturns, ProcessInv, Pids
  <2>3. CASE StopCut
    BY <1>5, <2>1, <2>3 DEF Replace, StopCut
  <2> QED
    BY <1>5, <2>2, <2>3 DEF Replace
<1>6. CASE LaunchRefused
  BY <1>6 DEF LaunchRefused
<1>7. CASE LaunchFails
  BY <1>7 DEF LaunchFails
<1>8. CASE LaunchUnhealthy
  BY <1>8 DEF LaunchUnhealthy, Spawned
<1>9. CASE LaunchHealthy
  BY <1>9 DEF LaunchHealthy, Spawned
<1>10. CASE Failed
  BY <1>10 DEF Failed
<1>11. CASE Record
  BY <1>11 DEF Record, Recorded, Lost
<1>12. CASE Confirm
  BY <1>12 DEF Confirm, Recorded, Lost
<1>13. CASE PrepareCommit
  BY <1>13 DEF PrepareCommit, Lost
<1>14. CASE StopLost
  BY <1>14 DEF StopLost, StopReturns, StopCut
<1>15. CASE Halt
  BY <1>15 DEF Halt, StopReturns, StopCut
<1>16. CASE Uncertain
  BY <1>16 DEF Uncertain
<1>17. CASE Complete
  BY <1>17 DEF Complete
<1>18. CASE CompleteFails
  BY <1>18 DEF CompleteFails
<1> QED
  BY <1>1, <1>2, <1>3, <1>4, <1>5, <1>6, <1>7, <1>8, <1>9, <1>10, <1>11, <1>12, <1>13, <1>14, <1>15, <1>16, <1>17, <1>18 DEF LaneStep

\* What happens beside the lane spawns no process.
LEMMA OutsideSpawnsNothing ==
  ASSUME Types, ProcessInv, Outside
  PROVE  \A p \in Pids : (child'[p] = "none") <=> (child[p] = "none")
<1> USE DEF Types, storeVars, processVars
<1>1. CASE \E p \in Pids : ChildExits(p)
  BY <1>1 DEF ChildExits
<1>2. CASE Reap
  BY <1>2, FieldTypes DEF Reap
<1>3. CASE SaveConfiguration \/ DeadlinePasses \/ TickRunning
  BY <1>3 DEF SaveConfiguration, DeadlinePasses, TickRunning
<1>4. CASE \E b \in Bundles : CreateStartup(b) \/ CheckStartup(b)
  BY <1>4 DEF CreateStartup, CheckStartup
<1> QED
  BY <1>1, <1>2, <1>3, <1>4 DEF Outside

\* A launch finds the bound on starts as its intent found it.
LEMMA SpawnPreserved ==
  ASSUME Types, SpawnInv, ProcessInv, Next
  PROVE  SpawnInv'
<1> USE DEF SpawnInv
<1>1. CASE Outside
  BY <1>1, OutsideKeeps, OutsideSpawnsNothing, StartsStay
<1>2. CASE EndContext
  BY <1>2, StartsStay DEF EndContext, processVars
<1>3. CASE Leaving \/ Scheduling
  BY <1>3, LeavingKeeps, SchedulingKeeps DEF IntentSteps, Steps
<1>4. CASE Resuming
  BY <1>4, StartsStay DEF Resuming, Resume, MayBegin, processVars
<1>5. CASE Command
  <2>1. MayBegin /\ UNCHANGED child
    BY <1>5 DEF Command, BeginApply, BeginStart, BeginRollback, BeginStop, BeginConfigured,
                BeginDirect, Begin, processVars
  <2> QED
    BY <2>1, StartsStay DEF MayBegin
<1>6. CASE LaneStep
  BY <1>6, LaneSpawns, StartsStay DEF SpawnSteps
<1> QED
  BY <1>1, <1>2, <1>3, <1>4, <1>5, <1>6, StepKinds

-----------------------------------------------------------------------------
(* The manager's view of its process, and the evidence of an intent *)

\* The manager holds a process that was spawned, and names the bundle of a failure.
LEMMA ProcessPreserved ==
  ASSUME Types, IntentInv, SpawnInv, ProcessInv, Next
  PROVE  ProcessInv'
<1> USE FieldTypes DEF Types, ProcessInv, storeVars, processVars, laneVars
<1>1. CASE Outside
  <2>1. CASE \E p \in Pids : ChildExits(p)
    BY <2>1 DEF ChildExits
  <2>2. CASE Reap
    BY <2>2 DEF Reap, Managers
  <2>3. CASE SaveConfiguration \/ DeadlinePasses \/ TickRunning
    BY <2>3 DEF SaveConfiguration, DeadlinePasses, TickRunning
  <2>4. CASE \E b \in Bundles : CreateStartup(b) \/ CheckStartup(b)
    BY <2>4 DEF CreateStartup, CheckStartup
  <2> QED
    BY <1>1, <2>1, <2>2, <2>3, <2>4 DEF Outside
<1>2. CASE EndContext
  BY <1>2 DEF EndContext
<1>3. CASE Leaving
  <2>1. CASE Close \/ Crash
    BY <2>1 DEF Close, Crash, NewManager
  <2>2. CASE GiveUp \/ Shutdown \/ Boot \/ BootStopped
    BY <2>2 DEF GiveUp, Shutdown, Boot, BootStopped
  <2> QED
    BY <1>3, <2>1, <2>2 DEF Leaving
<1>4. CASE Scheduling
  BY <1>4, SchedulingKeeps
<1>5. CASE Resuming
  BY <1>5 DEF Resuming, Resume
<1>6. CASE Command
  BY <1>6 DEF Command, BeginApply, BeginStart, BeginRollback, BeginStop, BeginConfigured,
              BeginDirect, Begin
<1>7. CASE LaneStep
  <2>1. CASE Preflight
    BY <2>1 DEF Preflight
  <2>2. CASE Bind
    BY <2>2 DEF Bind
  <2>3. CASE Perform
    BY <2>3 DEF Perform
  <2>4. CASE Select
    BY <2>4 DEF Select
  <2>5. CASE Replace
    <3>1. CASE StopReturns
      BY <3>1 DEF StopReturns, Managers
    <3>2. CASE StopCut
      BY <3>2 DEF StopCut, Managers
    <3> QED
      BY <2>5, <3>1, <3>2 DEF Replace
  <2>6. CASE LaunchRefused
    BY <2>6 DEF LaunchRefused
  <2>7. CASE LaunchFails
    BY <2>7 DEF LaunchFails, Managers, IntentInv, IntentSteps, Steps
  <2>8. CASE LaunchUnhealthy
    <3>1. Starts + 1 \in Pids
      BY <2>8, StartsNat, ControlAssumption DEF LaunchUnhealthy, SpawnInv, Pids
    <3>2. intent.bundle \in Bundles
      BY <2>8 DEF LaunchUnhealthy, IntentInv, IntentSteps, Steps
    <3> QED
      BY <2>8, <3>1, <3>2 DEF LaunchUnhealthy, Spawned
  <2>9. CASE LaunchHealthy
    <3>1. Starts + 1 \in Pids
      BY <2>9, StartsNat, ControlAssumption DEF LaunchHealthy, SpawnInv, Pids
    <3>2. intent.bundle \in Bundles
      BY <2>9 DEF LaunchHealthy, IntentInv, IntentSteps, Steps
    <3> QED
      BY <2>9, <3>1, <3>2 DEF LaunchHealthy, Spawned
  <2>10. CASE Failed
    BY <2>10 DEF Failed
  <2>11. CASE Record
    BY <2>11 DEF Record, Recorded, Lost
  <2>12. CASE Confirm
    BY <2>12 DEF Confirm, Recorded, Lost
  <2>13. CASE PrepareCommit
    BY <2>13 DEF PrepareCommit, Lost
  <2>14. CASE StopLost
    <3>1. CASE StopReturns
      BY <3>1 DEF StopReturns, Managers
    <3>2. CASE StopCut
      BY <3>2 DEF StopCut, Managers
    <3> QED
      BY <2>14, <3>1, <3>2 DEF StopLost
  <2>15. CASE Halt
    <3>1. CASE StopReturns
      BY <3>1 DEF StopReturns, Managers
    <3>2. CASE StopCut
      BY <3>2 DEF StopCut, Managers
    <3> QED
      BY <2>15, <3>1, <3>2 DEF Halt
  <2>16. CASE Uncertain
    BY <2>16 DEF Uncertain
  <2>17. CASE Complete
    BY <2>17 DEF Complete
  <2>18. CASE CompleteFails
    BY <2>18 DEF CompleteFails
  <2> QED
    BY <1>7, <2>1, <2>2, <2>3, <2>4, <2>5, <2>6, <2>7, <2>8, <2>9, <2>10, <2>11, <2>12, <2>13, <2>14, <2>15, <2>16, <2>17, <2>18 DEF LaneStep
<1> QED
  BY <1>1, <1>2, <1>3, <1>4, <1>5, <1>6, <1>7, StepKinds

\* An intent gathers no evidence without the state that goes into history.
LEMMA RunPreserved ==
  ASSUME Types, RunInv, Next
  PROVE  RunInv'
<1> USE DEF storeVars, processVars, laneVars
<1>1. ASSUME run' = NoRun, pc' # "lost" PROVE RunInv'
  BY <1>1 DEF RunInv, NoRun
<1>2. ASSUME run' = run, pc' = pc \/ pc' # "lost" PROVE RunInv'
  BY <1>2 DEF RunInv
<1>3. ASSUME NEW ok, Return(ok) PROVE RunInv'
  BY <1>1, <1>3, ReturnTypes
<1>4. run \in Runs
  BY DEF Types
<1>5. CASE Outside
  BY <1>2, <1>5, OutsideKeeps
<1>6. CASE EndContext
  BY <1>4, <1>6 DEF EndContext, RunInv, Runs
<1>7. CASE Leaving
  <2>1. CASE GiveUp
    BY <1>3, <2>1 DEF GiveUp
  <2>2. CASE Crash
    BY <1>1, <2>2 DEF Crash
  <2>3. CASE Shutdown \/ Close \/ Boot \/ BootStopped
    BY <1>2, <2>3 DEF Shutdown, Close, Boot, BootStopped
  <2> QED
    BY <1>7, <2>1, <2>2, <2>3 DEF Leaving
<1>8. CASE Scheduling
  BY <1>2, <1>8, SchedulingKeeps DEF IntentSteps, Steps
<1>9. CASE Resuming
  BY <1>1, <1>9 DEF Resuming, Resume
<1>10. CASE Command
  <2>1. run' = NoRun
    BY <1>10 DEF Command, BeginApply, BeginStart, BeginRollback, BeginStop, BeginConfigured,
                 BeginDirect, Begin
  <2>2. pc' \in {"perform", "preflight"}
    BY <1>10 DEF Command, BeginApply, BeginStart, BeginRollback, BeginStop, BeginConfigured,
                 BeginDirect
  <2> QED
    BY <1>1, <2>1, <2>2
<1>11. CASE LaneStep
  <2>1. CASE Preflight
    BY <1>2, <1>3, <2>1 DEF Preflight
  <2>2. CASE Bind
    BY <1>2, <1>3, <2>2 DEF Bind
  <2>3. CASE Perform
    BY <1>4, <2>3 DEF Perform, RunInv, Runs
  <2>4. CASE Select
    BY <1>2, <1>3, <1>4, <2>4 DEF Select, RunInv, Runs
  <2>5. CASE Replace
    BY <1>2, <1>3, <2>5 DEF Replace, StopReturns, StopCut
  <2>6. CASE LaunchRefused
    BY <1>2, <1>3, <2>6 DEF LaunchRefused
  <2>7. CASE LaunchFails
    BY <1>2, <1>3, <2>7 DEF LaunchFails
  <2>8. CASE LaunchUnhealthy
    BY <1>2, <1>3, <2>8 DEF LaunchUnhealthy, Spawned
  <2>9. CASE LaunchHealthy
    BY <1>2, <1>3, <1>4, <2>9 DEF LaunchHealthy, Spawned, RunInv, Runs
  <2>10. CASE Failed
    BY <1>2, <1>3, <1>4, <2>10 DEF Failed, RunInv, Runs
  <2>11. CASE Record
    BY <1>2, <1>3, <1>4, <2>11 DEF Record, Recorded, Lost, RunInv, Runs
  <2>12. CASE Confirm
    BY <1>2, <1>3, <1>4, <2>12 DEF Confirm, Recorded, Lost, RunInv, Runs
  <2>13. CASE PrepareCommit
    BY <1>2, <1>3, <1>4, <2>13 DEF PrepareCommit, Lost, RunInv, Runs
  <2>14. CASE StopLost
    BY <1>2, <1>3, <1>4, <2>14 DEF StopLost, StopReturns, StopCut, RunInv, Runs
  <2>15. CASE Halt
    BY <1>2, <1>3, <1>4, <2>15 DEF Halt, StopReturns, StopCut, RunInv, Runs
  <2>16. CASE Uncertain
    BY <1>2, <1>3, <1>4, <2>16 DEF Uncertain, RunInv, Runs
  <2>17. CASE Complete
    BY <1>2, <1>3, <2>17 DEF Complete
  <2>18. CASE CompleteFails
    <3>1. CASE Return(FALSE)
      BY <1>3, <3>1
    <3>2. CASE run' = [run EXCEPT !.fence = observation.pid, !.evidence = "none",
                                  !.state = "failed", !.ok = FALSE, !.second = TRUE]
      BY <1>4, <3>2 DEF RunInv, Runs
    <3> QED
      BY <2>18, <3>1, <3>2 DEF CompleteFails
  <2> QED
    BY <1>11, <2>1, <2>2, <2>3, <2>4, <2>5, <2>6, <2>7, <2>8, <2>9, <2>10, <2>11, <2>12, <2>13, <2>14, <2>15, <2>16, <2>17, <2>18 DEF LaneStep
<1> QED
  BY <1>5, <1>6, <1>7, <1>8, <1>9, <1>10, <1>11, StepKinds

-----------------------------------------------------------------------------
(* Theorems *)

\* Every step keeps the types.
LEMMA TypesPreserved ==
  ASSUME ShapeInv, Next
  PROVE  Types'
<1>1. Types /\ ProcessInv
  BY TypesFolded DEF ShapeInv
<1>2. CASE Command
  BY <1>1, <1>2, CommandTypes
<1>3. CASE TickSettled \/ TickFailedObserved \/ TickFailedUnobserved
  BY <1>1, <1>3, TickTypes
<1>4. CASE BootRecovering
  BY <1>1, <1>4, BootRecoveringTypes
<1> QED
  BY <1>2, <1>3, <1>4, StepTypes DEF Next, LaneStep, Tick, Started

\* No step of the panel, its reconciler or its child, and no disturbance of them,
\* breaks the types, runs an intent without its bundle, or spawns beyond the bound.
THEOREM ShapeInvariant == Spec => []ShapeInv
<1>1. Init => ShapeInv
  <2> SUFFICES ASSUME Init PROVE ShapeInv
    OBVIOUS
  <2>1. Types
    <3>1. hub \in Hubs
      BY ControlAssumption DEF Init, Hubs, MaybeBundle, Generations
    <3> QED
      BY <3>1, NullTypes DEF Init, Types, TransitionStates, ChildStates, Steps, MaybePid
  <2>2. IntentInv /\ SpawnInv /\ RunInv
    BY DEF Init, IntentInv, SpawnInv, RunInv, IntentSteps, Steps, NoRun
  <2>3. ProcessInv
    BY DEF Init, ProcessInv, NewManager
  <2> QED
    BY <2>1, <2>2, <2>3, TypesFolded DEF ShapeInv
<1>2. ShapeInv /\ [Next]_vars => ShapeInv'
  <2> SUFFICES ASSUME ShapeInv, [Next]_vars PROVE ShapeInv'
    OBVIOUS
  <2>1. Types /\ IntentInv /\ SpawnInv /\ ProcessInv /\ RunInv
    BY TypesFolded DEF ShapeInv
  <2>2. CASE Next
    <3>1. Types'
      BY <2>2, TypesPreserved
    <3>2. IntentInv' /\ SpawnInv' /\ ProcessInv' /\ RunInv'
      BY <2>1, <2>2, IntentPreserved, SpawnPreserved, ProcessPreserved, RunPreserved
    <3> QED
      BY <3>1, <3>2, TypesFolded DEF ShapeInv
  <2>3. CASE UNCHANGED vars
    <3>1. UNCHANGED <<hub, recovery, observation, latest, unobserved, startup, current, fileOk,
                      manager, child, pc, intent, run, watched, tries, forgiven>>
      BY <2>3 DEF vars, storeVars, configVars, processVars, laneVars, historyVars
    <3>2. Types'
      BY <2>1, <3>1 DEF Types
    <3>3. IntentInv' /\ ProcessInv' /\ RunInv'
      BY <2>1, <3>1 DEF IntentInv, ProcessInv, RunInv
    <3>4. SpawnInv'
      BY <2>1, <3>1 DEF SpawnInv, Starts
    <3> QED
      BY <3>2, <3>3, <3>4, TypesFolded DEF ShapeInv
  <2> QED
    BY <2>2, <2>3
<1> QED
  BY <1>1, <1>2, PTL DEF Spec

\* Every state of the lane, the store, the manager and the process has its type:
\* the attempt stays within the budget, the generation within its bound.
THEOREM ControlTypesCorrect == Spec => []TypeOK
<1>1. ShapeInv => TypeOK
  BY DEF ShapeInv
<1> QED
  BY <1>1, ShapeInvariant, PTL

-----------------------------------------------------------------------------
(* Selection and history *)

Checking == pc = "preflight" => startup[intent.bundle] = "pending" /\ intent.kind # "rollback"

Checked ==
  intent.kind # "stop" =>
    /\ pc \in IntentSteps \ {"preflight"} => startup[intent.bundle] = "ready"
    /\ pc \in IntentSteps \ {"preflight", "bind"} => hub.desired = intent.bundle

RollsBack ==
  pc \in IntentSteps /\ intent.kind = "rollback" =>
    intent.bundle = hub.rollback /\ hub.rollback # None

SelectionInv == SelectionIsSound /\ Checking /\ Checked /\ RollsBack

Evidence ==
  /\ pc \in IntentSteps \ {"complete"} => run.evidence = "none" /\ run.state # "running"
  /\ pc = "complete" => /\ run.evidence = "clear" => run.state # "running"
                        /\ run.evidence = "record" => run.fence # 0

EvidenceInv == HistoryIsClosed /\ Evidence

ControlInv == ShapeInv /\ SelectionInv /\ EvidenceInv

-----------------------------------------------------------------------------
(* The selection *)

\* The lane changes a verdict only in a preflight, and the hub only when it
\* binds the intent or completes it.
LEMMA LaneAccepts ==
  ASSUME LaneStep
  PROVE  /\ Preflight \/ UNCHANGED startup
         /\ Bind \/ Complete \/ UNCHANGED hub
         /\ (pc = "preflight" => Preflight) /\ (pc = "bind" => Bind)
<1> USE DEF storeVars, configVars
<1>1. CASE Preflight
  BY <1>1 DEF Preflight
<1>2. CASE Bind
  BY <1>2 DEF Bind
<1>3. CASE Perform
  BY <1>3 DEF Perform
<1>4. CASE Select
  BY <1>4 DEF Select
<1>5. CASE Replace
  BY <1>5 DEF Replace, StopReturns, StopCut
<1>6. CASE LaunchRefused
  BY <1>6 DEF LaunchRefused
<1>7. CASE LaunchFails
  BY <1>7 DEF LaunchFails
<1>8. CASE LaunchUnhealthy
  BY <1>8 DEF LaunchUnhealthy, Spawned
<1>9. CASE LaunchHealthy
  BY <1>9 DEF LaunchHealthy, Spawned
<1>10. CASE Failed
  BY <1>10 DEF Failed
<1>11. CASE Record
  BY <1>11 DEF Record, Recorded, Lost
<1>12. CASE Confirm
  BY <1>12 DEF Confirm, Recorded, Lost
<1>13. CASE PrepareCommit
  BY <1>13 DEF PrepareCommit, Lost
<1>14. CASE StopLost
  BY <1>14 DEF StopLost, StopReturns, StopCut
<1>15. CASE Halt
  BY <1>15 DEF Halt, StopReturns, StopCut
<1>16. CASE Uncertain
  BY <1>16 DEF Uncertain
<1>17. CASE Complete
  BY <1>17 DEF Complete
<1>18. CASE CompleteFails
  BY <1>18 DEF CompleteFails
<1> QED
  BY <1>1, <1>2, <1>3, <1>4, <1>5, <1>6, <1>7, <1>8, <1>9, <1>10, <1>11, <1>12, <1>13, <1>14,
     <1>15, <1>16, <1>17, <1>18 DEF LaneStep

\* What the binary has accepted stays accepted.
LEMMA ReadyStays ==
  ASSUME Types, Checking, Next, NEW b \in Bundles, startup[b] = "ready"
  PROVE  startup'[b] = "ready"
<1> USE DEF Types, storeVars, configVars
<1>1. CASE Outside
  <2>1. CASE \E c \in Bundles : CreateStartup(c) \/ CheckStartup(c)
    BY <2>1 DEF CreateStartup, CheckStartup
  <2>2. CASE SaveConfiguration \/ DeadlinePasses \/ TickRunning \/ (\E p \in Pids : ChildExits(p)) \/ Reap
    BY <2>2 DEF SaveConfiguration, DeadlinePasses, TickRunning, ChildExits, Reap
  <2> QED
    BY <1>1, <2>1, <2>2 DEF Outside
<1>2. CASE EndContext
  BY <1>2 DEF EndContext
<1>3. CASE Leaving \/ Scheduling
  BY <1>3, LeavingKeeps, SchedulingKeeps
<1>4. CASE Resuming
  BY <1>4 DEF Resuming, Resume
<1>5. CASE Command
  <2>1. CASE \E kind \in {"start", "restart", "enable"}, c \in Bundles : BeginConfigured(kind, c)
    BY <2>1 DEF BeginConfigured
  <2>2. CASE UNCHANGED startup
    BY <2>2
  <2> QED
    BY <1>5, <2>1, <2>2 DEF Command, BeginApply, BeginStart, BeginRollback, BeginStop,
       BeginDirect
<1>6. CASE LaneStep
  <2>1. CASE Preflight
    BY <2>1 DEF Preflight, Checking
  <2>2. CASE UNCHANGED startup
    BY <2>2
  <2> QED
    BY <1>6, <2>1, <2>2, LaneAccepts
<1> QED
  BY <1>1, <1>2, <1>3, <1>4, <1>5, <1>6, StepKinds

\* A commit of a checked intent leaves a sound selection.
LEMMA CommitIsSound ==
  ASSUME Types, IntentInv, SelectionInv, pc = "complete"
  PROVE  /\ \A b \in {Committed.applied, Committed.rollback} \ {None} : startup[b] = "ready"
         /\ Committed.rollback # None => Committed.applied \notin {None, Committed.rollback}
<1> USE DEF SelectionInv, SelectionIsSound
<1>1. hub \in Hubs /\ intent.kind \in StartKinds \cup {"stop"}
  BY DEF Types, IntentInv, IntentSteps, Steps
<1>2. CASE intent.kind = "stop"
  BY <1>1, <1>2 DEF Committed, Hubs
<1>3. intent.kind # "stop" => intent.bundle \in Bundles /\ startup[intent.bundle] = "ready"
  BY DEF IntentInv, Checked, IntentSteps, Steps
<1>4. CASE intent.kind = "rollback"
  <2>1. intent.bundle = hub.rollback /\ hub.rollback # None
    BY <1>4 DEF RollsBack, IntentSteps, Steps
  <2>2. Committed.applied = intent.bundle /\ Committed.rollback = hub.applied
    BY <1>1, <1>4 DEF Committed, Hubs
  <2> QED
    BY <2>1, <2>2
<1>5. CASE intent.kind \in {"apply", "start", "restart"}
  <2>1. /\ Committed.applied = intent.bundle
        /\ Committed.rollback = IF hub.applied \in {None, intent.bundle} THEN hub.rollback ELSE hub.applied
    BY <1>1, <1>5 DEF Committed, Hubs
  <2> QED
    BY <1>3, <1>5, <2>1, ControlAssumption
<1> QED
  BY <1>1, <1>2, <1>4, <1>5 DEF StartKinds

\* While an intent is at its preflight nothing beside the lane judges a bundle.
LEMMA OutsideKeepsCheck ==
  ASSUME Outside, pc = "preflight"
  PROVE  UNCHANGED startup
<1> USE DEF configVars
<1>1. CASE \E b \in Bundles : CreateStartup(b) \/ CheckStartup(b)
  BY <1>1 DEF CreateStartup, CheckStartup
<1>2. CASE SaveConfiguration \/ DeadlinePasses \/ TickRunning \/ (\E p \in Pids : ChildExits(p)) \/ Reap
  BY <1>2 DEF SaveConfiguration, DeadlinePasses, TickRunning, ChildExits, Reap
<1> QED
  BY <1>1, <1>2 DEF Outside

\* A sound selection survives every step.
LEMMA SelectionPreserved ==
  ASSUME Types, IntentInv, SelectionInv, Next
  PROVE  SelectionInv'
<1> USE DEF SelectionInv
<1>0. /\ \A b \in Bundles : startup[b] = "ready" => startup'[b] = "ready"
      /\ hub.applied \in MaybeBundle /\ hub.rollback \in MaybeBundle
  BY ReadyStays, FieldTypes
<1>1. ASSUME hub'.applied = hub.applied, hub'.rollback = hub.rollback
      PROVE  SelectionIsSound'
  BY <1>0, <1>1 DEF SelectionIsSound, MaybeBundle
<1>2. ASSUME pc' \notin IntentSteps
      PROVE  Checking' /\ Checked' /\ RollsBack'
  BY <1>2 DEF Checking, Checked, RollsBack, IntentSteps, Steps
<1>3. ASSUME UNCHANGED <<hub, intent>>, pc \in IntentSteps \ {"preflight"}, pc' \in IntentSteps \ {"preflight", "bind"},
             pc = "bind" => pc' = "bind"
      PROVE  Checking' /\ Checked' /\ RollsBack'
  <2>1. intent.kind # "stop" => intent.bundle \in Bundles
    BY <1>3 DEF IntentInv
  <2> QED
    BY <1>0, <1>3, <2>1 DEF Checking, Checked, RollsBack
<1>4. CASE Outside
  <2>1. UNCHANGED <<hub, pc, intent>>
    BY <1>4, OutsideKeeps
  <2>2. pc = "preflight" => UNCHANGED startup
    BY <1>4, OutsideKeepsCheck
  <2>3. intent.kind # "stop" /\ pc \in IntentSteps => intent.bundle \in Bundles
    BY DEF IntentInv
  <2> QED
    BY <1>0, <1>1, <2>1, <2>2, <2>3 DEF Checking, Checked, RollsBack
<1>5. CASE EndContext
  BY <1>5, <1>1 DEF EndContext, storeVars, configVars, Checking, Checked, RollsBack
<1>6. CASE Leaving \/ Scheduling
  BY <1>6, <1>1, <1>2, LeavingKeeps, SchedulingKeeps
<1>7. CASE Resuming
  <2>1. hub.applied \in Bundles /\ hub.desired = hub.applied /\ startup[hub.applied] = "ready"
    BY <1>0, <1>7 DEF Resuming, Eligible, Resume, MaybeBundle
  <2>2. /\ hub'.applied = hub.applied /\ hub'.rollback = hub.rollback /\ hub'.desired = hub.desired
        /\ startup' = startup /\ intent'.kind = "start" /\ intent'.bundle = hub.applied
        /\ pc' = "perform"
    BY <1>7 DEF Resuming, Resume, Types, Hubs, NoIntent, configVars
  <2> QED
    BY <1>1, <2>1, <2>2 DEF Checking, Checked, RollsBack
<1>8. CASE Command
  <2>1. ASSUME NEW kind \in CommandKinds, NEW b \in MaybeBundle, BeginDirect(kind, b),
               kind \in {"apply", "start", "rollback"} => b \in Bundles /\ startup[b] = "ready",
               kind = "rollback" => b = hub.rollback,
               kind \in {"apply", "start", "rollback", "stop", "disable"}
        PROVE  SelectionInv'
    <3>1. /\ hub'.applied = hub.applied /\ hub'.rollback = hub.rollback
          /\ hub'.desired = IF b = None THEN hub.desired ELSE b
          /\ startup' = startup /\ pc' = "perform" /\ intent'.bundle = b
      BY <2>1 DEF BeginDirect, Types, Hubs, NoIntent, configVars
    <3>2. intent'.kind = IF kind = "disable" THEN "stop" ELSE kind
      BY <2>1 DEF BeginDirect, NoIntent
    <3> QED
      BY <1>1, <2>1, <3>1, <3>2, ControlAssumption DEF Checking, Checked, RollsBack
  <2>2. ASSUME NEW kind \in {"start", "restart", "enable"}, NEW b \in Bundles, BeginConfigured(kind, b)
        PROVE  SelectionInv'
    <3>1. /\ hub'.applied = hub.applied /\ hub'.rollback = hub.rollback
          /\ pc' = "preflight" /\ intent'.bundle = b /\ intent'.kind \in {"start", "restart"}
          /\ startup'[b] = "pending"
      BY <2>2 DEF BeginConfigured, Types, Hubs, NoIntent
    <3> QED
      BY <1>1, <3>1 DEF Checking, Checked, RollsBack
  <2>3. CASE \E b \in Bundles : BeginApply(b)
    BY <2>1, <2>3 DEF BeginApply, Applicable, CommandKinds, MaybeBundle
  <2>4. CASE BeginStart
    BY <1>0, <2>1, <2>4 DEF BeginStart, Applicable, CommandKinds, MaybeBundle
  <2>5. CASE BeginRollback
    BY <1>0, <2>1, <2>5 DEF BeginRollback, SelectionIsSound, CommandKinds, MaybeBundle
  <2>6. CASE \E kind \in {"stop", "disable"} : BeginStop(kind)
    BY <1>0, <2>1, <2>6 DEF BeginStop, CommandKinds
  <2> QED
    BY <1>8, <2>2, <2>3, <2>4, <2>5, <2>6 DEF Command
<1>9. CASE LaneStep
  <2>1. CASE Preflight
    <3>1. UNCHANGED hub
      BY <2>1 DEF Preflight, storeVars
    <3>2. CASE pc' \in IntentSteps
      <4>1. pc = "preflight" /\ pc' = "bind" /\ intent' = intent /\ startup' = [startup EXCEPT ![intent.bundle] = "ready"]
        BY <2>1, <3>2, ReturnTypes DEF Preflight, IntentSteps, Steps
      <4>2. intent.bundle \in Bundles
        BY <4>1 DEF IntentInv, IntentSteps, Steps
      <4>3. startup'[intent.bundle] = "ready"
        BY <4>1, <4>2 DEF Types
      <4> QED
        BY <1>1, <3>1, <4>1, <4>3 DEF Checking, Checked, RollsBack
    <3> QED
      BY <1>1, <1>2, <3>1, <3>2
  <2>2. CASE Bind
    <3>1. CASE pc' \in IntentSteps
      <4>1. /\ pc = "bind" /\ pc' = "perform" /\ intent' = intent /\ startup' = startup
            /\ Applicable(intent.bundle)
            /\ hub'.applied = hub.applied /\ hub'.rollback = hub.rollback /\ hub'.desired = intent.bundle
        BY <2>2, <3>1, ReturnTypes DEF Bind, IntentSteps, Steps, Types, Hubs, configVars
      <4> QED
        BY <1>1, <4>1 DEF Checking, Checked, RollsBack, Applicable, IntentSteps, Steps
    <3>2. CASE pc' \notin IntentSteps
      <4>1. UNCHANGED hub
        BY <2>2, <3>2 DEF Bind, IntentSteps, Steps
      <4> QED
        BY <1>1, <1>2, <3>2, <4>1
    <3> QED
      BY <3>1, <3>2
  <2>3. CASE Complete
    <3>1. pc' \notin IntentSteps /\ startup' = startup /\ (hub' = Committed \/ hub' = hub) /\ pc = "complete"
      BY <2>3, ReturnTypes DEF Complete, IntentSteps, configVars
    <3>2. CASE hub' = hub
      BY <1>1, <1>2, <3>1, <3>2
    <3>3. CASE hub' = Committed
      <4>1. SelectionIsSound'
        BY <3>1, <3>3, CommitIsSound DEF SelectionIsSound
      <4> QED
        BY <1>2, <3>1, <4>1
    <3> QED
      BY <3>1, <3>2, <3>3
  <2>4. CASE ~Preflight /\ ~Bind /\ ~Complete
    <3>1. UNCHANGED hub
      BY <1>9, <2>4, LaneAccepts
    <3>2. CASE pc' \in IntentSteps
      <4>1. /\ intent' = intent /\ pc \in IntentSteps \ {"preflight", "bind"}
            /\ pc' \in IntentSteps \ {"preflight", "bind"}
        BY <1>9, <2>4, <3>2, LaneMoves, LaneAccepts
      <4> QED
        BY <1>1, <1>3, <3>1, <4>1
    <3> QED
      BY <1>1, <1>2, <3>1, <3>2
  <2> QED
    BY <2>1, <2>2, <2>3, <2>4
<1> QED
  BY <1>4, <1>5, <1>6, <1>7, <1>8, <1>9, StepKinds

-----------------------------------------------------------------------------
(* Evidence and history *)

\* Only the lane fills in what an intent completes with.
LEMMA EvidencePreserved ==
  ASSUME Types, Evidence, Next
  PROVE  Evidence'
<1> USE DEF storeVars, processVars, laneVars, IntentSteps, Steps
<1>1. ASSUME pc' \notin IntentSteps PROVE Evidence'
  BY <1>1 DEF Evidence
<1>2. ASSUME UNCHANGED run, pc' # "complete" \/ pc' = pc \/ run.evidence = "none",
             pc' \in IntentSteps /\ pc' # pc => pc \in IntentSteps \ {"complete"}
      PROVE  Evidence'
  BY <1>2 DEF Evidence
<1>3. ASSUME NEW ok, Return(ok) PROVE Evidence'
  BY <1>1, <1>3, ReturnTypes
<1>4. run \in Runs
  BY DEF Types
<1>5. ASSUME run' = NoRun, pc' # "complete" PROVE Evidence'
  BY <1>5 DEF Evidence, NoRun
<1>6. CASE Outside
  BY <1>2, <1>6, OutsideKeeps
<1>7. CASE EndContext
  BY <1>4, <1>7 DEF EndContext, Evidence, Runs
<1>8. CASE Leaving \/ Scheduling
  BY <1>1, <1>8, LeavingKeeps, SchedulingKeeps
<1>9. CASE Resuming
  BY <1>5, <1>9 DEF Resuming, Resume
<1>10. CASE Command
  <2>1. run' = NoRun
    BY <1>10 DEF Command, BeginApply, BeginStart, BeginRollback, BeginStop, BeginConfigured,
                 BeginDirect, Begin
  <2>2. pc' \in {"perform", "preflight"}
    BY <1>10 DEF Command, BeginApply, BeginStart, BeginRollback, BeginStop, BeginConfigured,
                 BeginDirect
  <2> QED
    BY <1>5, <2>1, <2>2
<1>11. CASE LaneStep
  <2>1. CASE Preflight
    BY <1>2, <1>3, <2>1 DEF Preflight
  <2>2. CASE Bind
    BY <1>2, <1>3, <2>2 DEF Bind
  <2>3. CASE Perform
    BY <1>2, <1>3, <1>4, <2>3 DEF Perform, Evidence, Runs
  <2>4. CASE Select
    BY <1>2, <1>3, <1>4, <2>4 DEF Select, Evidence, Runs
  <2>5. CASE Replace
    BY <1>2, <1>3, <2>5 DEF Replace, StopReturns, StopCut
  <2>6. CASE LaunchRefused
    BY <1>2, <1>3, <2>6 DEF LaunchRefused
  <2>7. CASE LaunchFails
    BY <1>2, <1>3, <2>7 DEF LaunchFails
  <2>8. CASE LaunchUnhealthy
    BY <1>2, <1>3, <2>8 DEF LaunchUnhealthy, Spawned
  <2>9. CASE LaunchHealthy
    BY <1>2, <1>3, <1>4, <2>9 DEF LaunchHealthy, Spawned, Evidence, Runs
  <2>10. CASE Failed
    BY <1>2, <1>3, <1>4, <2>10 DEF Failed, Evidence, Runs
  <2>11. CASE Record
    BY <1>2, <1>3, <1>4, <2>11 DEF Record, Recorded, Lost, Evidence, Runs
  <2>12. CASE Confirm
    <3>1. CASE Return(FALSE)
      BY <1>3, <3>1
    <3>2. CASE pc' = "commit" /\ (run' = run \/ run' = [run EXCEPT !.fence = manager.process])
      BY <1>4, <2>12, <3>2 DEF Confirm, Evidence, Runs
    <3>3. CASE Lost(run.fence, "failed") \/ Lost(run.fence, "stopped")
      BY <1>4, <2>12, <3>3 DEF Confirm, Lost, Evidence, Runs
    <3> QED
      BY <2>12, <3>1, <3>2, <3>3 DEF Confirm
  <2>13. CASE PrepareCommit
    <3>1. CASE Return(FALSE)
      BY <1>3, <3>1
    <3>2. CASE Lost(run.fence, "failed")
      BY <1>4, <2>13, <3>2 DEF PrepareCommit, Lost, Evidence, Runs
    <3>3. CASE Running /\ manager.process = run.fence /\ ~run.ended
      BY <1>4, <2>13, <3>3 DEF PrepareCommit, Running, Evidence, Runs
    <3> QED
      BY <2>13, <3>1, <3>2, <3>3 DEF PrepareCommit
  <2>14. CASE StopLost
    BY <1>2, <1>3, <1>4, <2>14 DEF StopLost, StopReturns, StopCut, Evidence, Runs
  <2>15. CASE Halt
    BY <1>2, <1>3, <1>4, <2>15 DEF Halt, StopReturns, StopCut, Evidence, Runs
  <2>16. CASE Uncertain
    BY <1>2, <1>3, <1>4, <2>16 DEF Uncertain, Evidence, Runs
  <2>17. CASE Complete
    BY <1>2, <1>3, <2>17 DEF Complete
  <2>18. CASE CompleteFails
    <3>1. CASE Return(FALSE)
      BY <1>3, <3>1
    <3>2. CASE run' = [run EXCEPT !.fence = observation.pid, !.evidence = "none",
                                  !.state = "failed", !.ok = FALSE, !.second = TRUE]
      BY <1>4, <2>18, <3>2 DEF Evidence, Runs, CompleteFails
    <3> QED
      BY <2>18, <3>1, <3>2 DEF CompleteFails
  <2> QED
    BY <1>11, <2>1, <2>2, <2>3, <2>4, <2>5, <2>6, <2>7, <2>8, <2>9, <2>10, <2>11, <2>12, <2>13,
       <2>14, <2>15, <2>16, <2>17, <2>18 DEF LaneStep
<1> QED
  BY <1>6, <1>7, <1>8, <1>9, <1>10, <1>11, StepKinds

\* The lane writes evidence in three places.
LEMMA LaneObserves ==
  ASSUME LaneStep
  PROVE  Record \/ Confirm \/ Complete \/ UNCHANGED <<observation, latest>>
<1> USE DEF storeVars
<1>1. CASE Preflight
  BY <1>1 DEF Preflight
<1>2. CASE Bind
  BY <1>2 DEF Bind
<1>3. CASE Perform
  BY <1>3 DEF Perform
<1>4. CASE Select
  BY <1>4 DEF Select
<1>5. CASE Replace
  BY <1>5 DEF Replace, StopReturns, StopCut
<1>6. CASE LaunchRefused
  BY <1>6 DEF LaunchRefused
<1>7. CASE LaunchFails
  BY <1>7 DEF LaunchFails
<1>8. CASE LaunchUnhealthy
  BY <1>8 DEF LaunchUnhealthy, Spawned
<1>9. CASE LaunchHealthy
  BY <1>9 DEF LaunchHealthy, Spawned
<1>10. CASE Failed
  BY <1>10 DEF Failed
<1>11. CASE Record
  BY <1>11
<1>12. CASE Confirm
  BY <1>12
<1>13. CASE PrepareCommit
  BY <1>13 DEF PrepareCommit, Lost
<1>14. CASE StopLost
  BY <1>14 DEF StopLost, StopReturns, StopCut
<1>15. CASE Halt
  BY <1>15 DEF Halt, StopReturns, StopCut
<1>16. CASE Uncertain
  BY <1>16 DEF Uncertain
<1>17. CASE Complete
  BY <1>17
<1>18. CASE CompleteFails
  BY <1>18 DEF CompleteFails
<1> QED
  BY <1>1, <1>2, <1>3, <1>4, <1>5, <1>6, <1>7, <1>8, <1>9, <1>10, <1>11, <1>12, <1>13, <1>14,
     <1>15, <1>16, <1>17, <1>18 DEF LaneStep

\* Whoever deletes the observation also says what ended it.
LEMMA HistoryPreserved ==
  ASSUME Types, EvidenceInv, Next
  PROVE  HistoryIsClosed'
<1> USE DEF EvidenceInv, HistoryIsClosed, storeVars
<1>1. ASSUME UNCHANGED <<observation, latest>> PROVE HistoryIsClosed'
  BY <1>1
<1>2. ASSUME latest' # "running" PROVE HistoryIsClosed'
  BY <1>2
<1>3. ASSUME UNCHANGED latest, observation'.pid # 0 \/ observation.pid = 0 PROVE HistoryIsClosed'
  BY <1>3
<1>4. CASE Outside
  <2>1. CASE TickRunning
    BY <1>3, <2>1 DEF TickRunning, Types, Observations
  <2>2. CASE SaveConfiguration \/ DeadlinePasses \/ Reap
    BY <1>1, <2>2 DEF SaveConfiguration, DeadlinePasses, Reap
  <2>3. CASE \E p \in Pids : ChildExits(p)
    BY <1>1, <2>3 DEF ChildExits
  <2>4. CASE \E b \in Bundles : CreateStartup(b) \/ CheckStartup(b)
    BY <1>1, <2>4 DEF CreateStartup, CheckStartup
  <2> QED
    BY <1>4, <2>1, <2>2, <2>3, <2>4 DEF Outside
<1>5. CASE EndContext
  BY <1>1, <1>5 DEF EndContext
<1>6. CASE Leaving
  <2>1. CASE Close
    BY <1>1, <1>2, <2>1 DEF Close
  <2>2. CASE Boot \/ BootStopped
    BY <1>2, <2>2 DEF Boot, BootStopped
  <2>3. CASE GiveUp \/ Shutdown \/ Crash
    BY <1>1, <2>3 DEF GiveUp, Shutdown, Crash
  <2> QED
    BY <1>6, <2>1, <2>2, <2>3 DEF Leaving
<1>7. CASE Scheduling
  <2>1. CASE TickSettled
    BY <1>3, <1>7, <2>1 DEF Scheduling, Resuming, TickSettled, Schedule
  <2>2. CASE TickFailedObserved
    BY <1>2, <1>7, <2>2 DEF Scheduling, Resuming, TickFailedObserved
  <2>3. CASE TickFailedUnobserved
    BY <1>2, <1>3, <1>7, <2>3 DEF Scheduling, Resuming, TickFailedUnobserved, LogFailure
  <2>4. CASE BootRecovering
    BY <1>1, <1>2, <1>3, <1>7, <2>4 DEF Scheduling, Resuming, BootRecovering, Schedule
  <2> QED
    BY <1>7, <2>1, <2>2, <2>3, <2>4 DEF Scheduling
<1>8. CASE Resuming
  BY <1>1, <1>8 DEF Resuming, Resume
<1>9. CASE Command
  BY <1>1, <1>9 DEF Command, BeginApply, BeginStart, BeginRollback, BeginStop, BeginConfigured,
                    BeginDirect, Begin
<1>10. CASE LaneStep
  <2>1. CASE Record \/ Confirm
    <3>1. CASE Recorded
      BY <1>3, <2>1, <3>1 DEF Record, Confirm, Recorded, Running
    <3>2. CASE ~Recorded
      BY <1>1, <2>1, <3>2 DEF Record, Confirm
    <3> QED
      BY <3>1, <3>2
  <2>2. CASE Complete
    <3>1. CASE run.evidence = "clear"
      BY <1>2, <2>2, <3>1 DEF Complete, Evidence
    <3>2. CASE run.evidence = "record"
      <4>1. observation.pid # 0 /\ UNCHANGED observation
        BY <2>2, <3>2 DEF Complete, Evidence, EvidenceMatches
      <4> QED
        BY <4>1
    <3>3. CASE run.evidence = "none"
      BY <1>1, <2>2, <3>3 DEF Complete
    <3> QED
      BY <3>1, <3>2, <3>3 DEF Types, Runs
  <2>3. CASE UNCHANGED <<observation, latest>>
    BY <1>1, <2>3
  <2> QED
    BY <1>10, <2>1, <2>2, <2>3, LaneObserves
<1> QED
  BY <1>4, <1>5, <1>6, <1>7, <1>8, <1>9, <1>10, StepKinds

-----------------------------------------------------------------------------
(* Theorems *)

\* What the hub selects, what an intent carries and what its evidence will say
\* stay consistent through every intent, tick, crash and restart.
THEOREM ControlInvariant == Spec => []ControlInv
<1>1. Init => SelectionInv /\ EvidenceInv
  BY DEF Init, SelectionInv, SelectionIsSound, Checking, Checked, RollsBack, EvidenceInv,
         HistoryIsClosed, Evidence, IntentSteps, Steps
<1>2. ShapeInv /\ SelectionInv /\ EvidenceInv /\ [Next]_vars => SelectionInv' /\ EvidenceInv'
  <2> SUFFICES ASSUME ShapeInv, SelectionInv, EvidenceInv, [Next]_vars
               PROVE  SelectionInv' /\ EvidenceInv'
    OBVIOUS
  <2>1. Types /\ IntentInv
    BY TypesFolded DEF ShapeInv
  <2>2. CASE Next
    BY <2>1, <2>2, SelectionPreserved, EvidencePreserved, HistoryPreserved DEF EvidenceInv
  <2>3. CASE UNCHANGED vars
    <3>1. UNCHANGED <<hub, observation, latest, startup, pc, intent, run>>
      BY <2>3 DEF vars, storeVars, configVars, laneVars
    <3>2. SelectionInv'
      BY <3>1 DEF SelectionInv, SelectionIsSound, Checking, Checked, RollsBack
    <3> QED
      BY <3>1, <3>2 DEF EvidenceInv, HistoryIsClosed, Evidence
  <2> QED
    BY <2>2, <2>3
<1> QED
  BY <1>1, <1>2, ShapeInvariant, PTL DEF Spec, ControlInv

\* What is applied or kept for a rollback has passed the binary's check, and a
\* rollback leads to another bundle (commitSuccessfulRuntimeIntent).
THEOREM SelectionStaysSound == Spec => []SelectionIsSound
<1>1. ControlInv => SelectionIsSound
  BY DEF ControlInv, SelectionInv
<1> QED
  BY <1>1, ControlInvariant, PTL

\* No transaction deletes the process on record and leaves a history that says
\* it is running (CompleteRuntimeIntent, the reconciler's and Close's writes).
THEOREM HistoryStaysClosed == Spec => []HistoryIsClosed
<1>1. ControlInv => HistoryIsClosed
  BY DEF ControlInv, EvidenceInv
<1> QED
  BY <1>1, ControlInvariant, PTL

\* Only a launch makes a process of this panel.
LEMMA OnlyLaunchesSpawn ==
  ASSUME Types, ProcessInv, Next, NEW p \in Pids, child[p] = "none", child'[p] # "none"
  PROVE  pc = "launch"
<1> USE FieldTypes DEF Types, storeVars, processVars
<1>1. CASE Outside
  BY <1>1, OutsideSpawnsNothing
<1>2. CASE EndContext
  BY <1>2 DEF EndContext
<1>3. CASE Leaving
  <2>1. CASE Close
    BY <2>1 DEF Close, ProcessInv, Pids
  <2>2. CASE Crash
    BY <2>2 DEF Crash
  <2>3. CASE GiveUp \/ Shutdown \/ Boot \/ BootStopped
    BY <2>3 DEF GiveUp, Shutdown, Boot, BootStopped
  <2> QED
    BY <1>3, <2>1, <2>2, <2>3 DEF Leaving
<1>4. CASE Scheduling
  BY <1>4, SchedulingKeeps
<1>5. CASE Resuming
  BY <1>5 DEF Resuming, Resume
<1>6. CASE Command
  BY <1>6 DEF Command, BeginApply, BeginStart, BeginRollback, BeginStop, BeginConfigured,
              BeginDirect, Begin
<1>7. CASE LaneStep
  <2>1. CASE Preflight
    BY <2>1 DEF Preflight
  <2>2. CASE Bind
    BY <2>2 DEF Bind
  <2>3. CASE Perform
    BY <2>3 DEF Perform
  <2>4. CASE Select
    BY <2>4 DEF Select
  <2>5. CASE Replace
    <3>1. child \in [Pids -> ChildStates] /\ manager.process \in MaybePid
      OBVIOUS
    <3>2. CASE StopReturns
      BY <2>5, <3>1, <3>2 DEF StopReturns, ProcessInv, Pids
    <3>3. CASE StopCut
      BY <2>5, <3>1, <3>3 DEF StopCut
    <3> QED
      BY <2>5, <3>2, <3>3 DEF Replace
  <2>6. CASE LaunchRefused
    BY <2>6 DEF LaunchRefused
  <2>7. CASE LaunchFails
    BY <2>7 DEF LaunchFails
  <2>8. CASE LaunchUnhealthy
    BY <2>8 DEF LaunchUnhealthy, Spawned
  <2>9. CASE LaunchHealthy
    BY <2>9 DEF LaunchHealthy, Spawned
  <2>10. CASE Failed
    BY <2>10 DEF Failed
  <2>11. CASE Record
    BY <2>11 DEF Record, Recorded, Lost
  <2>12. CASE Confirm
    BY <2>12 DEF Confirm, Recorded, Lost
  <2>13. CASE PrepareCommit
    BY <2>13 DEF PrepareCommit, Lost
  <2>14. CASE StopLost
    <3>1. child \in [Pids -> ChildStates] /\ manager.process \in MaybePid
      OBVIOUS
    <3>2. CASE StopReturns
      BY <2>14, <3>1, <3>2 DEF StopReturns, ProcessInv, Pids
    <3>3. CASE StopCut
      BY <2>14, <3>1, <3>3 DEF StopCut
    <3> QED
      BY <2>14, <3>2, <3>3 DEF StopLost
  <2>15. CASE Halt
    <3>1. child \in [Pids -> ChildStates] /\ manager.process \in MaybePid
      OBVIOUS
    <3>2. CASE StopReturns
      BY <2>15, <3>1, <3>2 DEF StopReturns, ProcessInv, Pids
    <3>3. CASE StopCut
      BY <2>15, <3>1, <3>3 DEF StopCut
    <3> QED
      BY <2>15, <3>2, <3>3 DEF Halt
  <2>16. CASE Uncertain
    BY <2>16 DEF Uncertain
  <2>17. CASE Complete
    BY <2>17 DEF Complete
  <2>18. CASE CompleteFails
    BY <2>18 DEF CompleteFails
  <2> QED
    BY <1>7, <2>1, <2>2, <2>3, <2>4, <2>5, <2>6, <2>7, <2>8, <2>9, <2>10, <2>11, <2>12, <2>13,
       <2>14, <2>15, <2>16, <2>17, <2>18 DEF LaneStep
<1> QED
  BY <1>1, <1>2, <1>3, <1>4, <1>5, <1>6, <1>7, StepKinds

\* A service is ended in order to be replaced, or a new one started, only for a
\* bundle that the binary accepted and that is desired at that moment
\* (checkConfigurationForIntent, BindCheckedRuntimeIntent, performRuntimeIntent).
THEOREM ReplacementsAreChecked == Spec => OnlyCheckedBundlesReplace
<1>1. ControlInv /\ [Next]_vars =>
        [\A p \in Pids :
           (\/ child[p] = "alive" /\ child'[p] # "alive" /\ pc \in {"replace", "launch"} /\ pc' # pc
            \/ child[p] = "none" /\ child'[p] # "none")
           => startup[intent.bundle] = "ready" /\ hub.desired = intent.bundle]_vars
  <2> SUFFICES ASSUME ControlInv, Next, NEW p \in Pids,
                      \/ child[p] = "alive" /\ child'[p] # "alive" /\ pc \in {"replace", "launch"} /\ pc' # pc
                      \/ child[p] = "none" /\ child'[p] # "none"
               PROVE  startup[intent.bundle] = "ready" /\ hub.desired = intent.bundle
    OBVIOUS
  <2>1. Types /\ IntentInv /\ ProcessInv /\ Checked
    BY TypesFolded DEF ControlInv, ShapeInv, SelectionInv
  <2>2. pc \in {"replace", "launch"}
    BY <2>1, OnlyLaunchesSpawn
  <2> QED
    BY <2>1, <2>2 DEF IntentInv, Checked, IntentSteps, Steps
<1> QED
  BY <1>1, ControlInvariant, PTL DEF Spec, OnlyCheckedBundlesReplace

-----------------------------------------------------------------------------
(* A living service is on record.  Between intents it is as the hub and     *)
(* history say; while an intent that launched it is at work, the intent     *)
(* knows; where a stop was tried, none lives.                               *)

OnRecord ==
  /\ observation.pid = manager.process /\ observation.bundle = manager.bundle
  /\ latest = "running" /\ hub.applied = manager.bundle

Observed ==
  /\ observation.pid = manager.process /\ observation.bundle = manager.bundle
  /\ manager.bundle = intent.bundle /\ intent.kind # "stop"

ServedAt ==
  /\ pc \notin {"down", "launch", "failed", "uncertain"}
  /\ pc \in {"idle", "preflight", "bind", "perform", "halt", "replace"} => OnRecord
  /\ pc = "record" => manager.bundle = intent.bundle /\ intent.kind # "stop"
  /\ pc \in {"confirm", "commit", "complete"} => Observed
  /\ pc \in {"confirm", "commit"} /\ ~run.started => OnRecord
  /\ pc = "complete" => run.ok /\ run.evidence = "record" /\ run.state = "running"

Served == \A p \in Pids : child[p] = "alive" =>
            manager.process = p /\ manager.state = "running" /\ ServedAt

RecordsOwnStart == pc = "record" => run.started

ServiceInv == Served /\ RecordsOwnStart

\* The lane touches a process where it stops one or launches one.
LEMMA LaneTouches ==
  ASSUME LaneStep
  PROVE  \/ Replace \/ StopLost \/ Halt \/ LaunchFails \/ LaunchUnhealthy \/ LaunchHealthy
         \/ UNCHANGED <<manager, child>>
<1> USE DEF processVars
<1>1. CASE Preflight \/ Bind \/ Perform \/ Select \/ LaunchRefused \/ Failed
  BY <1>1 DEF Preflight, Bind, Perform, Select, LaunchRefused, Failed
<1>2. CASE Record \/ Confirm \/ PrepareCommit \/ Uncertain \/ Complete \/ CompleteFails
  BY <1>2 DEF Record, Confirm, PrepareCommit, Uncertain, Complete, CompleteFails
<1> QED
  BY <1>1, <1>2 DEF LaneStep

\* A stop, cut short or not, leaves the manager no living process.
LEMMA StopsEnd ==
  ASSUME Types, Served, StopReturns \/ StopCut, NEW p \in Pids, child'[p] = "alive"
  PROVE  FALSE
<1>1. child \in [Pids -> ChildStates] /\ manager.process \in MaybePid
  BY FieldTypes DEF Types
<1>2. CASE StopReturns
  <2>1. child'[p] = IF p = manager.process THEN "gone" ELSE child[p]
    BY <1>2 DEF StopReturns
  <2> QED
    BY <2>1 DEF Served
<1>3. CASE StopCut
  <2>1. p # manager.process => child'[p] = child[p]
    BY <1>1, <1>3 DEF StopCut
  <2>2. p = manager.process => child'[p] # "alive"
    BY <1>1, <1>3 DEF StopCut
  <2> QED
    BY <2>1, <2>2 DEF Served
<1> QED
  BY <1>2, <1>3

\* A process that lives after a step lived before it and is still the manager's,
\* or the step launched it.
LEMMA Survives ==
  ASSUME Types, Served, Next, NEW p \in Pids, child'[p] = "alive"
  PROVE  \/ child[p] = "alive" /\ UNCHANGED manager
         \/ LaunchHealthy /\ p = Starts + 1
<1> USE DEF processVars
<1>0. child \in [Pids -> ChildStates] /\ manager.process \in MaybePid /\ 0 \notin Pids
  BY FieldTypes DEF Types, Pids
<1>1. CASE Outside
  <2>1. CASE \E q \in Pids : ChildExits(q)
    BY <1>0, <2>1 DEF ChildExits
  <2>2. CASE Reap
    BY <1>0, <2>2 DEF Reap, Served
  <2>3. CASE SaveConfiguration \/ DeadlinePasses \/ TickRunning
    BY <2>3 DEF SaveConfiguration, DeadlinePasses, TickRunning
  <2>4. CASE \E b \in Bundles : CreateStartup(b) \/ CheckStartup(b)
    BY <2>4 DEF CreateStartup, CheckStartup
  <2> QED
    BY <1>1, <2>1, <2>2, <2>3, <2>4 DEF Outside
<1>2. CASE EndContext
  BY <1>2 DEF EndContext
<1>3. CASE Leaving
  <2>1. CASE Close
    <3>1. child'[p] = IF p = manager.process THEN "gone" ELSE child[p]
      BY <2>1 DEF Close
    <3> QED
      BY <3>1 DEF Served
  <2>2. CASE Crash
    BY <1>0, <2>2 DEF Crash
  <2>3. CASE GiveUp \/ Shutdown \/ Boot \/ BootStopped
    BY <2>3 DEF GiveUp, Shutdown, Boot, BootStopped
  <2> QED
    BY <1>3, <2>1, <2>2, <2>3 DEF Leaving
<1>4. CASE Scheduling
  BY <1>4, SchedulingKeeps
<1>5. CASE Resuming
  BY <1>5 DEF Resuming, Resume
<1>6. CASE Command
  BY <1>6 DEF Command, BeginApply, BeginStart, BeginRollback, BeginStop, BeginConfigured,
              BeginDirect, Begin
<1>7. CASE LaneStep
  <2>1. CASE Replace \/ StopLost \/ Halt
    BY <2>1, StopsEnd DEF Replace, StopLost, Halt
  <2>2. CASE LaunchFails
    BY <1>0, <2>2 DEF LaunchFails, Served
  <2>3. CASE LaunchUnhealthy
    <3>1. manager.process = 0 /\ (p = Starts + 1 \/ child'[p] = child[p])
      BY <1>0, <2>3 DEF LaunchUnhealthy
    <3>2. p = Starts + 1 => child'[p] # "alive"
      BY <1>0, <2>3 DEF LaunchUnhealthy
    <3> QED
      BY <1>0, <3>1, <3>2 DEF Served
  <2>4. CASE LaunchHealthy
    <3>1. manager.process = 0 /\ (p = Starts + 1 \/ child'[p] = child[p])
      BY <1>0, <2>4 DEF LaunchHealthy
    <3> QED
      BY <1>0, <2>4, <3>1 DEF Served
  <2> QED
    BY <1>7, <2>1, <2>2, <2>3, <2>4, LaneTouches
<1> QED
  BY <1>1, <1>2, <1>3, <1>4, <1>5, <1>6, <1>7, StepKinds

\* A launched process is the manager's, and of the intent's bundle.
LEMMA LaunchServes ==
  ASSUME Types, IntentInv, LaunchHealthy
  PROVE  manager'.process = Starts + 1 /\ manager'.state = "running" /\ ServedAt'
<1>1. /\ manager'.process = Starts + 1 /\ manager'.state = "running"
      /\ manager'.bundle = intent.bundle /\ pc' = "record" /\ pc = "launch" /\ intent' = intent
  BY DEF LaunchHealthy, Spawned
<1> QED
  BY <1>1 DEF ServedAt, IntentInv, IntentSteps, Steps

\* The lane keeps a living service on record, or confirms the one it started
\* and takes it on record when it completes.
LEMMA LaneServes ==
  ASSUME Types, IntentInv, RecordsOwnStart, UNCHANGED <<manager, child>>,
         LaneStep, ~Replace, ~StopLost, ~Halt,
         NEW p \in Pids, child[p] = "alive", manager.process = p, manager.state = "running",
         ServedAt
  PROVE  ServedAt'
<1>0. Running /\ run \in Runs /\ 0 \notin Pids /\ pc \in Steps
  BY DEF Running, Types, Pids
<1>1. ASSUME UNCHANGED <<observation, latest, hub>>, pc' \in {"idle", "closing"}, OnRecord
      PROVE  ServedAt'
  BY <1>1 DEF ServedAt, OnRecord
<1>2. ASSUME pc' \in {"lost", "closing"}
      PROVE  ServedAt'
  BY <1>2 DEF ServedAt
<1>3. ASSUME NEW ok, Return(ok), UNCHANGED <<observation, latest, hub>>, OnRecord
      PROVE  ServedAt'
  BY <1>1, <1>3, ReturnTypes
<1> USE DEF storeVars
<1>4. CASE Preflight
  BY <1>3, <1>4 DEF Preflight, ServedAt, OnRecord
<1>5. CASE Bind
  <2>1. OnRecord
    BY <1>5 DEF Bind, ServedAt
  <2>2. CASE Applicable(intent.bundle)
    BY <1>5, <2>1, <2>2 DEF Bind, ServedAt, OnRecord, Types, Hubs
  <2> QED
    BY <1>3, <1>5, <2>1, <2>2 DEF Bind
<1>6. CASE Perform
  BY <1>0, <1>6 DEF Perform, ServedAt, OnRecord, Observed, Runs
<1>7. CASE Select
  BY <1>0, <1>3, <1>7 DEF Select, ServedAt
<1>9. CASE LaunchRefused \/ LaunchFails \/ LaunchUnhealthy \/ LaunchHealthy \/ Failed \/ Uncertain
  BY <1>9 DEF LaunchRefused, LaunchFails, LaunchUnhealthy, LaunchHealthy, Failed, Uncertain,
     ServedAt
<1>10. CASE Record
  <2>1. CASE Recorded /\ run' = [run EXCEPT !.fence = manager.process] /\ pc' = "confirm"
    BY <1>0, <1>10, <2>1 DEF Record, Recorded, ServedAt, Observed, RecordsOwnStart, Runs
  <2> QED
    BY <1>2, <1>10, <2>1 DEF Record, Lost
<1>11. CASE Confirm
  <2>1. CASE run.started /\ pc' = "commit" /\ UNCHANGED <<observation, intent, run>>
    BY <1>11, <2>1 DEF Confirm, ServedAt, Observed
  <2>2. CASE ~run.started /\ Recorded /\ pc' = "commit" /\ intent' = intent
             /\ run' = [run EXCEPT !.fence = manager.process]
    BY <1>0, <1>11, <2>2 DEF Confirm, Recorded, ServedAt, Observed, OnRecord, Runs
  <2>3. CASE ~run.started /\ Return(FALSE) /\ UNCHANGED observation
    BY <1>3, <1>11, <2>3 DEF Confirm, ServedAt
  <2> QED
    BY <1>2, <1>11, <2>1, <2>2, <2>3 DEF Confirm, Lost
<1>12. CASE PrepareCommit
  <2>1. CASE Running /\ manager.process = run.fence /\ ~run.ended
    BY <1>0, <1>12, <2>1 DEF PrepareCommit, ServedAt, Observed, Runs
  <2>2. CASE run.started /\ Lost(run.fence, "failed")
    BY <1>2, <2>2 DEF Lost
  <2>3. CASE ~run.started /\ Return(FALSE)
    BY <1>3, <1>12, <2>3 DEF PrepareCommit, ServedAt
  <2> QED
    BY <1>12, <2>1, <2>2, <2>3 DEF PrepareCommit
<1>14. CASE Complete
  <2>1. /\ run.ok /\ run.evidence = "record" /\ run.state = "running" /\ Observed
        /\ intent.kind \in StartKinds
    BY <1>14 DEF Complete, ServedAt, Observed, IntentInv, IntentSteps, Steps
  <2>2. UNCHANGED observation /\ latest' = "running" /\ hub' = Committed
    BY <1>14, <2>1 DEF Complete
  <2>3. Committed.applied = intent.bundle
    BY <2>1 DEF Committed, StartKinds, Types, Hubs
  <2>4. pc' \in {"idle", "closing"}
    BY <1>14, ReturnTypes DEF Complete
  <2> QED
    BY <2>1, <2>2, <2>3, <2>4 DEF ServedAt, OnRecord, Observed
<1>15. CASE CompleteFails
  <2>1. run.ok
    BY <1>15 DEF CompleteFails, ServedAt
  <2> QED
    BY <1>0, <1>2, <1>15, <2>1 DEF CompleteFails
<1> QED
  BY <1>4, <1>5, <1>6, <1>7, <1>9, <1>10, <1>11, <1>12, <1>14, <1>15 DEF LaneStep

\* A service that lives is served, at every step.
LEMMA ServedPreserved ==
  ASSUME Types, IntentInv, ServiceInv, Next
  PROVE  Served'
<1> SUFFICES ASSUME NEW p \in Pids, child'[p] = "alive"
             PROVE  manager'.process = p /\ manager'.state = "running" /\ ServedAt'
  BY DEF Served
<1> USE DEF ServiceInv
<1>1. CASE LaunchHealthy /\ p = Starts + 1
  BY <1>1, LaunchServes
<1>2. CASE child[p] = "alive" /\ UNCHANGED manager
  <2>0. manager.process = p /\ manager.state = "running" /\ ServedAt /\ Running /\ 0 \notin Pids
    BY <1>2 DEF Served, Running, Pids
  <2> SUFFICES ServedAt'
    BY <1>2, <2>0
  <2> USE DEF storeVars, processVars, laneVars
  <2>1. ASSUME UNCHANGED <<hub, latest, pc, intent, run>>,
               observation'.pid = observation.pid, observation'.bundle = observation.bundle
        PROVE  ServedAt'
    BY <1>2, <2>0, <2>1 DEF ServedAt, OnRecord, Observed
  <2>2. CASE Outside
    <3>1. CASE TickRunning
      BY <2>1, <3>1 DEF TickRunning, Types, Observations
    <3>2. CASE SaveConfiguration \/ DeadlinePasses \/ Reap
      BY <2>1, <3>2 DEF SaveConfiguration, DeadlinePasses, Reap
    <3>3. CASE \E q \in Pids : ChildExits(q)
      BY <2>1, <3>3 DEF ChildExits
    <3>4. CASE \E b \in Bundles : CreateStartup(b) \/ CheckStartup(b)
      BY <2>1, <3>4 DEF CreateStartup, CheckStartup
    <3> QED
      BY <2>2, <3>1, <3>2, <3>3, <3>4 DEF Outside
  <2>3. CASE EndContext
    BY <1>2, <2>0, <2>3 DEF EndContext, ServedAt, OnRecord, Observed, Types, Runs
  <2>4. CASE Leaving
    <3>1. CASE GiveUp
      BY <1>2, <2>0, <3>1, ReturnTypes DEF GiveUp, ServedAt, OnRecord
    <3>2. CASE Shutdown
      <4>1. pc' = "closing"
        BY <3>2 DEF Shutdown
      <4> QED
        BY <4>1 DEF ServedAt
    <3>3. CASE Close \/ Crash
      BY <2>0, <1>2, <3>3 DEF Close, Crash, NewManager
    <3>4. CASE Boot \/ BootStopped
      BY <2>0, <3>4 DEF Boot, BootStopped, ServedAt
    <3> QED
      BY <2>4, <3>1, <3>2, <3>3, <3>4 DEF Leaving
  <2>5. CASE TickSettled \/ TickFailedObserved \/ TickFailedUnobserved
    BY <2>0, <2>5 DEF TickSettled, TickFailedObserved, TickFailedUnobserved
  <2>6. CASE BootRecovering
    BY <2>0, <2>6 DEF BootRecovering, ServedAt
  <2>7. CASE Command
    <3>1. ASSUME NEW kind, NEW b, BeginDirect(kind, b)
          PROVE  ServedAt'
      <4>1. OnRecord /\ UNCHANGED <<observation, latest>> /\ pc' = "perform"
        BY <2>0, <3>1 DEF BeginDirect, Begin, ServedAt
      <4>2. UNCHANGED hub.applied
        BY <3>1 DEF BeginDirect, Types, Hubs
      <4> QED
        BY <1>2, <4>1, <4>2 DEF ServedAt, OnRecord
    <3>2. ASSUME NEW kind, NEW b \in Bundles, BeginConfigured(kind, b)
          PROVE  ServedAt'
      <4>1. OnRecord /\ UNCHANGED <<observation, latest>> /\ pc' = "preflight"
        BY <2>0, <3>2 DEF BeginConfigured, Begin, ServedAt
      <4>2. UNCHANGED hub.applied
        BY <3>2 DEF BeginConfigured, Types, Hubs
      <4> QED
        BY <1>2, <4>1, <4>2 DEF ServedAt, OnRecord
    <3>3. CASE \E b \in Bundles : BeginApply(b)
      BY <3>1, <3>3 DEF BeginApply
    <3>4. CASE BeginStart
      BY <3>1, <3>4 DEF BeginStart
    <3>5. CASE BeginRollback
      BY <3>1, <3>5 DEF BeginRollback
    <3>6. CASE \E kind \in {"stop", "disable"} : BeginStop(kind)
      BY <3>1, <3>6 DEF BeginStop
    <3> QED
      BY <2>7, <3>2, <3>3, <3>4, <3>5, <3>6 DEF Command
  <2>8. CASE LaneStep
    <3>1. CASE Replace \/ StopLost \/ Halt
      BY <3>1, StopsEnd DEF Replace, StopLost, Halt
    <3>2. CASE LaunchFails \/ LaunchUnhealthy \/ LaunchHealthy
      BY <2>0, <3>2 DEF LaunchFails, LaunchUnhealthy, LaunchHealthy
    <3> QED
      BY <1>2, <2>0, <2>8, <3>1, <3>2, LaneTouches, LaneServes
  <2> QED
    BY <1>2, <2>0, <2>2, <2>3, <2>4, <2>5, <2>6, <2>7, <2>8 DEF Next, Outside, Leaving, Tick,
       Started
<1> QED
  BY <1>1, <1>2, Survives

\* Only an intent that launched a process records one as its own.
LEMMA RecordsPreserved ==
  ASSUME Types, RecordsOwnStart, Next
  PROVE  RecordsOwnStart'
<1> USE DEF RecordsOwnStart
<1>1. CASE Outside
  BY <1>1, OutsideKeeps
<1>2. CASE EndContext
  BY <1>2 DEF EndContext, Types, Runs
<1>3. CASE Leaving \/ Scheduling
  BY <1>3, LeavingKeeps, SchedulingKeeps DEF IntentSteps, Steps
<1>4. CASE Resuming \/ Command
  BY <1>4 DEF Resuming, Resume, Command, BeginApply, BeginStart, BeginRollback, BeginStop,
              BeginConfigured, BeginDirect
<1>5. CASE LaneStep
  <2>1. CASE LaunchHealthy
    BY <2>1 DEF LaunchHealthy, Types, Runs
  <2>2. ASSUME NEW ok, Return(ok) PROVE RecordsOwnStart'
    BY <2>2, ReturnTypes
  <2>3. CASE Preflight \/ Bind \/ Perform \/ Select \/ Replace \/ Halt
    BY <2>2, <2>3 DEF Preflight, Bind, Perform, Select, Replace, Halt
  <2>4. CASE LaunchRefused \/ LaunchFails \/ LaunchUnhealthy \/ Failed \/ Uncertain
    BY <2>2, <2>4 DEF LaunchRefused, LaunchFails, LaunchUnhealthy, Failed, Uncertain
  <2>5. CASE Record \/ Confirm \/ PrepareCommit \/ StopLost \/ Complete \/ CompleteFails
    BY <2>2, <2>5 DEF Record, Confirm, PrepareCommit, Lost, StopLost, Complete, CompleteFails
  <2> QED
    BY <1>5, <2>1, <2>3, <2>4, <2>5 DEF LaneStep
<1> QED
  BY <1>1, <1>2, <1>3, <1>4, <1>5, StepKinds

-----------------------------------------------------------------------------
(* The fence: while the panel serves, the process on record is the          *)
(* manager's or gone, and an intent clears only what is gone.               *)

Numbered == \A p \in Pids : child[p] # "none" <=> p <= Starts

Fenced ==
  pc \notin {"down", "closing"} /\ observation.pid # 0 =>
    observation.pid = manager.process \/ child[observation.pid] = "gone"

ClearsTheGone ==
  pc = "complete" /\ run.evidence = "clear" /\ EvidenceMatches => Exited(observation.pid)

FenceInv == Numbered /\ Fenced /\ ClearsTheGone

\* A launch takes the next number.
LEMMA LaunchIsFresh ==
  ASSUME Types, SpawnInv, Numbered, pc = "launch"
  PROVE  Starts + 1 \in Pids /\ child[Starts + 1] = "none"
<1>1. Starts \in Nat /\ Starts < MaxStarts
  BY StartsNat DEF SpawnInv
<1>2. Starts + 1 \in Pids
  BY <1>1, ControlAssumption DEF Pids
<1> QED
  BY <1>1, <1>2 DEF Numbered

\* A stop, cut short or not, spawns nothing, revives nothing, and lets go of a
\* process only when that is gone.
LEMMA StopMoves ==
  ASSUME Types, ProcessInv, StopReturns \/ StopCut, NEW p \in Pids
  PROVE  /\ (child'[p] = "none") <=> (child[p] = "none")
         /\ child[p] = "gone" => child'[p] = "gone"
         /\ manager.process = p => manager'.process = p \/ child'[p] = "gone"
<1>1. child \in [Pids -> ChildStates] /\ manager.process \in MaybePid /\ manager \in Managers
  BY FieldTypes DEF Types
<1>2. CASE StopReturns
  BY <1>1, <1>2 DEF StopReturns, ProcessInv, Pids
<1>3. CASE StopCut
  <2>1. manager'.process = manager.process
    BY <1>1, <1>3 DEF StopCut, Managers
  <2>2. child'[p] = IF p = manager.process /\ child[p] = "alive" THEN "doomed" ELSE child[p]
    BY <1>1, <1>3 DEF StopCut
  <2> QED
    BY <2>1, <2>2
<1> QED
  BY <1>2, <1>3

\* No step but a launch spawns a process; the others revive none, and none but a
\* crash lets go of a process of the manager that is not gone.
LEMMA ProcessMoves ==
  ASSUME Types, ProcessInv, Next, ~LaunchHealthy, ~LaunchUnhealthy, NEW p \in Pids
  PROVE  /\ (child'[p] = "none") <=> (child[p] = "none")
         /\ child[p] = "gone" => child'[p] = "gone"
         /\ manager.process = p => manager'.process = p \/ child'[p] = "gone" \/ Crash
<1> USE DEF processVars
<1>0. child \in [Pids -> ChildStates] /\ manager.process \in MaybePid /\ 0 \notin Pids
  BY FieldTypes DEF Types, Pids
<1>1. CASE Outside
  <2>1. CASE \E q \in Pids : ChildExits(q)
    BY <1>0, <2>1 DEF ChildExits
  <2>2. CASE Reap
    BY <1>0, <2>2 DEF Reap
  <2>3. CASE SaveConfiguration \/ DeadlinePasses \/ TickRunning
    BY <2>3 DEF SaveConfiguration, DeadlinePasses, TickRunning
  <2>4. CASE \E b \in Bundles : CreateStartup(b) \/ CheckStartup(b)
    BY <2>4 DEF CreateStartup, CheckStartup
  <2> QED
    BY <1>1, <2>1, <2>2, <2>3, <2>4 DEF Outside
<1>2. CASE EndContext
  BY <1>2 DEF EndContext
<1>3. CASE Leaving
  <2>1. CASE Close
    <3>1. child'[p] = IF p = manager.process THEN "gone" ELSE child[p]
      BY <2>1 DEF Close
    <3> QED
      BY <3>1 DEF ProcessInv, Pids
  <2>2. CASE Crash
    BY <1>0, <2>2 DEF Crash
  <2>3. CASE GiveUp \/ Shutdown \/ Boot \/ BootStopped
    BY <2>3 DEF GiveUp, Shutdown, Boot, BootStopped
  <2> QED
    BY <1>3, <2>1, <2>2, <2>3 DEF Leaving
<1>4. CASE Scheduling
  BY <1>4, SchedulingKeeps
<1>5. CASE Resuming
  BY <1>5 DEF Resuming, Resume
<1>6. CASE Command
  BY <1>6 DEF Command, BeginApply, BeginStart, BeginRollback, BeginStop, BeginConfigured,
              BeginDirect, Begin
<1>7. CASE LaneStep
  <2>1. CASE Replace \/ StopLost \/ Halt
    BY <2>1, StopMoves DEF Replace, StopLost, Halt
  <2>2. CASE LaunchFails
    BY <1>0, <2>2 DEF LaunchFails
  <2> QED
    BY <1>7, <2>1, <2>2, LaneTouches
<1> QED
  BY <1>1, <1>2, <1>3, <1>4, <1>5, <1>6, <1>7, StepKinds

\* A launch spawns the next process.
LEMMA LaunchMoves ==
  ASSUME Types, SpawnInv, Numbered, LaunchHealthy \/ LaunchUnhealthy
  PROVE  /\ pc = "launch" /\ manager.process = 0
         /\ Starts + 1 \in Pids /\ child[Starts + 1] = "none" /\ child'[Starts + 1] # "none"
         /\ \A p \in Pids \ {Starts + 1} : child'[p] = child[p]
         /\ manager'.process \in {0, Starts + 1}
         /\ UNCHANGED <<observation, intent>>
<1>1. pc = "launch" /\ manager.process = 0
  BY DEF LaunchHealthy, LaunchUnhealthy
<1>2. Starts + 1 \in Pids /\ child[Starts + 1] = "none"
  BY <1>1, LaunchIsFresh
<1>3. child \in [Pids -> ChildStates]
  BY DEF Types
<1>4. \E state \in {"gone", "doomed", "alive"} : child' = [child EXCEPT ![Starts + 1] = state]
  BY DEF LaunchHealthy, LaunchUnhealthy
<1>5. manager'.process \in {0, Starts + 1} /\ UNCHANGED <<observation, intent>>
  BY DEF LaunchHealthy, LaunchUnhealthy, Spawned, storeVars
<1> QED
  BY <1>1, <1>2, <1>3, <1>4, <1>5

\* Processes are numbered in the order of their launches.
LEMMA NumberedPreserved ==
  ASSUME Types, SpawnInv, ProcessInv, Numbered, Next
  PROVE  Numbered'
<1>1. CASE LaunchHealthy \/ LaunchUnhealthy
  <2>1. Starts \in Nat
    BY StartsNat
  <2>2. \A p \in Pids : child'[p] # "none" <=> p <= Starts + 1
    BY <1>1, <2>1, LaunchMoves DEF Numbered, Pids
  <2>3. {p \in Pids : child'[p] # "none"} = 1 .. (Starts + 1)
    BY <1>1, <2>1, <2>2, LaunchMoves, ControlAssumption DEF Pids
  <2>4. Starts' = Starts + 1
    <3>1. Starts' = Cardinality(1 .. (Starts + 1))
      BY <2>3 DEF Starts, Pids
    <3>2. Cardinality(1 .. (Starts + 1)) = Starts + 1
      BY <2>1, FS_Interval
    <3> QED
      BY <3>1, <3>2
  <2> QED
    BY <2>2, <2>4 DEF Numbered
<1>2. CASE ~LaunchHealthy /\ ~LaunchUnhealthy
  <2>1. \A p \in Pids : (child'[p] = "none") <=> (child[p] = "none")
    BY <1>2, ProcessMoves
  <2> QED
    BY <2>1, StartsStay DEF Numbered
<1> QED
  BY <1>1, <1>2

\* What is gone stays gone, and the manager lets go of nothing else, unless the
\* panel dies.
LEMMA GoneStays ==
  ASSUME Types, SpawnInv, ProcessInv, Numbered, Next, NEW p \in Pids
  PROVE  /\ child[p] = "gone" => child'[p] = "gone"
         /\ manager.process = p => manager'.process = p \/ child'[p] = "gone" \/ Crash
<1>1. CASE LaunchHealthy \/ LaunchUnhealthy
  BY <1>1, LaunchMoves DEF Pids
<1> QED
  BY <1>1, ProcessMoves

\* The process on record changes where a living one is recorded, where an intent
\* completes, when the panel closes, and otherwise after its end.
LEMMA ObservationMoves ==
  ASSUME Types, Next
  PROVE  \/ observation'.pid = observation.pid
         \/ (Record \/ Confirm) /\ Recorded
         \/ Complete /\ run.evidence = "clear" /\ observation' = NoObservation
         \/ pc = "closing" /\ pc' = "down"
         \/ Exited(observation.pid) /\ observation' = NoObservation /\ pc \in {"idle", "down"}
<1> USE DEF storeVars
<1>1. CASE Outside
  <2>1. CASE TickRunning
    BY <2>1 DEF TickRunning, Types, Observations
  <2>2. CASE SaveConfiguration \/ DeadlinePasses \/ Reap
    BY <2>2 DEF SaveConfiguration, DeadlinePasses, Reap
  <2>3. CASE \E p \in Pids : ChildExits(p)
    BY <2>3 DEF ChildExits
  <2>4. CASE \E b \in Bundles : CreateStartup(b) \/ CheckStartup(b)
    BY <2>4 DEF CreateStartup, CheckStartup
  <2> QED
    BY <1>1, <2>1, <2>2, <2>3, <2>4 DEF Outside
<1>2. CASE EndContext
  BY <1>2 DEF EndContext
<1>3. CASE Leaving
  <2>1. CASE Close
    BY <2>1 DEF Close
  <2>2. CASE BootStopped
    BY <2>2 DEF BootStopped
  <2>3. CASE GiveUp \/ Shutdown \/ Crash \/ Boot
    BY <2>3 DEF GiveUp, Shutdown, Crash, Boot
  <2> QED
    BY <1>3, <2>1, <2>2, <2>3 DEF Leaving
<1>4. CASE Scheduling
  <2>1. CASE TickSettled
    BY <1>4, <2>1 DEF Scheduling, Resuming, TickSettled, Schedule, Exited
  <2>2. CASE TickFailedObserved
    BY <1>4, <2>2 DEF Scheduling, Resuming, TickFailedObserved, Schedule
  <2>3. CASE TickFailedUnobserved
    BY <1>4, <2>3 DEF Scheduling, Resuming, TickFailedUnobserved, Schedule, Exited
  <2>4. CASE BootRecovering
    BY <1>4, <2>4 DEF Scheduling, Resuming, BootRecovering, Schedule
  <2> QED
    BY <1>4, <2>1, <2>2, <2>3, <2>4 DEF Scheduling
<1>5. CASE Resuming
  BY <1>5 DEF Resuming, Resume
<1>6. CASE Command
  BY <1>6 DEF Command, BeginApply, BeginStart, BeginRollback, BeginStop, BeginConfigured,
              BeginDirect, Begin
<1>7. CASE LaneStep
  <2>1. CASE Record \/ Confirm
    BY <2>1 DEF Record, Confirm
  <2>2. CASE Complete
    BY <2>2 DEF Complete
  <2> QED
    BY <1>7, <2>1, <2>2, LaneObserves
<1> QED
  BY <1>1, <1>2, <1>3, <1>4, <1>5, <1>6, <1>7, StepKinds

\* A panel that comes up, or goes on, has a process on record that is gone.
LEMMA PanelStarts ==
  ASSUME Next, pc \in {"down", "closing"}, pc' \notin {"down", "closing"}
  PROVE  Exited(observation.pid) /\ UNCHANGED <<manager, child>>
<1> USE DEF processVars
<1>1. CASE BootStopped \/ BootRecovering
  BY <1>1 DEF BootStopped, BootRecovering, Resume, Schedule
<1>2. CASE Outside \/ EndContext
  BY <1>2, OutsideKeeps DEF EndContext
<1>3. CASE GiveUp \/ Shutdown \/ Close \/ Crash \/ Boot
  BY <1>3 DEF GiveUp, Shutdown, Close, Crash, Boot
<1>4. CASE TickSettled \/ TickFailedObserved \/ TickFailedUnobserved
  BY <1>4 DEF TickSettled, TickFailedObserved, TickFailedUnobserved
<1>5. CASE Command
  BY <1>5 DEF Command, BeginApply, BeginStart, BeginRollback, BeginStop, BeginConfigured,
              BeginDirect, Begin
<1>6. CASE LaneStep
  BY <1>6, LaneMoves DEF IntentSteps
<1> QED
  BY <1>1, <1>2, <1>3, <1>4, <1>5, <1>6 DEF Next, Outside, Tick, Started

\* While the panel serves, the process on record is the manager's or gone.
LEMMA FencedPreserved ==
  ASSUME Types, SpawnInv, ProcessInv, Numbered, Fenced, Next
  PROVE  Fenced'
<1> SUFFICES ASSUME pc' \notin {"down", "closing"}, observation'.pid # 0
             PROVE  observation'.pid = manager'.process \/ child'[observation'.pid] = "gone"
  BY DEF Fenced
<1>1. CASE observation'.pid = observation.pid
  <2>1. observation.pid \in Pids
    BY <1>1, FieldTypes DEF MaybePid
  <2>2. ~Crash
    BY DEF Crash
  <2>3. CASE pc \in {"down", "closing"}
    BY <1>1, <2>3, PanelStarts DEF Exited
  <2>4. CASE pc \notin {"down", "closing"}
    BY <1>1, <2>1, <2>2, <2>4, GoneStays DEF Fenced
  <2> QED
    BY <2>3, <2>4
<1>2. CASE (Record \/ Confirm) /\ Recorded
  BY <1>2 DEF Record, Confirm, Recorded, processVars
<1>3. CASE observation' = NoObservation
  BY <1>3 DEF NoObservation
<1> QED
  BY <1>1, <1>2, <1>3, ObservationMoves

\* An intent deletes its evidence only of a process that is gone.
LEMMA ClearsPreserved ==
  ASSUME Types, SpawnInv, ProcessInv, Evidence, FenceInv, Next
  PROVE  ClearsTheGone'
<1> SUFFICES ASSUME pc' = "complete", run'.evidence = "clear", EvidenceMatches'
             PROVE  Exited(observation.pid)' 
  BY DEF ClearsTheGone
<1> USE DEF FenceInv, IntentSteps, Steps
<1>0. /\ run \in Runs /\ child \in [Pids -> ChildStates] /\ observation.pid \in MaybePid
      /\ observation'.pid = run'.fence
  BY FieldTypes DEF Types, EvidenceMatches
<1>1. ASSUME UNCHANGED observation, Exited(observation.pid) PROVE Exited(observation.pid)'
  BY <1>0, <1>1, GoneStays DEF Exited, MaybePid
<1>2. CASE Outside
  <2>1. pc = "complete" /\ run' = run
    BY <1>2, OutsideKeeps
  <2>2. UNCHANGED observation
    BY <1>2, <2>1 DEF Outside, SaveConfiguration, CreateStartup, CheckStartup, DeadlinePasses,
                      TickRunning, ChildExits, Reap, storeVars
  <2> QED
    BY <1>1, <2>1, <2>2 DEF ClearsTheGone, EvidenceMatches
<1>3. CASE EndContext
  BY <1>0, <1>1, <1>3 DEF EndContext, ClearsTheGone, EvidenceMatches, Runs, storeVars
<1>4. CASE Leaving \/ Scheduling
  BY <1>4, LeavingKeeps, SchedulingKeeps
<1>5. CASE Resuming \/ Command
  BY <1>5 DEF Resuming, Resume, Command, BeginApply, BeginStart, BeginRollback, BeginStop,
              BeginConfigured, BeginDirect
<1>6. CASE LaneStep
  <2>0. /\ pc # "complete" /\ run.evidence = "none" /\ UNCHANGED observation
        /\ \A ok : ~Return(ok)
    <3>1. \A ok : ~Return(ok)
      BY ReturnTypes
    <3>2. pc \in IntentSteps /\ pc # "complete"
      <4>1. ~Complete /\ ~CompleteFails
        BY <1>0, <3>1 DEF Complete, CompleteFails
      <4> QED
        BY <1>6, <4>1, LaneMoves DEF LaneStep, Preflight, Bind, Perform, Select, Replace,
           LaunchRefused, LaunchFails, LaunchUnhealthy, LaunchHealthy, Failed, Record, Confirm,
           PrepareCommit, StopLost, Halt, Uncertain
    <3> QED
      BY <1>6, <3>1, <3>2, LaneObserves DEF Evidence, Record, Confirm, Complete, Lost
  <2> USE DEF storeVars
  <2>1. CASE Failed
    BY <1>0, <1>1, <2>0, <2>1 DEF Failed, Runs
  <2>2. CASE Uncertain
    BY <1>0, <1>1, <2>0, <2>2 DEF Uncertain, Runs
  <2>3. CASE Select
    BY <1>1, <2>0, <2>3 DEF Select, Exited
  <2>4. CASE StopLost \/ Halt
    <3>1. StopReturns /\ pc \notin {"down", "closing"}
      BY <1>0, <2>0, <2>4 DEF StopLost, Halt
    <3>2. observation.pid # 0 => child'[observation.pid] = "gone"
      BY <1>0, <3>1 DEF StopReturns, Fenced, MaybePid
    <3> QED
      BY <2>0, <3>2 DEF Exited
  <2>5. CASE PrepareCommit
    BY <1>0, <2>0, <2>5 DEF PrepareCommit, Runs, Lost
  <2>6. CASE Preflight \/ Bind \/ Perform \/ Replace \/ LaunchRefused \/ LaunchFails
    BY <2>0, <2>6 DEF Preflight, Bind, Perform, Replace, LaunchRefused, LaunchFails
  <2>7. CASE LaunchUnhealthy \/ LaunchHealthy \/ Record \/ Confirm
    BY <2>0, <2>7 DEF LaunchUnhealthy, LaunchHealthy, Record, Confirm, Lost
  <2>8. CASE Complete \/ CompleteFails
    BY <2>0, <2>8 DEF Complete, CompleteFails
  <2> QED
    BY <1>6, <2>1, <2>2, <2>3, <2>4, <2>5, <2>6, <2>7, <2>8 DEF LaneStep
<1> QED
  BY <1>2, <1>3, <1>4, <1>5, <1>6, StepKinds

-----------------------------------------------------------------------------
(* The retry budget.  Attempts are counted as long as an episode lasts; a   *)
(* run that succeeded reopens it only through a stable run, a shutdown with *)
(* evidence, or the start that forgives.                                    *)

EpisodeInv ==
  /\ recovery.attempt = 0 => tries = 0 /\ recovery.deadline = "none" /\ ~recovery.succeeded
  /\ recovery.attempt # 0 => recovery.generation = hub.generation /\ Eligible
  /\ recovery.succeeded /\ observation.stable => tries = 0
  /\ recovery.succeeded /\ observation.pid = 0 => tries = 0 \/ recovery.attempt = MaximumAttempts
  /\ ~forgiven => tries <= recovery.attempt
  /\ ~forgiven /\ recovery.deadline # "none" => tries < recovery.attempt

AtWork ==
  pc \in IntentSteps => (intent.recovery <=> recovery.attempt # 0) /\ ~recovery.succeeded

Resumed ==
  pc \in IntentSteps /\ intent.recovery =>
    /\ intent.kind = "start" /\ ~intent.select /\ intent.bundle = hub.applied
    /\ pc \notin {"preflight", "bind", "replace", "halt"}
    /\ pc = "perform" => ~Running
    /\ pc = "record" /\ Running => ~observation.stable \/ observation.pid # manager.process
    /\ pc = "confirm" => run.started
    /\ pc \in {"confirm", "commit"} => ~observation.stable
    /\ run.ok => pc = "complete" /\ run.evidence = "record" /\ ~observation.stable

DownHoldsNothing == pc = "down" => manager.process = 0

BudgetInv == EpisodeInv /\ AtWork /\ Resumed /\ DownHoldsNothing

\* What the budget is made of.
LEMMA BudgetTypes ==
  ASSUME Types
  PROVE  /\ recovery.attempt \in 0 .. 3 /\ recovery.deadline \in {"none", "waiting", "due"}
         /\ recovery.succeeded \in BOOLEAN /\ recovery \in Recoveries /\ hub \in Hubs
         /\ observation.stable \in BOOLEAN /\ observation.pid \in MaybePid
         /\ hub.generation \in Nat /\ tries \in Nat /\ forgiven \in BOOLEAN
         /\ intent.recovery \in BOOLEAN
BY ControlAssumption DEF Types, Hubs, Recoveries, Observations, Intents, MaximumAttempts,
   Generations

\* A command opens a new episode.
LEMMA CommandOpens ==
  ASSUME Types, Command
  PROVE  /\ recovery' = NoRecovery /\ tries' = 0 /\ forgiven' = FALSE
         /\ UNCHANGED observation /\ ~intent'.recovery /\ pc' \in IntentSteps
<1>1. ASSUME NEW kind, NEW b, BeginDirect(kind, b)
      PROVE  /\ recovery' = NoRecovery /\ tries' = 0 /\ forgiven' = FALSE
             /\ UNCHANGED observation /\ ~intent'.recovery /\ pc' \in IntentSteps
  BY <1>1 DEF BeginDirect, Begin, NoIntent, IntentSteps, Steps
<1>2. ASSUME NEW kind, NEW b, BeginConfigured(kind, b)
      PROVE  /\ recovery' = NoRecovery /\ tries' = 0 /\ forgiven' = FALSE
             /\ UNCHANGED observation /\ ~intent'.recovery /\ pc' \in IntentSteps
  BY <1>2 DEF BeginConfigured, Begin, NoIntent, IntentSteps, Steps
<1>3. CASE \E b \in Bundles : BeginApply(b)
  BY <1>1, <1>3 DEF BeginApply
<1>4. CASE BeginStart
  BY <1>1, <1>4 DEF BeginStart
<1>5. CASE BeginRollback
  BY <1>1, <1>5 DEF BeginRollback
<1>6. CASE \E kind \in {"stop", "disable"} : BeginStop(kind)
  BY <1>1, <1>6 DEF BeginStop
<1> QED
  BY <1>2, <1>3, <1>4, <1>5, <1>6 DEF Command

\* A due attempt is one more of its episode.
LEMMA ResumeCounts ==
  ASSUME Types, EpisodeInv, Eligible, NEW boot \in BOOLEAN, Resume(boot)
  PROVE  EpisodeInv'
<1>1. /\ recovery'.attempt = recovery.attempt /\ recovery'.generation = hub'.generation
      /\ recovery'.deadline = "none" /\ recovery'.succeeded = FALSE
      /\ tries' = tries + 1 /\ UNCHANGED <<observation, forgiven>>
      /\ recovery.deadline = "due" /\ recovery.attempt # 0
  BY BudgetTypes DEF Resume, Recoveries, OnSchedule
<1>2. Eligible'
  BY BudgetTypes DEF Resume, Eligible, Hubs
<1> QED
  BY <1>1, <1>2, BudgetTypes DEF EpisodeInv

\* An attempt that is scheduled is the next of its episode, or the first of a new
\* one, unless a clean record lets a spent budget look new.
LEMMA ScheduleCounts ==
  ASSUME Types, EpisodeInv, Eligible, NEW clean \in BOOLEAN, Schedule(clean),
         clean => observation.pid = 0,
         \/ forgiven' = forgiven /\ ~clean
         \/ forgiven' = (forgiven \/ (OnSchedule /\ Attempt(FALSE) > MaximumAttempts
                                       /\ Attempt(clean) = 1 /\ tries # 0))
  PROVE  EpisodeInv'
<1>0. /\ UNCHANGED <<hub, tries>> /\ observation'.pid = 0 /\ observation'.stable = FALSE /\ Eligible'
      /\ recovery.attempt # 0 => recovery.deadline = "none"
      /\ OnSchedule <=> recovery.attempt # 0
      /\ Attempt(clean) \in 1 .. 4
      /\ forgiven => forgiven'
  BY BudgetTypes DEF Schedule, NoObservation, Eligible, EpisodeInv, OnSchedule, Attempt
<1>1. CASE Attempt(clean) > MaximumAttempts
  <2>1. recovery' = recovery /\ recovery.attempt = MaximumAttempts
    BY <1>1, BudgetTypes DEF Schedule, Attempt, MaximumAttempts
  <2> QED
    BY <1>0, <2>1, BudgetTypes DEF EpisodeInv, MaximumAttempts
<1>2. CASE Attempt(clean) <= MaximumAttempts
  <2>1. /\ recovery'.generation = hub'.generation /\ recovery'.attempt = Attempt(clean)
        /\ recovery'.deadline = "waiting" /\ recovery'.succeeded = FALSE
    BY <1>0, <1>2, BudgetTypes DEF Schedule, MaximumAttempts
  <2>2. ~forgiven' => tries < Attempt(clean)
    <3> SUFFICES ASSUME ~forgiven' PROVE tries < Attempt(clean)
      OBVIOUS
    <3>1. ~forgiven /\ tries <= recovery.attempt
      BY <1>0 DEF EpisodeInv
    <3>2. CASE Attempt(clean) = recovery.attempt + 1
      BY <3>1, <3>2, BudgetTypes
    <3>3. CASE Attempt(clean) = 1 /\ recovery.attempt = 0
      BY <3>1, <3>3, BudgetTypes
    <3>4. CASE Attempt(clean) = 1 /\ recovery.attempt # 0 /\ recovery.succeeded /\ observation.stable
      BY <3>4 DEF EpisodeInv
    <3>5. CASE /\ Attempt(clean) = 1 /\ recovery.attempt # 0 /\ recovery.succeeded
               /\ clean /\ ~observation.stable
      <4>1. tries = 0 \/ recovery.attempt = 3
        BY <3>5 DEF EpisodeInv, MaximumAttempts
      <4>2. Attempt(FALSE) = recovery.attempt + 1
        BY <1>0, <3>5 DEF Attempt
      <4>3. CASE recovery.attempt = 3 /\ tries # 0
        <5>0. recovery.attempt + 1 > MaximumAttempts
          BY <4>3 DEF MaximumAttempts
        <5>1. OnSchedule /\ Attempt(FALSE) > MaximumAttempts /\ Attempt(clean) = 1
          BY <1>0, <3>5, <4>2, <4>3, <5>0
        <5>2. forgiven'
          BY <3>5, <4>3, <5>1
        <5> QED
          BY <5>2
      <4>4. CASE tries = 0
        <5>1. 0 < 1
          OBVIOUS
        <5> QED
          BY <3>5, <4>4, <5>1
      <4> QED
        BY <4>1, <4>3, <4>4
    <3> QED
      BY <1>0, <3>2, <3>3, <3>4, <3>5, BudgetTypes DEF Attempt
  <2> QED
    BY <1>0, <1>2, <2>1, <2>2, BudgetTypes DEF EpisodeInv
<1> QED
  BY <1>0, <1>1, <1>2 DEF MaximumAttempts

\* The lane touches an episode where it completes a recovery.
LEMMA LaneCounts ==
  ASSUME LaneStep
  PROVE  /\ Complete \/ UNCHANGED recovery
         /\ UNCHANGED <<tries, forgiven>>
<1> USE DEF storeVars, historyVars
<1>1. CASE Preflight \/ Bind \/ Perform \/ Select \/ LaunchRefused \/ Failed
  BY <1>1 DEF Preflight, Bind, Perform, Select, LaunchRefused, Failed
<1>2. CASE Record \/ Confirm \/ PrepareCommit \/ Uncertain \/ Complete \/ CompleteFails
  BY <1>2 DEF Record, Confirm, PrepareCommit, Uncertain, Complete, CompleteFails
<1>3. CASE Replace \/ StopLost \/ Halt \/ LaunchFails \/ LaunchUnhealthy \/ LaunchHealthy
  BY <1>3 DEF Replace, StopLost, Halt, LaunchFails, LaunchUnhealthy, LaunchHealthy
<1> QED
  BY <1>1, <1>2, <1>3 DEF LaneStep

\* A recovery that succeeds has recorded the process it started, not yet stable.
LEMMA CompleteCounts ==
  ASSUME Types, IntentInv, Evidence, BudgetInv, Complete
  PROVE  EpisodeInv'
<1> USE DEF BudgetInv
<1>1. pc \in IntentSteps /\ UNCHANGED <<tries, forgiven>>
  BY DEF Complete, IntentSteps, Steps, historyVars
<1>2. hub'.generation = hub.generation
  <2>1. intent.kind \in StartKinds \cup {"stop"}
    BY <1>1 DEF IntentInv
  <2> QED
    BY <2>1, BudgetTypes DEF Complete, Committed, Hubs, StartKinds
<1>3. CASE ~intent.recovery
  <2>1. recovery.attempt = 0 /\ ~recovery.succeeded /\ recovery' = recovery
    BY <1>1, <1>3 DEF AtWork, Complete
  <2> QED
    BY <1>1, <2>1 DEF EpisodeInv
<1>4. CASE intent.recovery
  <2>1. /\ recovery'.attempt = recovery.attempt /\ recovery'.generation = recovery.generation
        /\ recovery'.deadline = recovery.deadline /\ recovery'.succeeded = run.ok
        /\ recovery.attempt # 0
    BY <1>1, <1>4, BudgetTypes DEF Complete, AtWork, Recoveries
  <2>2. Eligible'
    <3>1. Eligible /\ intent.kind = "start" /\ ~intent.select /\ intent.bundle = hub.applied
      BY <1>1, <1>4, <2>1 DEF EpisodeInv, Resumed
    <3>2. hub' = hub \/ (/\ hub'.desired = intent.bundle /\ hub'.applied = intent.bundle
                         /\ hub'.running = TRUE)
      BY <3>1, BudgetTypes DEF Complete, Committed, Hubs
    <3> QED
      BY <3>1, <3>2 DEF Eligible
  <2>3. run.ok => observation' = observation /\ ~observation.stable /\ observation.pid # 0
    BY <1>1, <1>4 DEF Resumed, Complete, Evidence, EvidenceMatches
  <2> QED
    BY <1>1, <1>2, <2>1, <2>2, <2>3 DEF EpisodeInv
<1> QED
  BY <1>3, <1>4

\* The budget of an episode is never overdrawn.
LEMMA EpisodePreserved ==
  ASSUME Types, IntentInv, Evidence, BudgetInv, Next
  PROVE  EpisodeInv'
<1> USE DEF BudgetInv
<1>1. ASSUME UNCHANGED <<hub, recovery, tries, forgiven>>,
             \/ UNCHANGED observation
             \/ recovery.attempt = 0
             \/ ~recovery.succeeded
      PROVE  EpisodeInv'
  BY <1>1 DEF EpisodeInv, Eligible
<1> USE DEF storeVars, historyVars
<1>2. CASE SaveConfiguration \/ Reap \/ EndContext \/ GiveUp \/ Shutdown \/ Crash \/ Boot
  BY <1>1, <1>2 DEF SaveConfiguration, Reap, EndContext, GiveUp, Shutdown, Crash, Boot
<1>3. CASE \E b \in Bundles : CreateStartup(b) \/ CheckStartup(b)
  BY <1>1, <1>3 DEF CreateStartup, CheckStartup
<1>4. CASE \E p \in Pids : ChildExits(p)
  BY <1>1, <1>4 DEF ChildExits
<1>5. CASE DeadlinePasses
  <2>1. /\ recovery'.attempt = recovery.attempt /\ recovery'.generation = recovery.generation
        /\ recovery'.succeeded = recovery.succeeded /\ recovery.deadline = "waiting"
        /\ UNCHANGED <<hub, observation, tries, forgiven>>
    BY <1>5, BudgetTypes DEF DeadlinePasses, Recoveries
  <2> QED
    BY <2>1 DEF EpisodeInv, Eligible
<1>6. CASE TickRunning
  <2>1. UNCHANGED <<hub, recovery, forgiven>> /\ observation'.pid = observation.pid
    BY <1>6 DEF TickRunning, Types, Observations
  <2>2. tries' = 0 \/ UNCHANGED <<observation, tries>>
    BY <1>6 DEF TickRunning
  <2> QED
    BY <1>1, <2>1, <2>2, BudgetTypes DEF EpisodeInv, Eligible
<1>7. CASE Close
  <2>1. UNCHANGED <<hub, recovery, forgiven>>
    BY <1>7 DEF Close
  <2>2. tries' = 0 \/ UNCHANGED <<observation, tries>>
    BY <1>7 DEF Close
  <2> QED
    BY <1>1, <2>1, <2>2, BudgetTypes DEF EpisodeInv, Eligible
<1>8. CASE BootStopped
  BY <1>1, <1>8 DEF BootStopped, EpisodeInv
<1>9. CASE BootRecovering
  <2>1. ASSUME Resume(TRUE) PROVE EpisodeInv'
    BY <1>9, <2>1, ResumeCounts DEF BootRecovering
  <2>2. CASE OnSchedule /\ recovery.deadline = "waiting" /\ UNCHANGED <<storeVars, historyVars>>
    BY <1>1, <2>2
  <2>3. CASE /\ Schedule(observation.pid = 0)
             /\ forgiven' = (forgiven \/ (OnSchedule /\ Attempt(FALSE) > MaximumAttempts
                                            /\ Attempt(observation.pid = 0) = 1 /\ tries # 0))
    BY <1>9, <2>3, ScheduleCounts DEF BootRecovering
  <2> QED
    BY <1>9, <2>1, <2>2, <2>3 DEF BootRecovering
<1>10. CASE TickSettled \/ TickFailedObserved \/ TickFailedUnobserved
  <2>1. ASSUME Eligible, Resume(FALSE) PROVE EpisodeInv'
    BY <2>1, ResumeCounts
  <2>2. ASSUME Eligible, Schedule(FALSE), UNCHANGED forgiven PROVE EpisodeInv'
    BY <2>2, ScheduleCounts
  <2>3. CASE ~Eligible
    BY <1>1, <1>10, <2>3 DEF TickSettled, TickFailedObserved, TickFailedUnobserved, EpisodeInv
  <2> QED
    BY <1>10, <2>1, <2>2, <2>3 DEF TickSettled, TickFailedObserved, TickFailedUnobserved
<1>11. CASE Command
  BY <1>11, CommandOpens DEF EpisodeInv, NoRecovery
<1>12. CASE LaneStep
  <2>1. CASE Complete
    BY <2>1, CompleteCounts
  <2>2. CASE Bind
    <3>1. recovery.attempt = 0
      BY <2>2 DEF Bind, AtWork, Resumed, IntentSteps, Steps
    <3>2. UNCHANGED <<recovery, tries, forgiven>>
      BY <2>2 DEF Bind
    <3> QED
      BY <3>1, <3>2 DEF EpisodeInv
  <2>3. CASE ~Complete /\ ~Bind
    <3>1. ~recovery.succeeded
      BY <1>12, LaneMoves DEF AtWork
    <3> QED
      BY <1>1, <1>12, <2>3, <3>1, LaneCounts, LaneAccepts
  <2> QED
    BY <2>1, <2>2, <2>3
<1> QED
  BY <1>2, <1>3, <1>4, <1>5, <1>6, <1>7, <1>8, <1>9, <1>10, <1>11, <1>12 DEF Next, Tick, Started

\* What is at work for a recovery is that episode's due attempt.
LEMMA AtWorkPreserved ==
  ASSUME Types, BudgetInv, Next
  PROVE  AtWork'
<1> SUFFICES ASSUME pc' \in IntentSteps
             PROVE  (intent'.recovery <=> recovery'.attempt # 0) /\ ~recovery'.succeeded
  BY DEF AtWork
<1> USE DEF BudgetInv, storeVars, laneVars
<1>1. CASE Outside
  <2>1. recovery'.attempt = recovery.attempt /\ recovery'.succeeded = recovery.succeeded
    BY <1>1, BudgetTypes DEF Outside, SaveConfiguration, CreateStartup, CheckStartup,
       DeadlinePasses, TickRunning, ChildExits, Reap, Recoveries
  <2> QED
    BY <1>1, <2>1, OutsideKeeps DEF AtWork
<1>2. CASE EndContext
  BY <1>2 DEF EndContext, AtWork
<1>3. CASE Leaving \/ Scheduling
  BY <1>3, LeavingKeeps, SchedulingKeeps
<1>4. CASE Resuming
  <2>1. recovery'.attempt = recovery.attempt /\ recovery'.succeeded = FALSE /\ recovery.attempt # 0
    BY <1>4, BudgetTypes DEF Resuming, Resume, OnSchedule, Recoveries
  <2>2. intent'.recovery
    BY <1>4 DEF Resuming, Resume, NoIntent
  <2> QED
    BY <2>1, <2>2
<1>5. CASE Command
  BY <1>5, CommandOpens DEF NoRecovery
<1>6. CASE LaneStep
  <2>1. ~Complete
    BY ReturnTypes DEF Complete, IntentSteps
  <2> QED
    BY <1>6, <2>1, LaneMoves, LaneCounts DEF AtWork
<1> QED
  BY <1>1, <1>2, <1>3, <1>4, <1>5, <1>6, StepKinds

\* A recovery launches a new process, and completes with that.
LEMMA ResumedPreserved ==
  ASSUME Types, IntentInv, SpawnInv, Evidence, RecordsOwnStart, FenceInv, BudgetInv, Next
  PROVE  Resumed'
<1> SUFFICES ASSUME pc' \in IntentSteps, intent'.recovery
             PROVE  Resumed'
  BY DEF Resumed
<1> USE DEF BudgetInv
<1>0. run \in Runs /\ manager \in Managers /\ observation \in Observations
  BY DEF Types
<1>1. CASE Outside
  <2>1. UNCHANGED <<hub, pc, intent, run>>
    BY <1>1, OutsideKeeps
  <2>2. Running' => Running /\ UNCHANGED manager
    BY <1>0, <1>1 DEF Outside, SaveConfiguration, CreateStartup, CheckStartup, DeadlinePasses,
       TickRunning, ChildExits, Reap, processVars, Running, Managers
  <2>3. UNCHANGED observation
    BY <1>1, <2>1 DEF Outside, SaveConfiguration, CreateStartup, CheckStartup, DeadlinePasses,
       TickRunning, ChildExits, Reap, storeVars, IntentSteps
  <2> QED
    BY <2>1, <2>2, <2>3 DEF Resumed
<1>2. CASE EndContext
  <2>1. UNCHANGED <<hub, pc, intent, manager, observation>>
    BY <1>2 DEF EndContext, storeVars, processVars
  <2>2. run'.started = run.started /\ run'.ok = run.ok /\ run'.evidence = run.evidence
    BY <1>0, <1>2 DEF EndContext, Runs
  <2> QED
    BY <2>1, <2>2 DEF Resumed, Running
<1>3. CASE Leaving \/ Scheduling
  BY <1>3, LeavingKeeps, SchedulingKeeps
<1>4. CASE Tick \/ BootRecovering
  <2>1. PICK boot \in BOOLEAN : Resume(boot)
    BY <1>4, SchedulingKeeps DEF Tick, TickRunning, TickSettled, TickFailedObserved,
       TickFailedUnobserved, BootRecovering, Scheduling, Resuming, laneVars, IntentSteps
  <2>2. ~Running
    BY <1>4 DEF Tick, TickRunning, TickSettled, TickFailedObserved, TickFailedUnobserved,
       BootRecovering, DownHoldsNothing, Running, laneVars, IntentSteps
  <2>3. Eligible /\ UNCHANGED manager
    BY <1>4, <2>1 DEF Tick, TickRunning, TickSettled, TickFailedObserved,
       TickFailedUnobserved, BootRecovering, Resume, laneVars, IntentSteps, processVars
  <2>4. /\ pc' = "perform" /\ run'.ok = FALSE /\ hub'.applied = hub.applied
        /\ intent'.kind = "start" /\ intent'.select = FALSE /\ intent'.bundle = hub.applied
    BY <2>1, BudgetTypes DEF Resume, NoIntent, NoRun, Hubs
  <2> QED
    BY <2>2, <2>3, <2>4 DEF Resumed, Running
<1>5. CASE Command
  BY <1>5, CommandOpens
<1>6. CASE LaneStep
  <2>1. /\ pc \in IntentSteps /\ intent' = intent /\ intent.recovery /\ Resumed
        /\ ~Bind /\ ~Complete /\ ~Preflight /\ ~Select /\ ~Replace /\ ~Halt
    BY <1>6, LaneMoves, ReturnTypes DEF Resumed, Bind, Complete, Preflight, Select, Replace,
       Halt, IntentSteps
  <2>2. /\ intent.kind = "start" /\ ~intent.select /\ intent.bundle = hub.applied
        /\ UNCHANGED hub
    BY <1>6, <2>1, LaneAccepts DEF Resumed
  <2>3. /\ pc' \notin {"preflight", "bind", "replace", "halt", "perform"}
    <3>1. CASE Perform
      <4>1. ~Running
        BY <2>1, <3>1 DEF Perform, Resumed
      <4> QED
        BY <2>2, <3>1, <4>1 DEF Perform
    <3>2. \A ok : Return(ok) => pc' \notin {"preflight", "bind", "replace", "halt", "perform"}
      BY ReturnTypes
    <3>3. CASE LaunchRefused \/ LaunchFails \/ LaunchUnhealthy \/ LaunchHealthy \/ Failed
      BY <3>3 DEF LaunchRefused, LaunchFails, LaunchUnhealthy, LaunchHealthy, Failed
    <3>4. CASE Record \/ Confirm \/ PrepareCommit \/ StopLost \/ Uncertain \/ CompleteFails
      BY <3>2, <3>4 DEF Record, Lost, Confirm, PrepareCommit, StopLost, Uncertain, CompleteFails
    <3> QED
      BY <1>6, <2>1, <3>1, <3>3, <3>4 DEF LaneStep
  <2>4. SUFFICES
          /\ pc' = "record" /\ Running' => ~observation'.stable \/ observation'.pid # manager'.process
          /\ pc' = "confirm" => run'.started
          /\ pc' \in {"confirm", "commit"} => ~observation'.stable
          /\ run'.ok => pc' = "complete" /\ run'.evidence = "record" /\ ~observation'.stable
    BY <2>1, <2>2, <2>3 DEF Resumed
  <2> USE DEF storeVars, processVars
  <2>5. ~run.ok \/ pc = "complete"
    BY <2>1 DEF Resumed
  <2>6. CASE Perform
    BY <1>0, <2>1, <2>2, <2>5, <2>6 DEF Perform, Resumed, Runs
  <2>7. CASE LaunchRefused \/ LaunchFails \/ LaunchUnhealthy
    BY <2>5, <2>7 DEF LaunchRefused, LaunchFails, LaunchUnhealthy
  <2>8. CASE LaunchHealthy
    <3>1. /\ pc = "launch" /\ pc' = "record" /\ manager'.process = Starts + 1
          /\ run'.ok = run.ok /\ UNCHANGED observation
      BY <1>0, <2>8 DEF LaunchHealthy, Spawned, Runs
    <3>2. observation.pid = 0 \/ child[observation.pid] = "gone"
      BY <2>8 DEF FenceInv, Fenced, LaunchHealthy
    <3>3. observation.pid # Starts + 1
      BY <2>8, <3>2, LaunchMoves DEF FenceInv, Pids
    <3> QED
      BY <2>5, <3>1, <3>3
  <2>9. CASE Failed \/ Uncertain \/ StopLost
    <3>1. pc # "complete" /\ pc' \notin {"record", "confirm", "commit"}
      BY <2>9, ReturnTypes DEF Failed, Uncertain, StopLost
    <3>2. run'.ok = run.ok \/ run' = NoRun
      BY <1>0, <2>9, ReturnTypes DEF Failed, Uncertain, StopLost, Runs
    <3> QED
      BY <2>5, <3>1, <3>2 DEF NoRun
  <2>10. CASE Record
    <3>1. run'.ok = run.ok /\ pc = "record"
      BY <1>0, <2>10 DEF Record, Lost, Runs
    <3>2. CASE pc' = "lost"
      BY <2>5, <3>1, <3>2
    <3>3. CASE Recorded /\ run' = [run EXCEPT !.fence = manager.process] /\ pc' = "confirm"
      <4>1. run.started /\ run'.started = run.started
        BY <1>0, <3>1, <3>3 DEF RecordsOwnStart, Runs
      <4>2. ~observation'.stable
        BY <2>1, <3>1, <3>3 DEF Recorded, Resumed
      <4> QED
        BY <2>5, <3>1, <3>3, <4>1, <4>2
    <3> QED
      BY <2>10, <3>2, <3>3 DEF Record, Lost
  <2>11. CASE Confirm
    BY <1>0, <2>1, <2>5, <2>11, ReturnTypes DEF Confirm, Lost, Runs, Resumed
  <2>12. CASE PrepareCommit
    <3>1. pc = "commit" /\ ~observation.stable /\ UNCHANGED observation
      BY <2>1, <2>12 DEF PrepareCommit, Resumed
    <3>2. CASE Return(FALSE)
      <4>1. pc' \in {"idle", "closing"} /\ run' = NoRun
        BY <3>2, ReturnTypes
      <4> QED
        BY <4>1 DEF NoRun
    <3>3. CASE Lost(run.fence, "failed")
      BY <1>0, <2>5, <3>1, <3>3 DEF Lost, Runs
    <3>4. CASE Running /\ manager.process = run.fence /\ ~run.ended
      BY <1>0, <2>12, <3>1, <3>4 DEF PrepareCommit, Runs
    <3> QED
      BY <2>12, <3>2, <3>3, <3>4 DEF PrepareCommit
  <2>13. CASE CompleteFails
    BY <1>0, <2>1, <2>13, ReturnTypes DEF CompleteFails, Runs, IntentSteps
  <2> QED
    BY <1>6, <2>1, <2>6, <2>7, <2>8, <2>9, <2>10, <2>11, <2>12, <2>13 DEF LaneStep
<1> QED
  BY <1>1, <1>2, <1>3, <1>4, <1>5, <1>6 DEF Next, Outside, Leaving, Tick, Started

\* A panel that is down holds no process.
LEMMA DownPreserved ==
  ASSUME Types, DownHoldsNothing, Next
  PROVE  DownHoldsNothing'
<1> SUFFICES ASSUME pc' = "down" PROVE manager'.process = 0
  BY DEF DownHoldsNothing
<1> USE DEF DownHoldsNothing, processVars
<1>1. CASE Outside
  BY <1>1, OutsideKeeps DEF Outside, SaveConfiguration, CreateStartup, CheckStartup,
     DeadlinePasses, TickRunning, ChildExits, Reap
<1>2. CASE Close \/ Crash
  BY <1>2 DEF Close, Crash, NewManager
<1>3. CASE EndContext \/ GiveUp \/ Shutdown \/ Boot \/ BootStopped
  BY <1>3, ReturnTypes DEF EndContext, GiveUp, Shutdown, Boot, BootStopped
<1>4. CASE Resuming \/ Command
  BY <1>4, CommandOpens DEF Resuming, Resume, IntentSteps
<1>5. CASE Scheduling
  BY <1>5 DEF Scheduling, TickSettled, TickFailedObserved, TickFailedUnobserved, BootRecovering,
     Resuming, laneVars
<1>6. CASE LaneStep
  <2>1. pc' # "down"
    BY <1>6, ReturnTypes DEF LaneStep, Preflight, Bind, Perform, Select, Replace, LaunchRefused,
       LaunchFails, LaunchUnhealthy, LaunchHealthy, Failed, Record, Lost, Confirm,
       PrepareCommit, StopLost, Halt, Uncertain, Complete, CompleteFails
  <2> QED
    BY <2>1
<1> QED
  BY <1>1, <1>2, <1>3, <1>4, <1>5, <1>6, StepKinds DEF Leaving

-----------------------------------------------------------------------------

LaneInv == ServiceInv /\ FenceInv /\ BudgetInv

\* What serves is served, what is fenced is gone, and the budget adds up, through
\* every intent, tick, crash and restart.
THEOREM LaneInvariant == Spec => []LaneInv
<1>1. Init => LaneInv
  <2> SUFFICES ASSUME Init PROVE LaneInv
    OBVIOUS
  <2>1. Served /\ RecordsOwnStart
    BY DEF Init, Served, RecordsOwnStart
  <2>2. Numbered
    <3>1. {p \in Pids : child[p] # "none"} = {}
      BY DEF Init
    <3>2. Starts = 0
      BY <3>1, FS_EmptySet DEF Starts
    <3> QED
      BY <3>2 DEF Init, Numbered, Pids
  <2>3. Fenced /\ ClearsTheGone
    BY DEF Init, Fenced, ClearsTheGone
  <2>4. BudgetInv
    BY DEF Init, BudgetInv, EpisodeInv, AtWork, Resumed, DownHoldsNothing, IntentSteps,
           NoRecovery, NewManager
  <2> QED
    BY <2>1, <2>2, <2>3, <2>4 DEF LaneInv, ServiceInv, FenceInv
<1>2. ControlInv /\ LaneInv /\ [Next]_vars => LaneInv'
  <2> SUFFICES ASSUME ControlInv, LaneInv, [Next]_vars PROVE LaneInv'
    OBVIOUS
  <2>1. Types /\ IntentInv /\ SpawnInv /\ ProcessInv /\ Evidence
    BY TypesFolded DEF ControlInv, ShapeInv, EvidenceInv
  <2>2. CASE Next
    <3>1. ServiceInv'
      BY <2>1, <2>2, ServedPreserved, RecordsPreserved DEF LaneInv, ServiceInv
    <3>2. FenceInv'
      BY <2>1, <2>2, NumberedPreserved, FencedPreserved, ClearsPreserved DEF LaneInv, FenceInv
    <3>3. BudgetInv'
      BY <2>1, <2>2, EpisodePreserved, AtWorkPreserved, ResumedPreserved, DownPreserved
         DEF LaneInv, ServiceInv, BudgetInv
    <3> QED
      BY <3>1, <3>2, <3>3 DEF LaneInv
  <2>3. CASE UNCHANGED vars
    <3>1. UNCHANGED <<hub, recovery, observation, latest, manager, child, pc, intent, run, tries, forgiven>>
      BY <2>3 DEF vars, storeVars, processVars, laneVars, historyVars
    <3>2. ServiceInv'
      BY <3>1 DEF LaneInv, ServiceInv, Served, ServedAt, OnRecord, Observed, RecordsOwnStart
    <3>3. FenceInv'
      BY <3>1 DEF LaneInv, FenceInv, Numbered, Starts, Fenced, ClearsTheGone, EvidenceMatches,
         Exited
    <3>4. BudgetInv'
      BY <3>1 DEF LaneInv, BudgetInv, EpisodeInv, Eligible, AtWork, Resumed, Running,
         DownHoldsNothing
    <3> QED
      BY <3>2, <3>3, <3>4 DEF LaneInv
  <2> QED
    BY <2>2, <2>3
<1> QED
  BY <1>1, <1>2, ControlInvariant, PTL DEF Spec

\* Between intents every living process of this panel is the manager's, on
\* record, of the applied bundle and running in the history, whatever the last
\* intent lost on its way (performRuntimeIntent, executeIntent).
THEOREM RestingServiceStaysOnRecord == Spec => []RestingServiceIsOnRecord
<1>1. LaneInv => RestingServiceIsOnRecord
  <2> SUFFICES ASSUME LaneInv, pc = "idle", NEW p \in Pids, child[p] = "alive"
               PROVE  /\ manager.process = p /\ Running
                      /\ observation.pid = p /\ latest = "running"
                      /\ observation.bundle = manager.bundle /\ manager.bundle = hub.applied
    BY DEF RestingServiceIsOnRecord
  <2>1. manager.process = p /\ manager.state = "running" /\ OnRecord
    BY DEF LaneInv, ServiceInv, Served, ServedAt
  <2> QED
    BY <2>1 DEF OnRecord, Running, Pids
<1> QED
  BY <1>1, LaneInvariant, PTL

\* No step of a serving panel gives up the evidence of a process that is not
\* gone: every deletion is fenced by the process's end, be it a stop's, a
\* completed intent's or a tick's (capturedObservationExited).
THEOREM EvidenceStaysWithTheLiving == Spec => EvidenceFencesTheLiving
<1>1. ControlInv /\ LaneInv /\ [Next]_vars =>
        [observation.pid # 0 /\ observation'.pid # observation.pid /\ pc # "closing"
           => child[observation.pid] = "gone"]_vars
  <2> SUFFICES ASSUME ControlInv, LaneInv, Next, observation.pid # 0,
                      observation'.pid # observation.pid, pc # "closing"
               PROVE  child[observation.pid] = "gone"
    OBVIOUS
  <2>1. Types /\ FenceInv
    BY TypesFolded DEF ControlInv, ShapeInv, LaneInv
  <2>2. CASE (Record \/ Confirm) /\ Recorded
    BY <2>1, <2>2 DEF Record, Confirm, Recorded, FenceInv, Fenced
  <2>3. CASE Complete /\ run.evidence = "clear"
    BY <2>1, <2>3 DEF Complete, FenceInv, ClearsTheGone, Exited
  <2>4. CASE Exited(observation.pid)
    BY <2>4 DEF Exited
  <2> QED
    BY <2>1, <2>2, <2>3, <2>4, ObservationMoves
<1> QED
  BY <1>1, ControlInvariant, LaneInvariant, PTL DEF Spec, EvidenceFencesTheLiving

\* At most three recovery attempts follow one another without an explicit
\* command, a stable run or a shutdown with evidence, across every crash and
\* restart (nextRuntimeRecoveryMetadata), but for the one forgiven start.
THEOREM RecoveryIsBounded == Spec => []BoundedRecovery
<1>1. ControlInv /\ LaneInv => BoundedRecovery
  <2> SUFFICES ASSUME ControlInv, LaneInv PROVE forgiven \/ tries <= MaximumAttempts
    BY DEF BoundedRecovery
  <2>1. Types
    BY TypesFolded DEF ControlInv, ShapeInv
  <2> QED
    BY <2>1, BudgetTypes DEF LaneInv, BudgetInv, EpisodeInv, MaximumAttempts
<1> QED
  BY <1>1, ControlInvariant, LaneInvariant, PTL
=============================================================================
