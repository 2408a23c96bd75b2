--------------------------- MODULE RuntimeControl ---------------------------
(***************************************************************************)
(* The runtime lane of the panel server: internal/server/runtime*.go and   *)
(* configuration_runtime.go with the SQLite transactions of internal/store *)
(* (runtime_intents, runtime_commit, runtime_recovery,                     *)
(* runtime_observation, runtime_history, configuration_runtime).           *)
(*                                                                         *)
(* runtimeServices.mu and the data directory's lease serialize commands,   *)
(* reconciler ticks, startup and shutdown, so one intent runs at a time;   *)
(* what interleaves with its steps is the child process and its reaper,    *)
(* the end of the request's context, saves of the configuration file,      *)
(* failing reads and commits, and a crash of the panel.  A transaction is  *)
(* one step.  The manager is what RuntimeManager shows its callers: a call *)
(* returns with the child running, gone, or killed and not yet reaped.     *)
(***************************************************************************)
EXTENDS Integers, FiniteSets

CONSTANTS
  Bundles,        \* startup artifacts, each with its activation bundle
  Commands,       \* the explicit commands callers give
  Faults,         \* what the environment does: see FaultKinds
  MaxStarts,      \* bound: child processes in a behaviour
  MaxGeneration,  \* bound: intents in a behaviour
  None            \* no bundle

CommandKinds == {"apply", "start", "restart", "enable", "rollback", "stop", "disable"}

FaultKinds ==
  {"save",    \* the configuration file is saved between two steps of an intent
   "cancel",  \* a request's context ends
   "read",    \* a read that precedes every effect of an intent fails
   "slow",    \* a killed child outlives the time limit of a stop
   "spawn",   \* a startup fails before there is a child
   "commit",  \* a write of the runtime evidence fails
   "crash"}   \* the panel process dies

ASSUME ControlAssumption ==
  /\ IsFiniteSet(Bundles) /\ None \notin Bundles
  /\ Commands \subseteq CommandKinds /\ Faults \subseteq FaultKinds
  /\ MaxStarts \in Nat /\ MaxGeneration \in Nat

Pids == 1 .. MaxStarts    \* a process incarnation: PID with start token
MaximumAttempts == 3      \* RuntimeRecoveryMaximumAttempts

VARIABLES
  hub,          \* hub_state: desired, applied and rollback bundle, desired_running, generation
  recovery,     \* runtime_recovery; attempt 0 is no row
  observation,  \* runtime_observation; pid 0 is no row
  latest,       \* state of the newest runtime transition
  unobserved,   \* logged failures without observation: bundle, start, cause, generation
  startup,      \* startup_artifacts.state
  current,      \* artifacts of the head revision
  fileOk,       \* the saved configuration file parses
  manager,      \* runtime.Manager; after is the state its reaper will set,
                \* started the process of the last start (0: none was spawned)
                \* and cause the generation that started it
  child,        \* processes: "dead" has exited and is not yet reaped
  pc, intent,
  run,          \* the intent's local state, see NoRun
  watched,      \* reconciler.runningFence
  tries,        \* history: recovery attempts since an explicit command, a stable
                \* run or a shutdown with a service on record
  forgiven      \* history: the panel started on a spent budget that looks clean

storeVars == <<hub, recovery, observation, latest, unobserved>>
configVars == <<startup, current, fileOk>>
processVars == <<manager, child>>
laneVars == <<pc, intent, run>>
historyVars == <<tries, forgiven>>
vars == <<storeVars, configVars, processVars, laneVars, watched, historyVars>>

NoObservation == [pid |-> 0, bundle |-> None, stable |-> FALSE]
NoRecovery == [generation |-> 0, attempt |-> 0, deadline |-> "none", succeeded |-> FALSE]
NoIntent == [kind |-> "none", bundle |-> None, select |-> FALSE, disable |-> FALSE,
             recovery |-> FALSE, boot |-> FALSE]

\* ctx.Err() # nil; startedByIntent; expected observation; the RuntimeCommit to
\* complete with and its transition's state; runErr = nil; second completion.
NoRun == [ended |-> FALSE, started |-> FALSE, fence |-> 0, evidence |-> "none",
          state |-> "none", ok |-> FALSE, second |-> FALSE]

NewManager == [process |-> 0, state |-> "stopped", bundle |-> None,
               after |-> "stopped", started |-> 0, cause |-> 0]

TransitionStates == {"running", "stopped", "failed", "unknown"}
Steps == {"idle", "down", "closing", "preflight", "bind", "perform", "halt", "replace",
          "launch", "failed", "record", "confirm", "commit", "lost", "uncertain", "complete"}
Generations == 0 .. MaxGeneration

TypeOK ==
  /\ hub \in [desired : Bundles \cup {None}, applied : Bundles \cup {None},
              rollback : Bundles \cup {None}, running : BOOLEAN, generation : Generations]
  /\ recovery \in [generation : Generations, attempt : 0 .. MaximumAttempts,
                   deadline : {"none", "waiting", "due"}, succeeded : BOOLEAN]
  /\ observation \in [pid : Pids \cup {0}, bundle : Bundles \cup {None}, stable : BOOLEAN]
  /\ latest \in TransitionStates
  /\ unobserved \subseteq [bundle : Bundles, started : Pids \cup {0},
                           cause : Generations, generation : Generations]
  /\ startup \in [Bundles -> {"none", "pending", "failed", "ready"}]
  /\ current \subseteq Bundles /\ fileOk \in BOOLEAN
  /\ manager \in [process : Pids \cup {0}, state : {"stopped", "running", "failed"},
                  bundle : Bundles \cup {None}, after : {"stopped", "failed"},
                  started : Pids \cup {0}, cause : Generations]
  /\ child \in [Pids -> {"none", "alive", "doomed", "dead", "gone"}]
  /\ pc \in Steps
  /\ intent \in [kind : CommandKinds \cup {"none"}, bundle : Bundles \cup {None},
                 select : BOOLEAN, disable : BOOLEAN, recovery : BOOLEAN, boot : BOOLEAN]
  /\ run \in [ended : BOOLEAN, started : BOOLEAN, fence : Pids \cup {0},
              evidence : {"none", "record", "clear"}, state : TransitionStates \cup {"none"},
              ok : BOOLEAN, second : BOOLEAN]
  /\ watched \in Pids \cup {0}
  /\ tries \in Nat /\ forgiven \in BOOLEAN

\* A new data directory, before the first start of the panel: history begins
\* with the marker that initialization writes, the file is the template's.
Init ==
  /\ hub = [desired |-> None, applied |-> None, rollback |-> None,
            running |-> FALSE, generation |-> 0]
  /\ recovery = NoRecovery /\ observation = NoObservation
  /\ latest = "unknown" /\ unobserved = {}
  /\ startup = [b \in Bundles |-> "none"] /\ current = {} /\ fileOk = TRUE
  /\ manager = NewManager /\ child = [p \in Pids |-> "none"]
  /\ pc = "down" /\ intent = NoIntent /\ run = NoRun
  /\ watched = 0 /\ tries = 0 /\ forgiven = FALSE

-----------------------------------------------------------------------------
(* Helpers *)

Running == manager.process # 0 /\ manager.state = "running"   \* LiveIdentity.Running

\* capturedObservationExited: /proc still shows a process until it is reaped.
Exited(pid) == pid # 0 => child[pid] = "gone"

Eligible == hub.running /\ hub.applied # None /\ hub.desired = hub.applied

Starts == Cardinality({p \in Pids : child[p] # "none"})
MayBegin == hub.generation < MaxGeneration /\ Starts < MaxStarts

Applicable(b) == fileOk /\ b \in current /\ startup[b] = "ready"

\* The end of executeIntent.  A recovery has the context of the panel itself, and
\* its failure at startup ends the panel.
Return(ok) ==
  /\ pc' = IF intent.recovery /\ (run.ended \/ (intent.boot /\ ~ok)) THEN "closing" ELSE "idle"
  /\ intent' = NoIntent /\ run' = NoRun

-----------------------------------------------------------------------------
(* The configuration file and its candidates, beside the lane *)

\* A save of the same document keeps the head, an unparsable text as well.
SaveConfiguration ==
  /\ "save" \in Faults /\ pc \notin {"down", "closing"} /\ ~intent.boot
  /\ \/ fileOk' = TRUE /\ current' \in {current, {}}
     \/ fileOk' = FALSE /\ UNCHANGED current
  /\ UNCHANGED <<startup, storeVars, processVars, laneVars, watched, historyVars>>

CreateStartup(b) ==
  /\ pc = "idle" /\ "apply" \in Commands /\ fileOk /\ startup[b] = "none"
  /\ startup' = [startup EXCEPT ![b] = "pending"]
  /\ current' = current \cup {b}
  /\ UNCHANGED <<fileOk, storeVars, processVars, laneVars, watched, historyVars>>

\* checkStartup, in the lane; the manager's Check touches no process.
CheckStartup(b) ==
  /\ pc = "idle" /\ "apply" \in Commands /\ startup[b] = "pending"
  /\ \E verdict \in {"ready", "failed"} : startup' = [startup EXCEPT ![b] = verdict]
  /\ UNCHANGED <<current, fileOk, storeVars, processVars, laneVars, watched, historyVars>>

-----------------------------------------------------------------------------
(* Explicit commands: beginRuntimeIntent reserves a generation and ends the *)
(* recovery episode.                                                        *)

Begin(kind, b) ==
  /\ pc = "idle" /\ kind \in Commands /\ MayBegin
  /\ recovery' = NoRecovery
  /\ tries' = 0 /\ forgiven' = FALSE
  /\ run' = NoRun
  /\ UNCHANGED <<observation, latest, unobserved, processVars, watched>>

\* The commands that name their bundle advance what is desired at once.
BeginDirect(kind, b) ==
  /\ Begin(kind, b)
  /\ hub' = [hub EXCEPT !.desired = IF b = None THEN @ ELSE b,
                        !.running = kind \notin {"stop", "disable"},
                        !.generation = @ + 1]
  /\ intent' = [NoIntent EXCEPT !.kind = IF kind = "disable" THEN "stop" ELSE kind,
                                !.bundle = b, !.disable = (kind = "disable")]
  /\ pc' = "perform"
  /\ UNCHANGED configVars

BeginApply(b) == Applicable(b) /\ BeginDirect("apply", b)

BeginStart ==
  /\ hub.applied # None /\ Applicable(hub.applied)
  /\ BeginDirect("start", hub.applied)

BeginRollback == hub.rollback # None /\ BeginDirect("rollback", hub.rollback)

BeginStop(kind) ==
  /\ kind \in {"stop", "disable"}
  /\ kind = "disable" => hub.applied # None
  /\ BeginDirect(kind, hub.applied)

\* PrepareCoreEnable keeps a running core running, and refuses to judge the
\* observation of a process whose executable cannot be inspected.
Selecting(kind) == kind = "enable" /\ observation.pid = 0

MayConfigure(kind) ==
  CASE kind = "start"   -> hub.applied # None /\ hub.applied \notin current
    [] kind = "restart" -> hub.applied # None
    [] kind = "enable"  -> observation.pid # 0 => child[observation.pid] \in {"alive", "doomed"}

\* The commands that snapshot the saved file leave the desired bundle alone
\* until the binary has accepted the candidate.
BeginConfigured(kind, b) ==
  /\ kind \in {"start", "restart", "enable"} /\ MayConfigure(kind)
  /\ fileOk /\ startup[b] = "none"
  /\ Begin(kind, b)
  /\ startup' = [startup EXCEPT ![b] = "pending"]
  /\ current' = current \cup {b}
  /\ hub' = [hub EXCEPT !.generation = @ + 1]
  /\ intent' = [NoIntent EXCEPT !.kind = IF kind = "start" THEN "start" ELSE "restart",
                                !.bundle = b, !.select = Selecting(kind)]
  /\ pc' = "preflight"
  /\ UNCHANGED fileOk

EndContext ==
  /\ "cancel" \in Faults /\ pc \notin {"idle", "down", "closing"} /\ ~run.ended
  /\ run' = [run EXCEPT !.ended = TRUE]
  /\ UNCHANGED <<storeVars, configVars, processVars, pc, intent, watched, historyVars>>

\* An intent that fails before it touched anything completes without evidence.
GiveUp ==
  /\ pc \in {"preflight", "bind", "perform", "halt"}
  /\ run.ended \/ "read" \in Faults
  /\ Return(FALSE)
  /\ UNCHANGED <<storeVars, configVars, processVars, watched, historyVars>>

-----------------------------------------------------------------------------
(* checkConfigurationForIntent and BindCheckedRuntimeIntent *)

PreflightUnbound ==
  /\ pc = "preflight" /\ ~run.ended
  /\ \/ startup' = [startup EXCEPT ![intent.bundle] = "failed"] /\ Return(FALSE)
     \/ /\ startup' = [startup EXCEPT ![intent.bundle] = "ready"]
        /\ pc' = "perform" /\ UNCHANGED <<intent, run>>
  /\ UNCHANGED <<current, fileOk, storeVars, processVars, watched, historyVars>>

Preflight ==
  /\ pc = "preflight" /\ ~run.ended
  /\ \/ /\ intent.kind = "start" /\ Running        \* "restart to load saved configuration"
        /\ Return(FALSE) /\ UNCHANGED startup
     \/ /\ ~(intent.kind = "start" /\ Running)
        /\ \/ /\ startup' = [startup EXCEPT ![intent.bundle] = "failed"]
              /\ Return(FALSE)
           \/ /\ startup' = [startup EXCEPT ![intent.bundle] = "ready"]
              /\ pc' = "bind" /\ UNCHANGED <<intent, run>>
  /\ UNCHANGED <<current, fileOk, storeVars, processVars, watched, historyVars>>

Bind ==
  /\ pc = "bind" /\ ~run.ended
  /\ IF Applicable(intent.bundle)
     THEN /\ hub' = [hub EXCEPT !.desired = intent.bundle, !.running = ~intent.select]
          /\ pc' = "perform" /\ UNCHANGED <<intent, run>>
     ELSE Return(FALSE) /\ UNCHANGED hub
  /\ UNCHANGED <<recovery, observation, latest, unobserved, configVars, processVars>>
  /\ UNCHANGED <<watched, historyVars>>

-----------------------------------------------------------------------------
(* performRuntimeIntent *)

\* The observation is captured before the process is touched.
Perform ==
  LET exact == Running /\ manager.bundle = intent.bundle IN
    /\ pc = "perform" /\ ~run.ended /\ ~intent.select
    /\ pc' = IF intent.kind = "stop" THEN "halt"
             ELSE IF intent.kind # "restart" /\ exact THEN "confirm"
             ELSE IF Running THEN "replace" ELSE "launch"
    /\ run' = [run EXCEPT !.fence = observation.pid]
    /\ UNCHANGED <<storeVars, configVars, processVars, intent, watched, historyVars>>

\* selectStoppedCore: no process is started for the selection.
Select ==
  /\ pc = "perform" /\ ~run.ended /\ intent.select
  /\ IF Running \/ observation.pid # 0
     THEN Return(FALSE)
     ELSE /\ run' = [run EXCEPT !.evidence = "clear", !.state = "stopped", !.ok = TRUE]
          /\ pc' = "complete" /\ UNCHANGED intent
  /\ UNCHANGED <<storeVars, configVars, processVars, watched, historyVars>>

\* Manager.Stop and the stop of Manager.Restart return without a child ...
StopReturns ==
  /\ manager' = [manager EXCEPT !.process = 0, !.state = "stopped"]
  /\ child' = [p \in Pids |-> IF p = manager.process THEN "gone" ELSE child[p]]

\* ... or the wait is cut short: the child was killed, the reaper will follow.
StopCut ==
  /\ manager.process # 0
  /\ manager' = [manager EXCEPT !.after = "stopped"]
  /\ child' = [child EXCEPT ![manager.process] = IF @ = "alive" THEN "doomed" ELSE @]

Replace ==
  /\ pc = "replace"
  /\ \/ StopReturns /\ pc' = IF run.ended /\ manager.process = 0 THEN "failed" ELSE "launch"
     \/ StopCut /\ run.ended /\ pc' = "failed"
  /\ UNCHANGED <<storeVars, configVars, intent, run, watched, historyVars>>

\* The previous child is not reaped yet: ErrAlreadyRunning.
LaunchRefused ==
  /\ pc = "launch" /\ manager.process # 0
  /\ pc' = "failed"
  /\ UNCHANGED <<storeVars, configVars, processVars, intent, run, watched, historyVars>>

LaunchFails ==
  /\ pc = "launch" /\ manager.process = 0
  /\ run.ended \/ "spawn" \in Faults
  /\ manager' = [manager EXCEPT !.state = "failed", !.bundle = intent.bundle,
                                !.started = 0, !.cause = hub.generation]
  /\ pc' = "failed"
  /\ UNCHANGED <<storeVars, configVars, child, intent, run, watched, historyVars>>

Spawned(p, process, state) ==
  manager' = [process |-> process, state |-> state, bundle |-> intent.bundle,
              after |-> "failed", started |-> p, cause |-> hub.generation]

\* The child is terminated again, or killed and left when the context ends.
LaunchUnhealthy ==
  LET p == Starts + 1 IN
    /\ pc = "launch" /\ manager.process = 0
    /\ \/ Spawned(p, 0, "failed") /\ child' = [child EXCEPT ![p] = "gone"]
       \/ run.ended /\ Spawned(p, p, "failed") /\ child' = [child EXCEPT ![p] = "doomed"]
    /\ pc' = "failed"
    /\ UNCHANGED <<storeVars, configVars, intent, run, watched, historyVars>>

LaunchHealthy ==
  LET p == Starts + 1 IN
    /\ pc = "launch" /\ manager.process = 0 /\ ~run.ended
    /\ Spawned(p, p, "running")
    /\ child' = [child EXCEPT ![p] = "alive"]
    /\ run' = [run EXCEPT !.started = TRUE]
    /\ pc' = "record"
    /\ UNCHANGED <<storeVars, configVars, intent, watched, historyVars>>

\* runtimeIntentFailureCommit: a service that still runs is not a failure of it.
Failed ==
  /\ pc = "failed"
  /\ run' = IF Running \/ ~Exited(run.fence) THEN run
            ELSE [run EXCEPT !.evidence = "clear", !.state = "failed"]
  /\ pc' = "complete"
  /\ UNCHANGED <<storeVars, configVars, processVars, intent, watched, historyVars>>

\* recordLiveObservation, fenced by the observation run.fence.
Recorded ==
  /\ Running /\ ~run.ended /\ observation.pid = run.fence
  /\ observation' = [pid |-> manager.process, bundle |-> intent.bundle,
                     stable |-> observation.stable /\ observation.pid = manager.process]

Lost(fence, state) ==
  /\ run' = [run EXCEPT !.fence = fence, !.state = state]
  /\ pc' = "lost"

\* After a failed write the row may be there nevertheless: its re-read failed.
Record ==
  /\ pc = "record"
  /\ \/ /\ Recorded
        /\ run' = [run EXCEPT !.fence = manager.process] /\ pc' = "confirm"
     \/ /\ ~Running \/ run.ended \/ "commit" \in Faults
        /\ UNCHANGED observation /\ Lost(run.fence, "failed")
     \/ "commit" \in Faults /\ Recorded /\ Lost(run.fence, "failed")
  /\ UNCHANGED <<hub, recovery, latest, unobserved, configVars, processVars, intent>>
  /\ UNCHANGED <<watched, historyVars>>

\* The handshake with the clash API, the fence, and the observation of a
\* process this intent did not start.
Confirm ==
  /\ pc = "confirm"
  /\ \/ run.started /\ ~run.ended /\ pc' = "commit" /\ UNCHANGED <<observation, intent, run>>
     \/ /\ ~run.started /\ Recorded
        /\ run' = [run EXCEPT !.fence = manager.process] /\ pc' = "commit" /\ UNCHANGED intent
     \/ /\ run.started                             \* no answer, or the fence is lost
        /\ \/ Lost(run.fence, "failed")
           \/ (run.ended \/ "read" \in Faults) /\ Lost(run.fence, "stopped")
        /\ UNCHANGED <<observation, intent>>
     \/ ~run.started /\ Return(FALSE) /\ UNCHANGED observation
  /\ UNCHANGED <<hub, recovery, latest, unobserved, configVars, processVars>>
  /\ UNCHANGED <<watched, historyVars>>

\* prepareRuntimeIntentRunningCommit reads the live identity once more.
PrepareCommit ==
  /\ pc = "commit"
  /\ IF Running /\ manager.process = run.fence /\ ~run.ended
     THEN /\ run' = [run EXCEPT !.evidence = "record", !.state = "running", !.ok = TRUE]
          /\ pc' = "complete" /\ UNCHANGED intent
     ELSE IF run.started
     THEN Lost(run.fence, "failed") /\ UNCHANGED intent
     ELSE Return(FALSE)
  /\ UNCHANGED <<storeVars, configVars, processVars, watched, historyVars>>

\* stopAfterLostIntent has ten seconds of its own.
StopLost ==
  /\ pc = "lost"
  /\ \/ /\ StopReturns
        /\ run' = [run EXCEPT !.evidence = "clear"] /\ pc' = "complete"
     \/ "slow" \in Faults /\ StopCut /\ pc' = "uncertain" /\ UNCHANGED run
  /\ UNCHANGED <<storeVars, configVars, intent, watched, historyVars>>

\* stopForIntent; a context that ended meanwhile fails the intent, not the evidence.
Halt ==
  /\ pc = "halt"
  /\ \/ /\ StopReturns
        /\ IF run.ended /\ manager.process = 0
           THEN pc' = "uncertain" /\ UNCHANGED run
           ELSE /\ run' = [run EXCEPT !.evidence = "clear", !.state = "stopped", !.ok = ~run.ended]
                /\ pc' = "complete"
     \/ StopCut /\ run.ended /\ pc' = "uncertain" /\ UNCHANGED run
  /\ UNCHANGED <<storeVars, configVars, intent, watched, historyVars>>

UncertainAssumesExit ==
  /\ pc = "uncertain"
  /\ IF run.second
     THEN Return(FALSE)
     ELSE /\ run' = IF run.fence = 0 THEN run
                    ELSE [run EXCEPT !.evidence = "clear", !.state = "unknown"]
          /\ pc' = "complete" /\ UNCHANGED intent
  /\ UNCHANGED <<storeVars, configVars, processVars, watched, historyVars>>

\* runtimeCommitAfterFailedIntentStop.
Uncertain ==
  /\ pc = "uncertain"
  /\ IF run.second
     THEN Return(FALSE)
     ELSE /\ run' = IF run.fence = 0 \/ ~Exited(run.fence) THEN run
                    ELSE [run EXCEPT !.evidence = "clear", !.state = "unknown"]
          /\ pc' = "complete" /\ UNCHANGED intent
  /\ UNCHANGED <<storeVars, configVars, processVars, watched, historyVars>>

-----------------------------------------------------------------------------
(* CompleteRuntimeIntent: one transaction for evidence, history and hub *)

CommittedAlwaysShifts ==
  CASE intent.kind \in {"apply", "start", "restart", "rollback"} ->
         [hub EXCEPT !.desired = intent.bundle, !.applied = intent.bundle,
                     !.rollback = hub.applied, !.running = ~intent.select]
    [] intent.kind = "stop" ->
         IF intent.disable
         THEN [hub EXCEPT !.desired = None, !.applied = None, !.rollback = None, !.running = FALSE]
         ELSE [hub EXCEPT !.running = FALSE]

\* commitSuccessfulRuntimeIntent.
Committed ==
  CASE intent.kind \in {"apply", "start", "restart"} ->
         [hub EXCEPT !.desired = intent.bundle, !.applied = intent.bundle,
                     !.rollback = IF hub.applied \in {None, intent.bundle} THEN @ ELSE hub.applied,
                     !.running = ~intent.select]
    [] intent.kind = "rollback" ->
         [hub EXCEPT !.desired = intent.bundle, !.applied = intent.bundle,
                     !.rollback = hub.applied, !.running = TRUE]
    [] intent.kind = "stop" ->
         IF intent.disable
         THEN [hub EXCEPT !.desired = None, !.applied = None, !.rollback = None, !.running = FALSE]
         ELSE [hub EXCEPT !.running = FALSE]

EvidenceMatches == run.evidence = "none" \/ observation.pid = run.fence

CompleteWithoutHistory ==
  /\ pc = "complete" /\ EvidenceMatches
  /\ observation' = IF run.evidence = "clear" THEN NoObservation ELSE observation
  /\ latest' = IF run.ok THEN run.state ELSE latest
  /\ recovery' = IF intent.recovery THEN [recovery EXCEPT !.succeeded = run.ok] ELSE recovery
  /\ hub' = IF run.ok THEN Committed ELSE hub
  /\ \E linked \in BOOLEAN : Return(run.ok /\ linked)
  /\ UNCHANGED <<unobserved, configVars, processVars, watched, historyVars>>

Complete ==
  /\ pc = "complete" /\ EvidenceMatches
  /\ observation' = IF run.evidence = "clear" THEN NoObservation ELSE observation
  /\ latest' = IF run.evidence = "none" THEN latest ELSE run.state
  /\ recovery' = IF intent.recovery THEN [recovery EXCEPT !.succeeded = run.ok] ELSE recovery
  /\ hub' = IF run.ok THEN Committed ELSE hub
  /\ \E linked \in BOOLEAN : Return(run.ok /\ linked)     \* syncEnabledCore
  /\ UNCHANGED <<unobserved, configVars, processVars, watched, historyVars>>

\* A new service without evidence is stopped, and completed as a failure.
CompleteFailsAndReturns ==
  /\ pc = "complete"
  /\ ~EvidenceMatches \/ "commit" \in Faults
  /\ Return(FALSE)
  /\ UNCHANGED <<storeVars, configVars, processVars, watched, historyVars>>

CompleteFails ==
  /\ pc = "complete"
  /\ ~EvidenceMatches \/ "commit" \in Faults
  /\ IF run.ok /\ Running
     THEN /\ run' = [run EXCEPT !.fence = observation.pid, !.evidence = "none",
                                !.state = "failed", !.ok = FALSE, !.second = TRUE]
          /\ pc' = "lost" /\ UNCHANGED intent
     ELSE Return(FALSE)
  /\ UNCHANGED <<storeVars, configVars, processVars, watched, historyVars>>

-----------------------------------------------------------------------------
(* RequestRuntimeRecovery: the retry budget and its deadlines               *)

OnSchedule == recovery.attempt # 0 /\ recovery.generation = hub.generation

AttemptForgetsSuccess(clean) ==
  IF OnSchedule /\ ~observation.stable /\ ~clean THEN recovery.attempt + 1 ELSE 1

\* nextRuntimeRecoveryMetadata: a stable run or a clean stop opens a new episode.
Attempt(clean) ==
  IF OnSchedule /\ ~(recovery.succeeded /\ (observation.stable \/ clean))
  THEN recovery.attempt + 1 ELSE 1

\* A due attempt reserves a generation and becomes the lane's intent; what
\* was observed of the old process stays on record.
Resume(boot) ==
  /\ startup[hub.applied] = "ready"
  /\ OnSchedule /\ recovery.deadline = "due" /\ MayBegin
  /\ hub' = [hub EXCEPT !.generation = @ + 1]
  /\ recovery' = [recovery EXCEPT !.generation = hub'.generation, !.deadline = "none",
                                  !.succeeded = FALSE]
  /\ intent' = [NoIntent EXCEPT !.kind = "start", !.bundle = hub.applied,
                                !.recovery = TRUE, !.boot = boot]
  /\ pc' = "perform" /\ run' = NoRun
  /\ tries' = tries + 1
  /\ UNCHANGED <<observation, latest, unobserved, configVars, processVars, watched, forgiven>>

\* The next attempt gets its delay, or the budget is spent and the row stays.
Schedule(clean) ==
  /\ startup[hub.applied] = "ready" /\ ~(OnSchedule /\ recovery.deadline # "none")
  /\ observation' = NoObservation
  /\ recovery' = IF Attempt(clean) > MaximumAttempts THEN recovery
                 ELSE [generation |-> hub.generation, attempt |-> Attempt(clean),
                       deadline |-> "waiting", succeeded |-> FALSE]
  /\ UNCHANGED <<hub, configVars, processVars, intent, run, watched, tries>>

DeadlinePasses ==
  /\ recovery.deadline = "waiting"
  /\ recovery' = [recovery EXCEPT !.deadline = "due"]
  /\ UNCHANGED <<hub, observation, latest, unobserved, configVars, processVars>>
  /\ UNCHANGED <<laneVars, watched, historyVars>>

-----------------------------------------------------------------------------
(* runtimeReconciler: one tick a second                                     *)

\* Two ticks that see the same incarnation, a stability window apart, prove a
\* stable run.
TickRunning ==
  /\ pc = "idle" /\ Running
  /\ IF observation.pid # manager.process \/ observation.bundle # manager.bundle
     THEN watched' = 0 /\ UNCHANGED <<observation, tries>>
     ELSE IF watched # manager.process
     THEN watched' = manager.process /\ UNCHANGED <<observation, tries>>
     ELSE observation' = [observation EXCEPT !.stable = TRUE] /\ tries' = 0 /\ UNCHANGED watched
  /\ UNCHANGED <<hub, recovery, latest, unobserved, configVars, processVars, laneVars, forgiven>>

\* The service is down without a failure of it: no transition to log.
TickSettled ==
  /\ pc = "idle" /\ ~Running /\ manager.state # "failed"
  /\ Eligible /\ observation.pid = 0
  /\ \/ Resume(FALSE)
     \/ Schedule(FALSE) /\ UNCHANGED <<latest, unobserved, pc, forgiven>>

\* The process on record is gone and the manager saw a failure.
TickFailedObserved ==
  /\ pc = "idle" /\ ~Running /\ manager.state = "failed"
  /\ observation.pid # 0 /\ Exited(observation.pid)
  /\ \/ /\ ~Eligible
        /\ observation' = NoObservation /\ latest' = "failed"
        /\ UNCHANGED <<hub, recovery, unobserved, configVars, processVars, laneVars>>
        /\ UNCHANGED <<watched, historyVars>>
     \/ /\ Eligible /\ observation.bundle = hub.applied
        /\ \/ Resume(FALSE)
           \/ Schedule(FALSE) /\ latest' = "failed" /\ UNCHANGED <<unobserved, pc, forgiven>>

\* The failure as the log would have it.  Its key is the bundle and the start
\* of the process; the same key with another time (cause) or generation is
\* ErrRuntimeTransitionConflict, which takes the transaction with it.
Failure == [bundle |-> manager.bundle, started |-> manager.started, cause |-> manager.cause,
            generation |-> IF Eligible THEN hub.generation ELSE 0]

Conflict == \E logged \in unobserved \ {Failure} :
              logged.bundle = Failure.bundle /\ logged.started = Failure.started

LogFailure ==
  /\ unobserved' = unobserved \cup {Failure}
  /\ latest' = IF Failure \in unobserved THEN latest ELSE "failed"

\* A failed start left nothing on record.
TickFailedUnobserved ==
  /\ pc = "idle" /\ ~Running /\ manager.state = "failed" /\ observation.pid = 0
  /\ \/ /\ ~Eligible /\ ~Conflict /\ LogFailure
        /\ UNCHANGED <<hub, recovery, observation, configVars, processVars, laneVars>>
        /\ UNCHANGED <<watched, historyVars>>
     \/ /\ Eligible /\ manager.bundle = hub.applied
        /\ \/ Resume(FALSE)
           \/ Schedule(FALSE) /\ ~Conflict /\ LogFailure /\ UNCHANGED <<pc, forgiven>>

Tick == TickRunning \/ TickSettled \/ TickFailedObserved \/ TickFailedUnobserved

-----------------------------------------------------------------------------
(* The child and its reaper *)

ChildExits(p) ==
  /\ child[p] \in {"alive", "doomed"}
  /\ child' = [child EXCEPT ![p] = IF p = manager.process THEN "dead" ELSE "gone"]
  /\ UNCHANGED <<storeVars, configVars, manager, laneVars, watched, historyVars>>

ReapCalmly ==
  /\ manager.process # 0 /\ child[manager.process] = "dead"
  /\ child' = [child EXCEPT ![manager.process] = "gone"]
  /\ manager' = [manager EXCEPT !.process = 0, !.state = "stopped"]
  /\ UNCHANGED <<storeVars, configVars, laneVars, watched, historyVars>>

Reap ==
  /\ manager.process # 0 /\ child[manager.process] = "dead"
  /\ child' = [child EXCEPT ![manager.process] = "gone"]
  /\ manager' = [manager EXCEPT !.process = 0, !.state = manager.after]
  /\ UNCHANGED <<storeVars, configVars, laneVars, watched, historyVars>>

-----------------------------------------------------------------------------
(* The panel's own life *)

Shutdown ==
  /\ pc = "idle" /\ pc' = "closing"
  /\ UNCHANGED <<storeVars, configVars, processVars, intent, run, watched, historyVars>>

\* runtimeServices.Close waits for the child's end however late it comes.  When
\* the manager closed in time the evidence is deleted by the captured fence
\* alone; otherwise only after its process is proved gone.
Close ==
  LET left == [p \in Pids |-> IF p = manager.process THEN "gone" ELSE child[p]]
      settled(state) ==
        IF observation.pid = 0 THEN UNCHANGED <<observation, latest, tries>>
        ELSE observation' = NoObservation /\ latest' = state /\ tries' = 0
  IN /\ pc = "closing"
     /\ \/ settled("stopped")
        \/ /\ "slow" \in Faults /\ manager.process # 0
           /\ IF observation.pid # 0 /\ left[observation.pid] = "gone" THEN settled("unknown")
              ELSE UNCHANGED <<observation, latest, tries>>
        \/ {"commit", "read"} \cap Faults # {} /\ UNCHANGED <<observation, latest, tries>>
     /\ child' = left /\ manager' = NewManager
     /\ pc' = "down" /\ watched' = 0
     /\ UNCHANGED <<hub, recovery, unobserved, configVars, intent, run, forgiven>>

\* The kernel kills the panel's child with it (Pdeathsig).
Crash ==
  /\ "crash" \in Faults /\ pc # "down"
  /\ child' = [p \in Pids |-> CASE child[p] = "alive" -> "doomed"
                                [] child[p] = "dead" -> "gone"
                                [] OTHER -> child[p]]
  /\ manager' = NewManager /\ watched' = 0
  /\ pc' = "down" /\ intent' = NoIntent /\ run' = NoRun
  /\ UNCHANGED <<storeVars, configVars, historyVars>>

\* ReconcileStartup.  A process of an earlier panel is not adopted: the panel
\* gives up, and its deferred Close runs.
Boot ==
  /\ pc = "down" /\ pc' = "closing" /\ ~Exited(observation.pid)
  /\ latest' = "unknown"
  /\ UNCHANGED <<hub, recovery, observation, unobserved, configVars, processVars>>
  /\ UNCHANGED <<intent, run, watched, historyVars>>

BootStopped ==
  /\ pc = "down" /\ pc' = "idle" /\ Exited(observation.pid) /\ ~Eligible
  /\ observation' = NoObservation /\ latest' = "stopped"
  /\ UNCHANGED <<hub, recovery, unobserved, configVars, processVars, intent, run, watched>>
  /\ UNCHANGED historyVars

BootRecovering ==
  LET clean == observation.pid = 0 IN
    /\ pc = "down" /\ Exited(observation.pid) /\ Eligible
    /\ \/ Resume(TRUE)
       \/ /\ Schedule(clean) /\ pc' = "idle" /\ UNCHANGED unobserved
          /\ latest' = IF clean THEN latest ELSE "unknown"
          /\ forgiven' = (forgiven \/ (OnSchedule /\ Attempt(FALSE) > MaximumAttempts
                                         /\ Attempt(clean) = 1 /\ tries # 0))
       \/ /\ OnSchedule /\ recovery.deadline = "waiting" /\ pc' = "idle"
          /\ UNCHANGED <<storeVars, configVars, processVars, intent, run, watched, historyVars>>

-----------------------------------------------------------------------------
Command ==
  \/ \E b \in Bundles : BeginApply(b)
  \/ BeginStart
  \/ BeginRollback
  \/ \E kind \in {"stop", "disable"} : BeginStop(kind)
  \/ \E kind \in {"start", "restart", "enable"}, b \in Bundles : BeginConfigured(kind, b)

LaneStep ==
  \/ Preflight \/ Bind \/ Perform \/ Select \/ Replace
  \/ LaunchRefused \/ LaunchFails \/ LaunchUnhealthy \/ LaunchHealthy
  \/ Failed \/ Record \/ Confirm \/ PrepareCommit \/ StopLost \/ Halt \/ Uncertain
  \/ Complete \/ CompleteFails

Started == Boot \/ BootStopped \/ BootRecovering

Next ==
  \/ SaveConfiguration
  \/ \E b \in Bundles : CreateStartup(b) \/ CheckStartup(b)
  \/ Command \/ EndContext \/ GiveUp \/ LaneStep
  \/ DeadlinePasses \/ Tick
  \/ (\E p \in Pids : ChildExits(p)) \/ Reap
  \/ Shutdown \/ Close \/ Crash \/ Started

Spec == Init /\ [][Next]_vars

\* The lane's goroutine and the reaper run, time passes, the reconciler ticks,
\* killed processes end, and the supervisor starts the panel again.
Fairness ==
  /\ WF_vars(LaneStep \/ (run.ended /\ GiveUp)) /\ WF_vars(Tick) /\ WF_vars(DeadlinePasses)
  /\ WF_vars(Reap)
  /\ \A p \in Pids : WF_vars(child[p] = "doomed" /\ ChildExits(p))
  /\ WF_vars(Close) /\ WF_vars(Started)

FairSpec == Spec /\ Fairness

-----------------------------------------------------------------------------
(* Properties *)

Serving == pc = "idle" /\ Running

\* Between intents a living child of the manager is the process on record, runs
\* the applied bundle, and history says "running"; and no other process of this
\* panel lives.  Whatever an intent loses on its way (its context, a read, the
\* write of the evidence), performRuntimeIntent and executeIntent leave no
\* service that a later panel could neither recognise nor fence.
RestingServiceIsOnRecord ==
  pc = "idle" =>
    \A p \in Pids : child[p] = "alive" =>
      /\ manager.process = p /\ Running
      /\ observation.pid = p /\ latest = "running"
      /\ observation.bundle = manager.bundle /\ manager.bundle = hub.applied

\* The hub never names as applied or as rollback a bundle that the binary did
\* not accept, a rollback is another bundle than the applied one, and there is
\* none without an applied one (commitSuccessfulRuntimeIntent, BindChecked...).
SelectionIsSound ==
  /\ \A b \in {hub.applied, hub.rollback} \ {None} : startup[b] = "ready"
  /\ hub.rollback # None => hub.applied \notin {None, hub.rollback}

\* History never ends with "running" when no process is on record: every
\* transaction that deletes the observation also logs what ended it.
HistoryIsClosed == observation.pid = 0 => latest # "running"

\* At most three recovery attempts follow one another without an explicit
\* command, a stable run or a shutdown with evidence, however often the panel
\* is restarted or crashes between them -- except after a start of the panel on
\* a spent budget whose row looks like a clean stop.
BoundedRecovery == forgiven \/ tries <= MaximumAttempts

\* What docs/guides/configuration-and-runtime.md:379 says without exception.
BudgetIsSpentOnce == tries <= MaximumAttempts

\* While the panel serves, evidence of a process is given up only when that
\* process is gone, also when a cancelled stop could not wait for it.
EvidenceFencesTheLiving ==
  [][observation.pid # 0 /\ observation'.pid # observation.pid /\ pc # "closing"
       => child[observation.pid] = "gone"]_vars

\* internal/store/runtime_observation.go:96: the refusal of a live process at
\* startup is logged "without erasing the fence needed for a later recovery
\* decision", so no step may delete it while the process is visible.
FenceOutlivesProcess ==
  [][observation.pid # 0 /\ observation'.pid # observation.pid
       => child'[observation.pid] = "gone"]_vars

\* The lane ends a living service, or starts one, only for a bundle that the
\* binary accepted and that is desired when it happens: a candidate that fails
\* its check or a stale one leaves the old service alone.
OnlyCheckedBundlesReplace ==
  [][\A p \in Pids :
       (\/ child[p] = "alive" /\ child'[p] # "alive" /\ pc \in {"replace", "launch"} /\ pc' # pc
        \/ child[p] = "none" /\ child'[p] # "none")
       => startup[intent.bundle] = "ready" /\ hub.desired = intent.bundle]_vars

\* A service that should run and does not is started again or given up: the
\* budget is spent, the wish is withdrawn, the panel is down, or the bounds of
\* the model are reached.
Exhausted == /\ OnSchedule /\ recovery.attempt = MaximumAttempts
             /\ recovery.deadline = "none" /\ observation.pid = 0
Resolved == Serving \/ Exhausted \/ ~Eligible \/ pc = "down" \/ ~MayBegin
RecoveryResolves == (pc = "idle" /\ Eligible /\ ~Running) ~> Resolved

\* internal/server/runtime.go:700: a captured process that is still there after a
\* failed stop was not touched by it ("the failed Stop did not change the durable
\* runtime fact and needs no completion evidence").
FailedStopChangesNothing ==
  [][pc = "uncertain" /\ ~run.second /\ run.fence # 0 /\ run'.evidence = "none"
       => child[run.fence] = "alive"]_vars
=============================================================================
