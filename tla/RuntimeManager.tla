--------------------------- MODULE RuntimeManager ---------------------------
(***************************************************************************)
(* runtime.Manager (internal/runtime/manager*.go, check.go): the calls     *)
(* Start, Stop, Restart, Check, CheckHealth, Close and Wait of concurrent  *)
(* callers, the child process, and the reaper goroutine of each child.     *)
(*                                                                         *)
(* operationMu serializes the calls and is held across subprocesses and    *)
(* waits; mu protects the status and is held for one step at a time, so a  *)
(* critical section of mu is an action.  A reaper takes mu and the lock of *)
(* the startup files, never operationMu.                                   *)
(***************************************************************************)
EXTENDS Integers, FiniteSets

CONSTANTS
  Callers,      \* goroutines that call the manager
  Bundles,      \* bundles, each with its artifact, version and config digest
  MaxStarts,    \* bound: startups in a behaviour
  SignalsFail,  \* whether Terminate and Kill may return an error of their own
  None,         \* no caller, no bundle, no digest
  Temp          \* see StartupConfigs

ASSUME ManagerAssumption ==
  /\ IsFiniteSet(Callers) /\ None \notin Callers
  /\ None \notin Bundles /\ Temp \notin Bundles
  /\ MaxStarts \in Nat
  /\ Callers \cap (1 .. MaxStarts) = {}
  /\ SignalsFail \in BOOLEAN

Children == 1 .. MaxStarts   \* a child is named by the generation that began it

VARIABLES
  opHolder,     \* caller inside operationMu
  pc, op, bundle, result,
  ctxDone,      \* the caller's context has ended
  target,       \* process a call captured: managedProcess pointers, 0 for nil
  termError,    \* Terminate failed for the current terminateProcess
  status,       \* manager.status
  process,      \* manager.process
  generation,   \* manager.generation
  startCancel,  \* generation whose startup can be cancelled, 0 for nil
  cancelled,    \* that startup's context was cancelled by another call
  closing, closed,
  child,        \* operating system state of each child
  reaper,       \* progress of each child's reaper
  desired,      \* process.desiredState
  held, users, tracked, disk

callVars == <<opHolder, pc, op, bundle, result, ctxDone, target, termError>>
configVars == <<held, users, tracked, disk>>
mgrVars == <<status, process, generation, startCancel, cancelled, closing, closed>>
childVars == <<child, reaper, desired>>
vars == <<callVars, mgrVars, childVars, configVars>>

Configs == INSTANCE StartupConfigs
  WITH Digests <- Bundles, Holders <- Callers \cup Children, NoDigest <- None

Operations == {"start", "stop", "restart", "check", "health", "close", "wait"}
States == {"stopped", "starting", "running", "failed"}
Steps ==
  {"idle", "cancel", "closing", "lock", "stop", "await", "awaitKilled", "begin",
   "verify", "version", "acquire", "check", "spawn", "adopt", "probe", "commit",
   "condemn", "fail", "endStart", "checkAcquire", "checkRun", "waiting", "unlock"}

Stopped ==
  [state |-> "stopped", bundle |-> None, artifact |-> None, version |-> None,
   pid |-> 0, healthy |-> FALSE]

TypeOK ==
  /\ opHolder \in Callers \cup {None}
  /\ pc \in [Callers -> Steps]
  /\ op \in [Callers -> Operations \cup {None}]
  /\ bundle \in [Callers -> Bundles \cup {None}]
  /\ result \in [Callers -> {"none", "ok", "error", "refused"}]
  /\ ctxDone \in [Callers -> BOOLEAN]
  /\ target \in [Callers -> Children \cup {0}]
  /\ termError \in [Callers -> BOOLEAN]
  /\ status \in [state : States, bundle : Bundles \cup {None},
                 artifact : Bundles \cup {None}, version : Bundles \cup {None},
                 pid : Children \cup {0}, healthy : BOOLEAN]
  /\ process \in Children \cup {0}
  /\ generation \in Children \cup {0}
  /\ startCancel \in Children \cup {0}
  /\ cancelled \in BOOLEAN /\ closing \in BOOLEAN /\ closed \in BOOLEAN
  /\ child \in [Children -> {"none", "alive", "killed", "dead"}]
  /\ reaper \in [Children -> {"none", "waiting", "exited", "released", "settled", "done"}]
  /\ desired \in [Children -> {"failed", "stopped"}]
  /\ held \in [Callers \cup Children -> Bundles \cup {None}]
  /\ users \in [Configs!Names -> Nat]
  /\ tracked \subseteq Configs!Names /\ disk \subseteq Configs!Names

Init ==
  /\ opHolder = None
  /\ pc = [c \in Callers |-> "idle"]
  /\ op = [c \in Callers |-> None]
  /\ bundle = [c \in Callers |-> None]
  /\ result = [c \in Callers |-> "none"]
  /\ ctxDone = [c \in Callers |-> FALSE]
  /\ target = [c \in Callers |-> 0]
  /\ termError = [c \in Callers |-> FALSE]
  /\ status = Stopped
  /\ process = 0 /\ generation = 0 /\ startCancel = 0
  /\ cancelled = FALSE /\ closing = FALSE /\ closed = FALSE
  /\ child = [g \in Children |-> "none"]
  /\ reaper = [g \in Children |-> "none"]
  /\ desired = [g \in Children |-> "failed"]
  /\ held = [h \in Callers \cup Children |-> None]
  /\ users = [n \in Configs!Names |-> 0]
  /\ tracked = {} /\ disk = {}

-----------------------------------------------------------------------------
(* Helpers *)

Goto(c, step) == pc' = [pc EXCEPT ![c] = step]

Finish(c, outcome) ==
  /\ Goto(c, "unlock")
  /\ result' = [result EXCEPT ![c] = outcome]

\* The startup a call runs, between startLocked's first and last step.
InStartup(c) == startCancel # 0 /\ opHolder = c

\* operationContext during a startup, the caller's own context otherwise.
ContextEnded(c) == ctxDone[c] \/ (InStartup(c) /\ cancelled)

Exited(g) == reaper[g] \notin {"none", "waiting"}   \* process.exited is closed

Kill(g) == child' = [child EXCEPT ![g] = IF @ = "alive" THEN "killed" ELSE @]

-----------------------------------------------------------------------------
(* Entering a call *)

PendingStarts ==
  Cardinality({c \in Callers : op[c] \in {"start", "restart"} /\ result[c] = "none"
                                /\ ~InStartup(c)})

\* A caller makes a call with a bundle that passed cloneAndValidateBundle.
Call(c, o, b) ==
  /\ pc[c] = "idle"
  /\ (o \in {"start", "restart"}) => generation + PendingStarts < MaxStarts
  /\ Goto(c, CASE o \in {"stop", "restart"} -> "cancel"
               [] o = "close" -> "closing"
               [] o = "wait" -> "waiting"
               [] OTHER -> "lock")
  /\ op' = [op EXCEPT ![c] = o]
  /\ bundle' = [bundle EXCEPT ![c] = IF o \in {"start", "restart", "check"} THEN b ELSE None]
  /\ UNCHANGED <<opHolder, result, ctxDone, target, termError, mgrVars, childVars, configVars>>

\* The caller's context ends at any time during the call.
EndContext(c) ==
  /\ pc[c] # "idle" /\ ~ctxDone[c]
  /\ ctxDone' = [ctxDone EXCEPT ![c] = TRUE]
  /\ UNCHANGED <<opHolder, pc, op, bundle, result, target, termError, mgrVars, childVars, configVars>>

\* manager.cancelStartup, before Stop and Restart wait for operationMu.
CancelStartup(c) ==
  /\ pc[c] = "cancel"
  /\ cancelled' = (cancelled \/ startCancel # 0)
  /\ Goto(c, "lock")
  /\ UNCHANGED <<opHolder, op, bundle, result, ctxDone, target, termError>>
  /\ UNCHANGED <<status, process, generation, startCancel, closing, closed, childVars, configVars>>

\* Close refuses new starts before it waits for operationMu.
MarkClosing(c) ==
  /\ pc[c] = "closing"
  /\ closing' = TRUE
  /\ cancelled' = (cancelled \/ startCancel # 0)
  /\ Goto(c, "lock")
  /\ UNCHANGED <<opHolder, op, bundle, result, ctxDone, target, termError>>
  /\ UNCHANGED <<status, process, generation, startCancel, closed, childVars, configVars>>

BlockedExceptRestart(c) == op[c] \in {"start", "check", "health"} /\ (closing \/ closed)

\* What the call finds under mu right after it got operationMu.
Blocked(c) == op[c] \in {"start", "restart", "check", "health"} /\ (closing \/ closed)

RefusedByStateOnly(c) ==
  \/ Blocked(c)
  \/ op[c] = "start" /\ status.state \in {"starting", "running"}
  \/ op[c] = "health" /\ process = 0

Refused(c) ==
  \/ Blocked(c)
  \/ op[c] = "start" /\ (process # 0 \/ status.state = "starting")
  \/ op[c] = "health" /\ process = 0

Enter(c) ==
  /\ pc[c] = "lock" /\ opHolder = None
  /\ opHolder' = c
  /\ IF Refused(c)
     THEN Finish(c, "refused") /\ UNCHANGED target
     ELSE /\ Goto(c, CASE op[c] = "start" -> "begin"
                       [] op[c] = "check" -> "checkAcquire"
                       [] op[c] = "health" -> "probe"
                       [] OTHER -> "stop")
          /\ target' = [target EXCEPT ![c] = IF op[c] = "health" THEN process ELSE 0]
          /\ UNCHANGED result
  /\ UNCHANGED <<op, bundle, ctxDone, termError, mgrVars, childVars, configVars>>

Unlock(c) ==
  /\ pc[c] = "unlock"
  /\ opHolder' = IF opHolder = c THEN None ELSE opHolder
  /\ Goto(c, "idle")
  /\ op' = [op EXCEPT ![c] = None]
  /\ bundle' = [bundle EXCEPT ![c] = None]
  /\ result' = [result EXCEPT ![c] = "none"]
  /\ ctxDone' = [ctxDone EXCEPT ![c] = FALSE]
  /\ target' = [target EXCEPT ![c] = 0]
  /\ termError' = [termError EXCEPT ![c] = FALSE]
  /\ UNCHANGED <<mgrVars, childVars, configVars>>

\* Wait joins the reapers, after Close only.
Wait(c) ==
  /\ pc[c] = "waiting"
  /\ IF closed
     THEN (\A g \in Children : reaper[g] \in {"none", "done"}) /\ Finish(c, "ok")
     ELSE Finish(c, "refused")
  /\ UNCHANGED <<opHolder, op, bundle, ctxDone, target, termError, mgrVars, childVars, configVars>>

-----------------------------------------------------------------------------
(* stopLocked and terminateProcess *)

AfterStop(c, ok) ==
  /\ closed' = (closed \/ op[c] = "close")
  /\ IF ok /\ op[c] = "restart"
     THEN Goto(c, "begin") /\ UNCHANGED result
     ELSE Finish(c, IF ok THEN "ok" ELSE "error")

StopNothing(c) ==
  /\ pc[c] = "stop" /\ process = 0
  /\ status' = [status EXCEPT !.state = "stopped", !.pid = 0, !.healthy = FALSE]
  /\ AfterStop(c, ~ctxDone[c])
  /\ UNCHANGED <<opHolder, op, bundle, ctxDone, target, termError>>
  /\ UNCHANGED <<process, generation, startCancel, cancelled, closing, childVars, configVars>>

\* SIGTERM to the process group; the answer matters only if it is an error.
Terminate(c) == \E e \in {FALSE, SignalsFail} : termError' = [termError EXCEPT ![c] = e]

StopChild(c) ==
  /\ pc[c] = "stop" /\ process # 0
  /\ desired' = [desired EXCEPT ![process] = "stopped"]
  /\ target' = [target EXCEPT ![c] = process]
  /\ Terminate(c)
  /\ Goto(c, "await")
  /\ UNCHANGED <<opHolder, op, bundle, result, ctxDone, mgrVars, child, reaper, configVars>>

\* Where terminateProcess returns to: stopLocked, the startup, or CheckHealth.
Terminated(c, ok) ==
  IF InStartup(c)
  THEN Goto(c, "endStart") /\ result' = [result EXCEPT ![c] = "error"] /\ UNCHANGED closed
  ELSE IF op[c] = "health"
       THEN Finish(c, "error") /\ UNCHANGED closed
       ELSE AfterStop(c, ok)

ChildDoneOnExit(c) ==
  /\ pc[c] \in {"await", "awaitKilled"} /\ Exited(target[c])
  /\ Terminated(c, ~termError[c])
  /\ UNCHANGED <<opHolder, op, bundle, ctxDone, target, termError>>
  /\ UNCHANGED <<status, process, generation, startCancel, cancelled, closing, childVars, configVars>>

ChildDone(c) ==
  /\ pc[c] \in {"await", "awaitKilled"} /\ reaper[target[c]] = "done"
  /\ Terminated(c, ~termError[c])
  /\ UNCHANGED <<opHolder, op, bundle, ctxDone, target, termError>>
  /\ UNCHANGED <<status, process, generation, startCancel, cancelled, closing, childVars, configVars>>

\* The context ends while terminateProcess waits: SIGKILL, unless already sent.
WaitAbandoned(c) ==
  /\ pc[c] \in {"await", "awaitKilled"} /\ ContextEnded(c)
  /\ \/ pc[c] = "await" /\ Kill(target[c])
     \/ (pc[c] = "awaitKilled" \/ SignalsFail) /\ UNCHANGED child
  /\ Terminated(c, FALSE)
  /\ UNCHANGED <<opHolder, op, bundle, ctxDone, target, termError>>
  /\ UNCHANGED <<status, process, generation, startCancel, cancelled, closing, reaper, desired, configVars>>

GraceExpiredWithoutKill(c) ==
  /\ pc[c] = "await"
  /\ Goto(c, "awaitKilled")
  /\ UNCHANGED <<opHolder, op, bundle, result, ctxDone, target, termError, mgrVars, childVars, configVars>>

\* The shutdown grace runs out: SIGKILL, and wait again unless that failed.
GraceExpired(c) ==
  /\ pc[c] = "await"
  /\ \/ Kill(target[c]) /\ Goto(c, "awaitKilled") /\ UNCHANGED <<result, closed>>
     \/ SignalsFail /\ Terminated(c, FALSE) /\ UNCHANGED child
  /\ UNCHANGED <<opHolder, op, bundle, ctxDone, target, termError>>
  /\ UNCHANGED <<status, process, generation, startCancel, cancelled, closing, reaper, desired, configVars>>

-----------------------------------------------------------------------------
(* startLocked *)

\* Call lets no more than MaxStarts startups get here.
Begin(c) ==
  /\ pc[c] = "begin" /\ generation < MaxStarts
  /\ generation' = generation + 1
  /\ startCancel' = generation + 1
  /\ cancelled' = FALSE
  /\ status' = [Stopped EXCEPT !.state = "starting", !.bundle = bundle[c]]
  /\ Goto(c, "verify")
  /\ UNCHANGED <<opHolder, op, bundle, result, ctxDone, target, termError>>
  /\ UNCHANGED <<process, closing, closed, childVars, configVars>>

\* A startup step that fails before there is a child.
StepFails(c) ==
  /\ pc[c] \in {"verify", "version", "acquire", "check", "spawn"}
  /\ Goto(c, "fail")
  /\ \/ UNCHANGED configVars
     \/ pc[c] = "acquire" /\ Configs!AcquireFails(c, bundle[c])
  /\ UNCHANGED <<opHolder, op, bundle, result, ctxDone, target, termError, mgrVars, childVars>>

\* The configuration has its digest and the binary is a regular executable:
\* recordActualArtifact.
VerifyArtifact(c) ==
  /\ pc[c] = "verify" /\ ~ContextEnded(c)
  /\ status' = [status EXCEPT !.artifact = bundle[c]]
  /\ Goto(c, "version")
  /\ UNCHANGED <<opHolder, op, bundle, result, ctxDone, target, termError>>
  /\ UNCHANGED <<process, generation, startCancel, cancelled, closing, closed, childVars, configVars>>

VerifyVersionAcceptsAny(c, v) ==
  /\ pc[c] = "version" /\ ~ContextEnded(c)
  /\ status' = [status EXCEPT !.version = v]
  /\ Goto(c, "acquire")
  /\ UNCHANGED <<opHolder, op, bundle, result, ctxDone, target, termError>>
  /\ UNCHANGED <<process, generation, startCancel, cancelled, closing, closed, childVars, configVars>>

\* recordActualVersion keeps what the binary reports, also when it is another.
VerifyVersion(c, v) ==
  /\ pc[c] = "version" /\ ~ContextEnded(c)
  /\ status' = [status EXCEPT !.version = v]
  /\ Goto(c, IF v = bundle[c] THEN "acquire" ELSE "fail")
  /\ UNCHANGED <<opHolder, op, bundle, result, ctxDone, target, termError>>
  /\ UNCHANGED <<process, generation, startCancel, cancelled, closing, closed, childVars, configVars>>

AcquireConfig(c) ==
  /\ pc[c] = "acquire" /\ ~ContextEnded(c)
  /\ Configs!Acquire(c, bundle[c])
  /\ Goto(c, "check")
  /\ UNCHANGED <<opHolder, op, bundle, result, ctxDone, target, termError, mgrVars, childVars>>

\* "sing-box check" accepts the file and the binary has not changed.
CheckConfig(c) ==
  /\ pc[c] = "check" /\ ~ContextEnded(c)
  /\ Goto(c, "spawn")
  /\ UNCHANGED <<opHolder, op, bundle, result, ctxDone, target, termError, mgrVars, childVars, configVars>>

\* Executor.Start; no context is consulted between the last check and here.
Spawn(c) ==
  /\ pc[c] = "spawn"
  /\ child' = [child EXCEPT ![generation] = "alive"]
  /\ Goto(c, "adopt")
  /\ UNCHANGED <<opHolder, op, bundle, result, ctxDone, target, termError, mgrVars, reaper, desired, configVars>>

\* The child becomes manager.process and takes over the configuration file.
Adopt(c) ==
  /\ pc[c] = "adopt"
  /\ process' = generation
  /\ status' = [status EXCEPT !.pid = generation]
  /\ reaper' = [reaper EXCEPT ![generation] = "waiting"]
  /\ desired' = [desired EXCEPT ![generation] = "failed"]
  /\ target' = [target EXCEPT ![c] = generation]
  /\ held' = [held EXCEPT ![generation] = held[c], ![c] = None]
  /\ Goto(c, "probe")
  /\ UNCHANGED <<opHolder, op, bundle, result, ctxDone, termError>>
  /\ UNCHANGED <<generation, startCancel, cancelled, closing, closed, child, users, tracked, disk>>

\* AwaitHealthy succeeds only for a child whose exit is not yet published.
ProbeHealthy(c) ==
  /\ pc[c] = "probe" /\ ~Exited(target[c])
  /\ Goto(c, "commit")
  /\ UNCHANGED <<opHolder, op, bundle, result, ctxDone, target, termError, mgrVars, childVars, configVars>>

\* CheckHealth returns the context's error without judging the child.
ProbeFails(c) ==
  /\ pc[c] = "probe"
  /\ IF op[c] = "health" /\ ctxDone[c]
     THEN Finish(c, "error")
     ELSE Goto(c, "condemn") /\ UNCHANGED result
  /\ UNCHANGED <<opHolder, op, bundle, ctxDone, target, termError, mgrVars, childVars, configVars>>

CommitGoneRuns(c) ==
  /\ pc[c] = "commit" /\ process # target[c]
  /\ status' = [status EXCEPT !.state = "running", !.healthy = TRUE]
  /\ IF InStartup(c)
     THEN Goto(c, "endStart") /\ result' = [result EXCEPT ![c] = "ok"]
     ELSE Finish(c, "ok")
  /\ UNCHANGED <<opHolder, op, bundle, ctxDone, target, termError>>
  /\ UNCHANGED <<process, generation, startCancel, cancelled, closing, closed, childVars, configVars>>

\* The child exited after the probe: its reaper has already written the status.
CommitGone(c) ==
  /\ pc[c] = "commit" /\ process # target[c]
  /\ IF InStartup(c)
     THEN Goto(c, "endStart") /\ result' = [result EXCEPT ![c] = "error"]
     ELSE Finish(c, "error")
  /\ UNCHANGED <<opHolder, op, bundle, ctxDone, target, termError, mgrVars, childVars, configVars>>

CommitExited(c) ==
  /\ pc[c] = "commit" /\ process = target[c] /\ Exited(target[c])
  /\ Goto(c, "condemn")
  /\ UNCHANGED <<opHolder, op, bundle, result, ctxDone, target, termError, mgrVars, childVars, configVars>>

CommitRunning(c) ==
  /\ pc[c] = "commit" /\ process = target[c] /\ ~Exited(target[c])
  /\ status' = [status EXCEPT !.state = "running", !.healthy = TRUE]
  /\ IF InStartup(c)
     THEN Goto(c, "endStart") /\ result' = [result EXCEPT ![c] = "ok"]
     ELSE Finish(c, "ok")
  /\ UNCHANGED <<opHolder, op, bundle, ctxDone, target, termError>>
  /\ UNCHANGED <<process, generation, startCancel, cancelled, closing, closed, childVars, configVars>>

\* startedProcessFailure: condemn the child if it is still the owned one, then
\* terminate it either way.
Condemn(c) ==
  /\ pc[c] = "condemn"
  /\ IF process = target[c]
     THEN /\ desired' = [desired EXCEPT ![process] = "failed"]
          /\ status' = [status EXCEPT !.state = "failed", !.healthy = FALSE]
     ELSE UNCHANGED <<desired, status>>
  /\ Terminate(c)
  /\ Goto(c, "await")
  /\ UNCHANGED <<opHolder, op, bundle, result, ctxDone, target>>
  /\ UNCHANGED <<process, generation, startCancel, cancelled, closing, closed, child, reaper, configVars>>

StartFailure(c) ==
  /\ pc[c] = "fail"
  /\ status' = [status EXCEPT !.state = "failed", !.pid = 0, !.healthy = FALSE]
  /\ result' = [result EXCEPT ![c] = "error"]
  /\ Goto(c, "endStart")
  /\ UNCHANGED <<opHolder, op, bundle, ctxDone, target, termError>>
  /\ UNCHANGED <<process, generation, startCancel, cancelled, closing, closed, childVars, configVars>>

\* The deferred calls: give back a file no child took, forget the cancel.
EndStart(c) ==
  /\ pc[c] = "endStart"
  /\ IF held[c] # None THEN Configs!Release(c) ELSE UNCHANGED configVars
  /\ startCancel' = 0 /\ cancelled' = FALSE
  /\ Goto(c, "unlock")
  /\ UNCHANGED <<opHolder, op, bundle, result, ctxDone, target, termError>>
  /\ UNCHANGED <<status, process, generation, closing, closed, childVars>>

-----------------------------------------------------------------------------
(* Check: the same verification with no child, status untouched *)

CheckAcquire(c) ==
  /\ pc[c] = "checkAcquire"
  /\ \/ ~ctxDone[c] /\ Configs!Acquire(c, bundle[c]) /\ Goto(c, "checkRun") /\ UNCHANGED result
     \/ Configs!AcquireFails(c, bundle[c]) /\ Finish(c, "error")
  /\ UNCHANGED <<opHolder, op, bundle, ctxDone, target, termError, mgrVars, childVars>>

CheckRun(c) ==
  /\ pc[c] = "checkRun"
  /\ Configs!Release(c)
  /\ \E outcome \in {"ok", "error"} :
       (outcome = "ok" => ~ctxDone[c]) /\ Finish(c, outcome)
  /\ UNCHANGED <<opHolder, op, bundle, ctxDone, target, termError, mgrVars, childVars>>

-----------------------------------------------------------------------------
(* The child and its reaper *)

ChildExits(g) ==
  /\ child[g] \in {"alive", "killed"}
  /\ child' = [child EXCEPT ![g] = "dead"]
  /\ UNCHANGED <<callVars, mgrVars, reaper, desired, configVars>>

\* child.Wait returned: close(process.exited).
ReapExit(g) ==
  /\ reaper[g] = "waiting" /\ child[g] = "dead"
  /\ reaper' = [reaper EXCEPT ![g] = "exited"]
  /\ UNCHANGED <<callVars, mgrVars, child, desired, configVars>>

ReapRelease(g) ==
  /\ reaper[g] = "exited"
  /\ reaper' = [reaper EXCEPT ![g] = "released"]
  /\ Configs!Release(g)
  /\ UNCHANGED <<callVars, mgrVars, child, desired>>

ReapSettle(g) ==
  /\ reaper[g] = "released"
  /\ reaper' = [reaper EXCEPT ![g] = "settled"]
  /\ IF process = g
     THEN /\ status' = [status EXCEPT !.state = desired[g], !.pid = 0, !.healthy = FALSE]
          /\ process' = 0
     ELSE UNCHANGED <<status, process>>
  /\ UNCHANGED <<callVars, generation, startCancel, cancelled, closing, closed, child, desired, configVars>>

\* close(process.done) and waitGroup.Done.
ReapDone(g) ==
  /\ reaper[g] = "settled"
  /\ reaper' = [reaper EXCEPT ![g] = "done"]
  /\ UNCHANGED <<callVars, mgrVars, child, desired, configVars>>

-----------------------------------------------------------------------------

\* The steps by which a call proceeds on its own, in the order of the code.
Proceed(c) ==
  \/ CancelStartup(c) \/ MarkClosing(c) \/ Enter(c) \/ Wait(c)
  \/ StopNothing(c) \/ StopChild(c) \/ ChildDone(c) \/ WaitAbandoned(c) \/ GraceExpired(c)
  \/ Begin(c) \/ StepFails(c) \/ VerifyArtifact(c)
  \/ \E v \in Bundles : VerifyVersion(c, v)
  \/ AcquireConfig(c) \/ CheckConfig(c) \/ Spawn(c) \/ Adopt(c)
  \/ ProbeHealthy(c) \/ ProbeFails(c)
  \/ CommitGone(c) \/ CommitExited(c) \/ CommitRunning(c)
  \/ Condemn(c) \/ StartFailure(c) \/ EndStart(c)
  \/ CheckAcquire(c) \/ CheckRun(c) \/ Unlock(c)

Reap(g) == ReapExit(g) \/ ReapRelease(g) \/ ReapSettle(g) \/ ReapDone(g)

Next ==
  \/ \E c \in Callers, o \in Operations, b \in Bundles : Call(c, o, b)
  \/ \E c \in Callers : EndContext(c) \/ Proceed(c)
  \/ \E g \in Children : ChildExits(g) \/ Reap(g)

Spec == Init /\ [][Next]_vars

(***************************************************************************)
(* Goroutines are scheduled, operationMu is handed over fairly (Go's       *)
(* mutex serves a waiter that starved for a millisecond), subprocesses and *)
(* probes end on their own or with their context, and a killed process     *)
(* dies.  A child that was not killed may live forever, callers need not   *)
(* call and contexts need not end.                                         *)
(***************************************************************************)
Fairness ==
  /\ \A c \in Callers : WF_vars(Proceed(c)) /\ SF_vars(Enter(c))
  /\ \A g \in Children : WF_vars(Reap(g)) /\ WF_vars(child[g] = "killed" /\ ChildExits(g))

FairSpec == Spec /\ Fairness

-----------------------------------------------------------------------------
(* Properties *)

Living == {g \in Children : child[g] \in {"alive", "killed"}}

(***************************************************************************)
(* "Manager owns the lifecycle of exactly one sing-box child process": a   *)
(* child lives only as the latest one, and from its adoption until its     *)
(* reaper has settled it is manager.process.                               *)
(***************************************************************************)
OneOwnedChild ==
  /\ \A g \in Living : g = generation
  /\ \A g \in Children : reaper[g] \in {"waiting", "exited", "released"} <=> process = g

(***************************************************************************)
(* The live identity never mixes two starts: while Running is reported,    *)
(* artifact and version are those verified for the reported bundle and the *)
(* child reads that bundle's file, which is still on disk if it lives.     *)
(***************************************************************************)
RunningIsVerified ==
  process # 0 /\ status.state = "running" =>
    /\ status.artifact = status.bundle /\ status.version = status.bundle
    /\ status.healthy /\ status.pid = process
    /\ ~(reaper[process] = "waiting" /\ held[process] # status.bundle)
    /\ child[process] # "dead" => status.bundle \in disk

(***************************************************************************)
(* When a call returns, before operationMu is free again, the status tells *)
(* its outcome: after a successful Stop, Close or stop of a Restart there  *)
(* is no child at all; a failed startup leaves "failed"; a successful one  *)
(* "running" unless the child died since, whatever other calls cancelled.  *)
(***************************************************************************)
ReturnsTellTheTruth ==
  \A c \in Callers : pc[c] = "unlock" /\ opHolder = c =>
    /\ op[c] \in {"stop", "close"} /\ result[c] = "ok" =>
         status.state = "stopped" /\ process = 0 /\ Living = {}
    /\ op[c] = "start" /\ result[c] = "error" => status.state = "failed"
    /\ op[c] = "start" /\ result[c] = "ok" =>
         \/ status.state = "running"
         \/ status.state = "failed" /\ process = 0

\* A running startup configuration file is never removed under its child.
LivingChildKeepsFile ==
  \A g \in Living : \E h \in Callers \cup Children : held[h] # None /\ held[h] \in disk
                      /\ (h = g \/ (opHolder = h /\ pc[h] = "adopt"))

\* The same, in states of the declared types.
LivingChildrenKeepFiles == TypeOK /\ LivingChildKeepsFile

(***************************************************************************)
(* After Close no child is ever started: a Restart or Start queued behind  *)
(* operationMu, or past its own check, cannot spawn one.                   *)
(***************************************************************************)
ClosedIsFinal ==
  [][closed => \A g \in Children : child[g] = "none" => child'[g] = "none"]_vars

(***************************************************************************)
(* Every call returns, also a Stop whose child ignores SIGTERM: nobody     *)
(* waits on a lock whose holder waits for him.                             *)
(***************************************************************************)
CallsReturn == \A c \in Callers : pc[c] # "idle" ~> pc[c] = "idle"

\* What the manager implements.
SlotOf(g) ==
  IF g = 0 \/ child[g] = "none" \/ reaper[g] \in {"settled", "done"} THEN "empty"
  ELSE IF child[g] = "dead" THEN "dead" ELSE "alive"

Abstract == INSTANCE OwnedChild
  WITH slot <- SlotOf(generation),
       spawned <- Cardinality({g \in Children : child[g] # "none"}),
       announced <- status.state,
       shut <- closed

ImplementsOwnedChild == Abstract!Spec

=============================================================================
