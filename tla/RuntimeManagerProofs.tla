------------------------ MODULE RuntimeManagerProofs ------------------------
(***************************************************************************)
(* Proofs about RuntimeManager for every set of callers and bundles and    *)
(* every number of startups: the manager owns one child, none begins after *)
(* Close, and what it tells its callers is so: the status it reports, what *)
(* a call returns, and the configuration file under a child.               *)
(*                                                                         *)
(* OneOwnedChild is not inductive.  It needs to know who holds the         *)
(* operation lock at each step (LockInv), that a startup finds no process  *)
(* and names a child not yet used (StartupInv, GenerationInv), that a      *)
(* captured process is the owned one or gone (TargetInv), and that a       *)
(* living child has its reaper or is about to be adopted (LivingInv).      *)
(*                                                                         *)
(* ManagerInv and StateInv say who runs which step.  In the second half    *)
(* each step is tied to its operation (OperationInv) and to the startup    *)
(* whose cancel function the manager keeps (CancelInv); a condemned or     *)
(* stopped child will be settled as the call that waits for it promises    *)
(* (OutcomeInv); handles pass from the call to its child with the file     *)
(* (HandleInv); and the status fills up in the order of the verification   *)
(* (VerifiedInv).                                                          *)
(***************************************************************************)
EXTENDS RuntimeManager, FiniteSetTheorems, TLAPS

\* The steps outside operationMu; at "unlock" a call holds it unless it was
\* Wait, and at all other steps it does.
FreeSteps == {"idle", "cancel", "closing", "lock", "waiting"}
LockedSteps == Steps \ (FreeSteps \cup {"unlock"})

ControlTypes ==
  /\ opHolder \in Callers \cup {None}
  /\ pc \in [Callers -> Steps]
  /\ op \in [Callers -> Operations \cup {None}]
  /\ target \in [Callers -> Children \cup {0}]
  /\ process \in Children \cup {0}
  /\ generation \in Children \cup {0}
  /\ closed \in BOOLEAN
  /\ child \in [Children -> {"none", "alive", "killed", "dead"}]
  /\ reaper \in [Children -> {"none", "waiting", "exited", "released", "settled", "done"}]

LockInv ==
  \A c \in Callers : /\ pc[c] \in LockedSteps => opHolder = c
                     /\ pc[c] \in FreeSteps => opHolder # c

Unspawned == {"verify", "version", "acquire", "check", "spawn"}

StartupInv ==
  \A c \in Callers :
    /\ pc[c] \in Unspawned \cup {"begin", "adopt", "fail"} => process = 0
    /\ pc[c] \in Unspawned \cup {"begin"} => op[c] \in {"start", "restart"}
    /\ pc[c] \in Unspawned \cup {"adopt"} => generation # 0 /\ reaper[generation] = "none"
    /\ pc[c] \in Unspawned => child[generation] = "none"
    /\ pc[c] = "adopt" => child[generation] # "none"

TargetInv ==
  \A c \in Callers :
    pc[c] \in {"probe", "commit", "condemn", "await", "awaitKilled"} =>
      target[c] # 0 /\ process \in {0, target[c]}

GenerationInv ==
  /\ process \in {0, generation}
  /\ \A g \in Children : g > generation => child[g] = "none" /\ reaper[g] = "none"

ReaperInv ==
  \A g \in Children : reaper[g] \in {"waiting", "exited", "released"} <=> process = g

LivingInv ==
  \A g \in Living :
    \/ reaper[g] = "waiting"
    \/ g = generation /\ opHolder \in Callers /\ pc[opHolder] = "adopt"

ClosedInv ==
  closed => \A c \in Callers : pc[c] \in LockedSteps => op[c] \notin {"start", "restart"}

ManagerInv ==
  /\ ControlTypes /\ LockInv /\ StartupInv /\ TargetInv /\ GenerationInv
  /\ ReaperInv /\ LivingInv /\ ClosedInv

\* Where a call goes when the child it waited for is gone or given up: only a
\* successful stop goes on to a startup, and only Close closes.
LEMMA TerminatedMoves ==
  ASSUME ControlTypes, NEW c \in Callers, NEW ok \in BOOLEAN, Terminated(c, ok)
  PROVE  /\ \/ pc' = [pc EXCEPT ![c] = "endStart"]
            \/ pc' = [pc EXCEPT ![c] = "unlock"]
            \/ ok /\ op[c] = "restart" /\ pc' = [pc EXCEPT ![c] = "begin"]
         /\ closed' \in BOOLEAN
         /\ closed' => closed \/ (op[c] = "close" /\ pc' = [pc EXCEPT ![c] = "unlock"])
<1>1. CASE AfterStop(c, ok)
  <2>1. closed' \in BOOLEAN /\ (closed' => closed \/ op[c] = "close")
    BY <1>1, Zenon DEF AfterStop
  <2>2. CASE ok /\ op[c] = "restart"
    <3>1. pc' = [pc EXCEPT ![c] = "begin"] /\ op[c] # "close"
      BY <1>1, <2>2 DEF AfterStop, Goto
    <3> QED
      BY <2>1, <2>2, <3>1, Zenon
  <2>3. CASE ~(ok /\ op[c] = "restart")
    BY <1>1, <2>1, <2>3 DEF AfterStop, Finish, Goto
  <2> QED
    BY <2>2, <2>3
<1>2. CASE UNCHANGED closed /\ (Goto(c, "endStart") \/ Finish(c, "error"))
  <2>1. closed' \in BOOLEAN /\ (closed' => closed)
    BY <1>2 DEF ControlTypes
  <2>2. \/ pc' = [pc EXCEPT ![c] = "endStart"]
        \/ pc' = [pc EXCEPT ![c] = "unlock"]
    BY <1>2 DEF Goto, Finish
  <2> QED
    BY <2>1, <2>2, Zenon
<1> QED
  BY <1>1, <1>2 DEF Terminated

\* Types, which the rest of the step takes for granted.
LEMMA ProceedTypes ==
  ASSUME ControlTypes, NEW c \in Callers, Proceed(c)
  PROVE  ControlTypes'
<1> USE ManagerAssumption DEF ControlTypes, Steps, Children, Operations, mgrVars, childVars, Goto, Finish
<1>1. CASE CancelStartup(c)
  BY <1>1 DEF CancelStartup
<1>2. CASE MarkClosing(c)
  BY <1>2 DEF MarkClosing
<1>3. CASE Enter(c)
  <2>1. PICK s \in Steps : pc' = [pc EXCEPT ![c] = s]
    BY <1>3 DEF Enter
  <2>2. target' \in [Callers -> Children \cup {0}]
    BY <1>3 DEF Enter
  <2> QED
    BY <1>3, <2>1, <2>2 DEF Enter
<1>4. CASE Wait(c)
  BY <1>4 DEF Wait
<1>5. CASE StopNothing(c)
  BY <1>5 DEF StopNothing, AfterStop
<1>6. CASE StopChild(c)
  BY <1>6 DEF StopChild
<1>7. CASE ChildDone(c)
  <2>1. Terminated(c, ~termError[c])
    BY <1>7 DEF ChildDone
  <2>2. closed' \in BOOLEAN /\ pc' \in [Callers -> Steps]
    BY <2>1, TerminatedMoves
  <2> QED
    BY <1>7, <2>2 DEF ChildDone
<1>8. CASE WaitAbandoned(c)
  <2>1. Terminated(c, FALSE)
    BY <1>8 DEF WaitAbandoned
  <2>2. closed' \in BOOLEAN /\ pc' \in [Callers -> Steps]
    BY <2>1, TerminatedMoves
  <2> QED
    BY <1>8, <2>2 DEF WaitAbandoned, Kill
<1>9. CASE GraceExpired(c)
  <2>1. CASE Goto(c, "awaitKilled") /\ UNCHANGED closed
    BY <1>9, <2>1 DEF GraceExpired, Kill
  <2>2. CASE Terminated(c, FALSE)
    <3>1. closed' \in BOOLEAN /\ pc' \in [Callers -> Steps]
      BY <2>2, TerminatedMoves
    <3>2. child' \in [Children -> {"none", "alive", "killed", "dead"}]
      <4>1. CASE Kill(target[c])
        BY <4>1 DEF Kill
      <4> QED
        BY <1>9, <4>1 DEF GraceExpired
    <3> QED
      BY <1>9, <3>1, <3>2 DEF GraceExpired
  <2> QED
    BY <1>9, <2>1, <2>2 DEF GraceExpired
<1>10. CASE Begin(c)
  BY <1>10 DEF Begin
<1>11. CASE StepFails(c)
  BY <1>11 DEF StepFails
<1>12. CASE VerifyArtifact(c)
  BY <1>12 DEF VerifyArtifact
<1>13. CASE AcquireConfig(c)
  BY <1>13 DEF AcquireConfig
<1>14. CASE CheckConfig(c)
  BY <1>14 DEF CheckConfig
<1>15. CASE Spawn(c)
  BY <1>15 DEF Spawn
<1>16. CASE Adopt(c)
  BY <1>16 DEF Adopt
<1>17. CASE ProbeHealthy(c)
  BY <1>17 DEF ProbeHealthy
<1>18. CASE ProbeFails(c)
  BY <1>18 DEF ProbeFails
<1>19. CASE CommitGone(c)
  BY <1>19 DEF CommitGone
<1>20. CASE CommitExited(c)
  BY <1>20 DEF CommitExited
<1>21. CASE CommitRunning(c)
  BY <1>21 DEF CommitRunning
<1>22. CASE Condemn(c)
  BY <1>22 DEF Condemn
<1>23. CASE StartFailure(c)
  BY <1>23 DEF StartFailure
<1>24. CASE EndStart(c)
  BY <1>24 DEF EndStart
<1>25. CASE CheckAcquire(c)
  BY <1>25 DEF CheckAcquire
<1>26. CASE CheckRun(c)
  BY <1>26 DEF CheckRun
<1>27. CASE Unlock(c)
  BY <1>27 DEF Unlock
<1>28. CASE \E v \in Bundles : VerifyVersion(c, v)
  BY <1>28 DEF VerifyVersion
<1> QED
  BY <1>1, <1>2, <1>3, <1>4, <1>5, <1>6, <1>7, <1>8, <1>9, <1>10, <1>11, <1>12, <1>13, <1>14, <1>15, <1>16, <1>17, <1>18, <1>19, <1>20, <1>21, <1>22, <1>23, <1>24, <1>25, <1>26, <1>27, <1>28 DEF Proceed

\* A step of a call keeps the invariant.
LEMMA ProceedInv ==
  ASSUME ManagerInv, NEW c \in Callers, Proceed(c)
  PROVE  ManagerInv'
<1>0. ControlTypes'
  BY ProceedTypes DEF ManagerInv
<1> USE ManagerAssumption, <1>0 DEF ManagerInv, ControlTypes, LockInv, StartupInv, TargetInv,
        GenerationInv, ReaperInv, LivingInv, ClosedInv, Living, Steps, FreeSteps, LockedSteps,
        Unspawned, Children, Operations, mgrVars, childVars, Goto, Finish
<1>1. CASE CancelStartup(c)
  BY <1>1 DEF CancelStartup
<1>2. CASE MarkClosing(c)
  BY <1>2 DEF MarkClosing
<1>3. CASE Enter(c)
  <2>10. ControlTypes'
    BY <1>0
  <2>11. LockInv'
    BY <1>3 DEF Enter, Refused, Blocked
  <2>12. StartupInv'
    BY <1>3 DEF Enter, Refused, Blocked
  <2>13. TargetInv'
    BY <1>3 DEF Enter, Refused, Blocked
  <2>14. GenerationInv'
    BY <1>3 DEF Enter, Refused, Blocked
  <2>15. ReaperInv'
    BY <1>3 DEF Enter, Refused, Blocked
  <2>16. LivingInv'
    BY <1>3 DEF Enter, Refused, Blocked
  <2>17. ClosedInv'
    BY <1>3 DEF Enter, Refused, Blocked
  <2> QED
    BY <2>10, <2>11, <2>12, <2>13, <2>14, <2>15, <2>16, <2>17
<1>4. CASE Wait(c)
  <2>1. pc' = [pc EXCEPT ![c] = "unlock"] /\ pc[c] = "waiting"
    BY <1>4 DEF Wait
  <2>2. UNCHANGED <<opHolder, op, target, process, generation, closed, child, reaper>>
    BY <1>4 DEF Wait
  <2> QED
    BY <2>1, <2>2
<1>5. CASE StopNothing(c)
  <2>1. /\ \/ pc' = [pc EXCEPT ![c] = "begin"] /\ op[c] = "restart"
           \/ pc' = [pc EXCEPT ![c] = "unlock"]
        /\ closed' = (closed \/ op[c] = "close")
        /\ pc[c] = "stop" /\ process = 0
    BY <1>5 DEF StopNothing, AfterStop
  <2>2. UNCHANGED <<opHolder, op, target, process, generation, child, reaper>>
    BY <1>5 DEF StopNothing
  <2>3. ControlTypes'
    BY <1>0
  <2>4. LockInv'
    BY <2>1, <2>2
  <2>5. StartupInv'
    BY <2>1, <2>2
  <2>6. TargetInv'
    BY <2>1, <2>2
  <2>7. GenerationInv'
    BY <2>1, <2>2
  <2>8. ReaperInv'
    BY <2>2
  <2>9. LivingInv'
    BY <2>1, <2>2
  <2>10. ClosedInv'
    BY <2>1, <2>2
  <2> QED
    BY <2>3, <2>4, <2>5, <2>6, <2>7, <2>8, <2>9, <2>10
<1>6. CASE StopChild(c)
  BY <1>6 DEF StopChild, Terminate
<1>7. CASE ChildDone(c)
  <2>1. Terminated(c, ~termError[c])
    BY <1>7 DEF ChildDone
  <2>2. /\ \/ pc' = [pc EXCEPT ![c] = "endStart"]
           \/ pc' = [pc EXCEPT ![c] = "unlock"]
           \/ ~termError[c] /\ op[c] = "restart" /\ pc' = [pc EXCEPT ![c] = "begin"]
        /\ closed' \in BOOLEAN
        /\ closed' => closed \/ (op[c] = "close" /\ pc' = [pc EXCEPT ![c] = "unlock"])
    BY <2>1, TerminatedMoves
  <2>3. ControlTypes'
    BY <1>0
  <2>4. LockInv'
    BY <1>7, <2>2 DEF ChildDone
  <2>5. StartupInv'
    BY <1>7, <2>2 DEF ChildDone
  <2>6. TargetInv'
    BY <1>7, <2>2 DEF ChildDone
  <2>7. GenerationInv'
    BY <1>7, <2>2 DEF ChildDone
  <2>8. ReaperInv'
    BY <1>7, <2>2 DEF ChildDone
  <2>9. LivingInv'
    BY <1>7, <2>2 DEF ChildDone
  <2>10. ClosedInv'
    BY <1>7, <2>2 DEF ChildDone
  <2> QED
    BY <2>3, <2>4, <2>5, <2>6, <2>7, <2>8, <2>9, <2>10
<1>8. CASE WaitAbandoned(c)
  <2>1. Terminated(c, FALSE)
    BY <1>8 DEF WaitAbandoned
  <2>2. /\ \/ pc' = [pc EXCEPT ![c] = "endStart"]
           \/ pc' = [pc EXCEPT ![c] = "unlock"]
           \/ FALSE /\ op[c] = "restart" /\ pc' = [pc EXCEPT ![c] = "begin"]
        /\ closed' \in BOOLEAN
        /\ closed' => closed \/ (op[c] = "close" /\ pc' = [pc EXCEPT ![c] = "unlock"])
    BY <2>1, TerminatedMoves
  <2>3. ControlTypes'
    BY <1>0
  <2>4. LockInv'
    BY <1>8, <2>2 DEF WaitAbandoned, Kill
  <2>5. StartupInv'
    BY <1>8, <2>2 DEF WaitAbandoned, Kill
  <2>6. TargetInv'
    BY <1>8, <2>2 DEF WaitAbandoned, Kill
  <2>7. GenerationInv'
    BY <1>8, <2>2 DEF WaitAbandoned, Kill
  <2>8. ReaperInv'
    BY <1>8, <2>2 DEF WaitAbandoned, Kill
  <2>9. LivingInv'
    BY <1>8, <2>2 DEF WaitAbandoned, Kill
  <2>10. ClosedInv'
    BY <1>8, <2>2 DEF WaitAbandoned, Kill
  <2> QED
    BY <2>3, <2>4, <2>5, <2>6, <2>7, <2>8, <2>9, <2>10
<1>9. CASE GraceExpired(c)
  <2>1. CASE Kill(target[c]) /\ Goto(c, "awaitKilled") /\ UNCHANGED closed
    BY <1>9, <2>1 DEF GraceExpired, Kill
  <2>2. CASE Terminated(c, FALSE) /\ UNCHANGED child
    <3>1. /\ \/ pc' = [pc EXCEPT ![c] = "endStart"]
             \/ pc' = [pc EXCEPT ![c] = "unlock"]
          /\ closed' \in BOOLEAN
          /\ closed' => closed \/ (op[c] = "close" /\ pc' = [pc EXCEPT ![c] = "unlock"])
      BY <2>2, TerminatedMoves
    <3> QED
      BY <1>9, <2>2, <3>1 DEF GraceExpired
  <2> QED
    BY <1>9, <2>1, <2>2 DEF GraceExpired
<1>10. CASE Begin(c)
  <2>10. ControlTypes'
    BY <1>0
  <2>11. LockInv'
    BY <1>10 DEF Begin
  <2>12. StartupInv'
    BY <1>10 DEF Begin
  <2>13. TargetInv'
    BY <1>10 DEF Begin
  <2>14. GenerationInv'
    BY <1>10 DEF Begin
  <2>15. ReaperInv'
    BY <1>10 DEF Begin
  <2>16. LivingInv'
    BY <1>10 DEF Begin
  <2>17. ClosedInv'
    BY <1>10 DEF Begin
  <2> QED
    BY <2>10, <2>11, <2>12, <2>13, <2>14, <2>15, <2>16, <2>17
<1>11. CASE StepFails(c)
  BY <1>11 DEF StepFails
<1>12. CASE VerifyArtifact(c)
  BY <1>12 DEF VerifyArtifact
<1>13. CASE AcquireConfig(c)
  BY <1>13 DEF AcquireConfig
<1>14. CASE CheckConfig(c)
  BY <1>14 DEF CheckConfig
<1>15. CASE Spawn(c)
  <2>10. ControlTypes'
    BY <1>0
  <2>11. LockInv'
    BY <1>15 DEF Spawn
  <2>12. StartupInv'
    BY <1>15 DEF Spawn
  <2>13. TargetInv'
    BY <1>15 DEF Spawn
  <2>14. GenerationInv'
    BY <1>15 DEF Spawn
  <2>15. ReaperInv'
    BY <1>15 DEF Spawn
  <2>16. LivingInv'
    <3>1. opHolder = c /\ opHolder' = c /\ pc'[c] = "adopt"
      BY <1>15 DEF Spawn
    <3>2. \A g \in Children : child[g] \notin {"alive", "killed"} \/ reaper[g] = "waiting"
      BY <1>15, <3>1 DEF Spawn
    <3> QED
      BY <1>15, <3>1, <3>2 DEF Spawn
  <2>17. ClosedInv'
    BY <1>15 DEF Spawn
  <2> QED
    BY <2>10, <2>11, <2>12, <2>13, <2>14, <2>15, <2>16, <2>17
<1>16. CASE Adopt(c)
  <2>10. ControlTypes'
    BY <1>0
  <2>11. LockInv'
    BY <1>16 DEF Adopt
  <2>12. StartupInv'
    BY <1>16 DEF Adopt
  <2>13. TargetInv'
    <3>1. \A d \in Callers : d # c => pc[d] \notin LockedSteps
      BY <1>16 DEF Adopt
    <3>2. target'[c] = generation /\ process' = generation /\ generation # 0
      BY <1>16 DEF Adopt
    <3>3. ASSUME NEW d \in Callers, d # c PROVE pc'[d] \notin LockedSteps
      BY <1>16, <3>1, <3>3 DEF Adopt
    <3>4. ASSUME NEW d \in Callers,
                 pc'[d] \in {"probe", "commit", "condemn", "await", "awaitKilled"}
          PROVE  d = c
      BY <3>3, <3>4
    <3> QED
      BY <3>2, <3>4
  <2>14. GenerationInv'
    BY <1>16 DEF Adopt
  <2>15. ReaperInv'
    BY <1>16 DEF Adopt
  <2>16. LivingInv'
    BY <1>16 DEF Adopt
  <2>17. ClosedInv'
    BY <1>16 DEF Adopt
  <2> QED
    BY <2>10, <2>11, <2>12, <2>13, <2>14, <2>15, <2>16, <2>17
<1>17. CASE ProbeHealthy(c)
  BY <1>17 DEF ProbeHealthy
<1>18. CASE ProbeFails(c)
  <2>10. ControlTypes'
    BY <1>0
  <2>11. LockInv'
    BY <1>18 DEF ProbeFails
  <2>12. StartupInv'
    BY <1>18 DEF ProbeFails
  <2>13. TargetInv'
    BY <1>18 DEF ProbeFails
  <2>14. GenerationInv'
    BY <1>18 DEF ProbeFails
  <2>15. ReaperInv'
    BY <1>18 DEF ProbeFails
  <2>16. LivingInv'
    BY <1>18 DEF ProbeFails
  <2>17. ClosedInv'
    BY <1>18 DEF ProbeFails
  <2> QED
    BY <2>10, <2>11, <2>12, <2>13, <2>14, <2>15, <2>16, <2>17
<1>19. CASE CommitGone(c)
  BY <1>19 DEF CommitGone
<1>20. CASE CommitExited(c)
  BY <1>20 DEF CommitExited
<1>21. CASE CommitRunning(c)
  BY <1>21 DEF CommitRunning
<1>22. CASE Condemn(c)
  BY <1>22 DEF Condemn, Terminate
<1>23. CASE StartFailure(c)
  BY <1>23 DEF StartFailure
<1>24. CASE EndStart(c)
  BY <1>24 DEF EndStart
<1>25. CASE CheckAcquire(c)
  BY <1>25 DEF CheckAcquire
<1>26. CASE CheckRun(c)
  BY <1>26 DEF CheckRun
<1>27. CASE Unlock(c)
  BY <1>27 DEF Unlock
<1>28. CASE \E v \in Bundles : VerifyVersion(c, v)
  BY <1>28 DEF VerifyVersion
<1> QED
  BY <1>1, <1>2, <1>3, <1>4, <1>5, <1>6, <1>7, <1>8, <1>9, <1>10, <1>11, <1>12, <1>13, <1>14, <1>15, <1>16, <1>17, <1>18, <1>19, <1>20, <1>21, <1>22, <1>23, <1>24, <1>25, <1>26, <1>27, <1>28 DEF Proceed

\* The steps the manager does not decide: a new call, the end of a context,
\* the end of the child.
LEMMA OutsideInv ==
  ASSUME ManagerInv,
         \/ \E c \in Callers, o \in Operations, b \in Bundles : Call(c, o, b)
         \/ \E c \in Callers : EndContext(c)
         \/ \E g \in Children : ChildExits(g)
  PROVE  ManagerInv'
<1> USE DEF ManagerInv, ControlTypes, LockInv, StartupInv, TargetInv, GenerationInv, ReaperInv,
        LivingInv, ClosedInv, Living, Steps, FreeSteps, LockedSteps, Unspawned, mgrVars
<1>1. ASSUME NEW c \in Callers, NEW o \in Operations, NEW b \in Bundles, Call(c, o, b)
      PROVE  ManagerInv'
  <2>1. PICK s \in {"cancel", "closing", "waiting", "lock"} :
          pc[c] = "idle" /\ pc' = [pc EXCEPT ![c] = s]
    BY <1>1 DEF Call, Goto
  <2>2. op' = [op EXCEPT ![c] = o]
    BY <1>1 DEF Call
  <2>3. UNCHANGED <<opHolder, target, process, generation, closed, child, reaper>>
    BY <1>1 DEF Call, childVars
  <2> QED
    BY <2>1, <2>2, <2>3
<1>2. ASSUME NEW c \in Callers, EndContext(c) PROVE ManagerInv'
  BY <1>2 DEF EndContext, childVars
<1>3. ASSUME NEW g \in Children, ChildExits(g) PROVE ManagerInv'
  BY <1>3 DEF ChildExits, callVars
<1> QED
  BY <1>1, <1>2, <1>3

\* The reaper of a child, step by step.
LEMMA ReapInv ==
  ASSUME ManagerInv, NEW g \in Children, Reap(g)
  PROVE  ManagerInv'
<1> USE DEF ManagerInv, ControlTypes, LockInv, StartupInv, TargetInv, GenerationInv, ReaperInv,
        LivingInv, ClosedInv, Living, Steps, FreeSteps, LockedSteps, Unspawned, Children,
        callVars, mgrVars
<1>1. CASE ReapExit(g)
  BY <1>1 DEF ReapExit
<1>2. CASE ReapRelease(g)
  BY <1>2 DEF ReapRelease
<1>3. CASE ReapSettle(g)
  <2>1. process = g /\ process' = 0 /\ child[g] \notin {"alive", "killed"}
    BY <1>3 DEF ReapSettle
  <2> QED
    BY <1>3, <2>1 DEF ReapSettle
<1>4. CASE ReapDone(g)
  BY <1>4 DEF ReapDone
<1> QED
  BY <1>1, <1>2, <1>3, <1>4 DEF Reap

\* The inductive invariant holds: who holds which lock, which child is whose, and
\* which reaper is at work are consistent through every interleaving of the calls.
THEOREM ManagerInvariant == Spec => []ManagerInv
<1>1. Init => ManagerInv
  <2> SUFFICES ASSUME Init PROVE ManagerInv
    OBVIOUS
  <2> USE ManagerAssumption DEF Init, Steps
  <2>1. ControlTypes
    BY DEF ControlTypes
  <2>2. LockInv
    BY DEF LockInv, FreeSteps, LockedSteps
  <2>3. StartupInv /\ TargetInv
    BY DEF StartupInv, TargetInv, Unspawned
  <2>4. GenerationInv /\ ReaperInv /\ LivingInv
    BY DEF GenerationInv, ReaperInv, LivingInv, Living, Children
  <2>5. ClosedInv
    BY DEF ClosedInv
  <2> QED
    BY <2>1, <2>2, <2>3, <2>4, <2>5 DEF ManagerInv
<1>2. ManagerInv /\ [Next]_vars => ManagerInv'
  <2> SUFFICES ASSUME ManagerInv, [Next]_vars PROVE ManagerInv'
    OBVIOUS
  <2>1. CASE UNCHANGED vars
    BY <2>1 DEF vars, callVars, mgrVars, childVars, ManagerInv, ControlTypes, LockInv,
       StartupInv, TargetInv, GenerationInv, ReaperInv, LivingInv, ClosedInv, Living
  <2>2. CASE Next
    BY <2>2, ProceedInv, OutsideInv, ReapInv DEF Next
  <2> QED
    BY <2>1, <2>2
<1> QED
  BY <1>1, <1>2, PTL DEF Spec

(***************************************************************************)
(* "Manager owns the lifecycle of exactly one sing-box child process":     *)
(* two startups never have living children at once, and a child is         *)
(* manager.process from its adoption until its reaper has settled it.      *)
(***************************************************************************)
THEOREM ManagerOwnsOneChild == Spec => []OneOwnedChild
<1>1. ManagerInv => OneOwnedChild
  <2> SUFFICES ASSUME ManagerInv PROVE OneOwnedChild
    OBVIOUS
  <2> USE DEF ManagerInv, ControlTypes
  <2>1. ASSUME NEW g \in Living PROVE g = generation
    <3>1. g \in Children /\ (reaper[g] = "waiting" \/ g = generation)
      BY <2>1 DEF LivingInv, Living
    <3>2. g # 0
      BY <3>1, ManagerAssumption DEF Children
    <3> QED
      BY <3>1, <3>2 DEF GenerationInv, ReaperInv
  <2> QED
    BY <2>1 DEF OneOwnedChild, ReaperInv
<1> QED
  BY <1>1, ManagerInvariant, PTL

(***************************************************************************)
(* After Close returned no child is ever started, whatever calls were      *)
(* queued behind the operation lock or past their own checks.              *)
(***************************************************************************)
THEOREM NoChildAfterClose == Spec => ClosedIsFinal
<1>1. ManagerInv /\ [Next]_vars =>
        [closed => \A g \in Children : child[g] = "none" => child'[g] = "none"]_vars
  <2> SUFFICES ASSUME ManagerInv, Next, closed, NEW g \in Children, child[g] = "none"
               PROVE  child'[g] = "none"
    BY DEF vars, childVars
  <2> USE DEF ManagerInv, ControlTypes
  <2>1. ASSUME NEW c \in Callers, Spawn(c) PROVE FALSE
    BY <2>1 DEF Spawn, ClosedInv, StartupInv, LockedSteps, Steps, FreeSteps, Unspawned
  <2>2. ASSUME NEW c \in Callers, Proceed(c) PROVE child'[g] = "none"
    BY <2>2, <2>1 DEF Proceed, CancelStartup, MarkClosing, Enter, Wait, StopNothing, StopChild,
       ChildDone, WaitAbandoned, GraceExpired, Begin, StepFails, VerifyArtifact, VerifyVersion,
       AcquireConfig, CheckConfig, Adopt, ProbeHealthy, ProbeFails, CommitGone, CommitExited,
       CommitRunning, Condemn, StartFailure, EndStart, CheckAcquire, CheckRun, Unlock, Kill,
       childVars, mgrVars
  <2>3. ASSUME NEW h \in Children, ChildExits(h) \/ Reap(h) PROVE child'[g] = "none"
    BY <2>3 DEF ChildExits, Reap, ReapExit, ReapRelease, ReapSettle, ReapDone
  <2>4. ASSUME NEW c \in Callers, EndContext(c) PROVE child'[g] = "none"
    BY <2>4 DEF EndContext, childVars
  <2>5. ASSUME NEW c \in Callers, NEW o \in Operations, NEW b \in Bundles, Call(c, o, b)
        PROVE  child'[g] = "none"
    BY <2>5 DEF Call, childVars
  <2> QED
    BY <2>2, <2>3, <2>4, <2>5 DEF Next
<1> QED
  BY <1>1, ManagerInvariant, PTL DEF Spec, ClosedIsFinal

-----------------------------------------------------------------------------
(***************************************************************************)
(* RuntimeManager implements OwnedChild for every set of callers and       *)
(* bundles and every number of startups.  Beyond ManagerInv this needs to  *)
(* know that "starting" is announced exactly while a startup runs          *)
(* (StartingInv), and what each reaper's progress says of its child        *)
(* (ReapedInv).                                                            *)
(***************************************************************************)

StatusTypes ==
  /\ status \in [state : States, bundle : Bundles \cup {None},
                 artifact : Bundles \cup {None}, version : Bundles \cup {None},
                 pid : Children \cup {0}, healthy : BOOLEAN]
  /\ bundle \in [Callers -> Bundles \cup {None}]
  /\ desired \in [Children -> {"failed", "stopped"}]

Starting == Unspawned \cup {"adopt", "fail"}
Judging == {"probe", "commit", "condemn"}

StartingInv ==
  /\ \A c \in Callers :
       pc[c] \in Starting => status.state = "starting" /\ op[c] \in {"start", "restart"}
  /\ status.state = "starting" =>
       /\ opHolder \in Callers /\ op[opHolder] \in {"start", "restart"}
       /\ pc[opHolder] \in Starting \/ (pc[opHolder] \in Judging /\ process # 0)

ReapedInv ==
  \A g \in Children :
    /\ reaper[g] \notin {"none", "waiting"} => child[g] = "dead"
    /\ reaper[g] # "none" => child[g] # "none"
    /\ reaper[g] = "none" /\ child[g] # "none" =>
         g = generation /\ opHolder \in Callers /\ pc[opHolder] = "adopt"

StateInv == StatusTypes /\ StartingInv /\ ReapedInv

\* A step of a call keeps the status well formed.
LEMMA ProceedStatusTypes ==
  ASSUME ManagerInv, StatusTypes, NEW c \in Callers, Proceed(c)
  PROVE  StatusTypes'
<1> USE ManagerAssumption DEF ManagerInv, ControlTypes, StatusTypes, States, mgrVars, childVars
<1>1. CASE CancelStartup(c)
  BY <1>1 DEF CancelStartup
<1>2. CASE MarkClosing(c)
  BY <1>2 DEF MarkClosing
<1>3. CASE Enter(c)
  BY <1>3 DEF Enter
<1>4. CASE Wait(c)
  BY <1>4 DEF Wait
<1>5. CASE StopNothing(c)
  BY <1>5 DEF StopNothing
<1>6. CASE StopChild(c)
  BY <1>6 DEF StopChild
<1>7. CASE ChildDone(c)
  BY <1>7 DEF ChildDone
<1>8. CASE WaitAbandoned(c)
  BY <1>8 DEF WaitAbandoned
<1>9. CASE GraceExpired(c)
  BY <1>9 DEF GraceExpired
<1>10. CASE Begin(c)
  BY <1>10 DEF Begin, Stopped
<1>11. CASE StepFails(c)
  BY <1>11 DEF StepFails
<1>12. CASE VerifyArtifact(c)
  BY <1>12 DEF VerifyArtifact
<1>13. CASE AcquireConfig(c)
  BY <1>13 DEF AcquireConfig
<1>14. CASE CheckConfig(c)
  BY <1>14 DEF CheckConfig
<1>15. CASE Spawn(c)
  BY <1>15 DEF Spawn
<1>16. CASE Adopt(c)
  BY <1>16 DEF Adopt
<1>17. CASE ProbeHealthy(c)
  BY <1>17 DEF ProbeHealthy
<1>18. CASE ProbeFails(c)
  BY <1>18 DEF ProbeFails
<1>19. CASE CommitGone(c)
  BY <1>19 DEF CommitGone
<1>20. CASE CommitExited(c)
  BY <1>20 DEF CommitExited
<1>21. CASE CommitRunning(c)
  BY <1>21 DEF CommitRunning
<1>22. CASE Condemn(c)
  BY <1>22 DEF Condemn
<1>23. CASE StartFailure(c)
  BY <1>23 DEF StartFailure
<1>24. CASE EndStart(c)
  BY <1>24 DEF EndStart
<1>25. CASE CheckAcquire(c)
  BY <1>25 DEF CheckAcquire
<1>26. CASE CheckRun(c)
  BY <1>26 DEF CheckRun
<1>27. CASE Unlock(c)
  BY <1>27 DEF Unlock
<1>28. CASE \E v \in Bundles : VerifyVersion(c, v)
  BY <1>28 DEF VerifyVersion
<1> QED
  BY <1>1, <1>2, <1>3, <1>4, <1>5, <1>6, <1>7, <1>8, <1>9, <1>10, <1>11, <1>12, <1>13, <1>14, <1>15, <1>16, <1>17, <1>18, <1>19, <1>20, <1>21, <1>22, <1>23, <1>24, <1>25, <1>26, <1>27, <1>28 DEF Proceed

\* A step of a call keeps status and process consistent.
LEMMA ProceedState ==
  ASSUME ManagerInv, StateInv, NEW c \in Callers, Proceed(c)
  PROVE  StartingInv' /\ ReapedInv'
<1> USE ManagerAssumption DEF ManagerInv, ControlTypes, LockInv, StartupInv, TargetInv,
        GenerationInv, ReaperInv, LivingInv, Living, StateInv, StatusTypes, StartingInv, ReapedInv,
        Starting, Judging, Steps, FreeSteps, LockedSteps, Unspawned, Children, States,
        mgrVars, childVars, Goto, Finish
<1>1. CASE CancelStartup(c)
  <2>1. pc[c] = "cancel" /\ pc' = [pc EXCEPT ![c] = "lock"]
    BY <1>1 DEF CancelStartup
  <2>2. UNCHANGED <<opHolder, op, status, process, generation, child, reaper>>
    BY <1>1 DEF CancelStartup
  <2> QED
    BY <2>1, <2>2
<1>2. CASE MarkClosing(c)
  BY <1>2 DEF MarkClosing
<1>3. CASE Enter(c)
  BY <1>3 DEF Enter, Refused, Blocked
<1>4. CASE Wait(c)
  BY <1>4 DEF Wait
<1>5. CASE StopNothing(c)
  BY <1>5 DEF StopNothing, AfterStop
<1>6. CASE StopChild(c)
  BY <1>6 DEF StopChild, Terminate
<1>7. CASE ChildDone(c)
  BY <1>7 DEF ChildDone, Terminated, AfterStop
<1>8. CASE WaitAbandoned(c)
  BY <1>8 DEF WaitAbandoned, Terminated, AfterStop, Kill
<1>9. CASE GraceExpired(c)
  <2>1. PICK s \in {"awaitKilled", "begin", "unlock", "endStart"} : pc' = [pc EXCEPT ![c] = s]
    BY <1>9 DEF GraceExpired, Terminated, AfterStop
  <2>2. pc[c] = "await" /\ UNCHANGED <<opHolder, op, status, process, generation, reaper>>
    BY <1>9 DEF GraceExpired
  <2>3. \A g \in Children : child'[g] = child[g] \/ (child[g] = "alive" /\ child'[g] = "killed")
    <3>1. CASE Kill(target[c])
      BY <3>1 DEF Kill
    <3>2. CASE UNCHANGED child
      BY <3>2
    <3> QED
      BY <1>9, <3>1, <3>2 DEF GraceExpired
  <2>4. StartingInv'
    BY <2>1, <2>2
  <2> QED
    BY <2>1, <2>2, <2>3, <2>4
<1>10. CASE Begin(c)
  <2>1. pc[c] = "begin" /\ pc' = [pc EXCEPT ![c] = "verify"] /\ opHolder = c
    BY <1>10 DEF Begin
  <2>2. UNCHANGED <<opHolder, op, child, reaper>> /\ status'.state = "starting"
    BY <1>10 DEF Begin, Stopped
  <2>3. \A d \in Callers : d # c => pc'[d] \notin Starting
    BY <2>1
  <2>4. StartingInv'
    BY <2>1, <2>2, <2>3
  <2>5. ReapedInv'
    BY <2>1, <2>2
  <2> QED
    BY <2>4, <2>5
<1>11. CASE StepFails(c)
  BY <1>11 DEF StepFails
<1>12. CASE VerifyArtifact(c)
  BY <1>12 DEF VerifyArtifact
<1>13. CASE AcquireConfig(c)
  BY <1>13 DEF AcquireConfig
<1>14. CASE CheckConfig(c)
  BY <1>14 DEF CheckConfig
<1>15. CASE Spawn(c)
  BY <1>15 DEF Spawn
<1>16. CASE Adopt(c)
  BY <1>16 DEF Adopt
<1>17. CASE ProbeHealthy(c)
  BY <1>17 DEF ProbeHealthy
<1>18. CASE ProbeFails(c)
  <2>1. PICK s \in {"condemn", "unlock"} :
          pc' = [pc EXCEPT ![c] = s] /\ (s = "unlock" => op[c] = "health")
    BY <1>18 DEF ProbeFails
  <2>2. pc[c] = "probe" /\ UNCHANGED <<opHolder, op, status, process, generation, child, reaper>>
    BY <1>18 DEF ProbeFails
  <2> QED
    BY <2>1, <2>2
<1>19. CASE CommitGone(c)
  BY <1>19 DEF CommitGone
<1>20. CASE CommitExited(c)
  BY <1>20 DEF CommitExited
<1>21. CASE CommitRunning(c)
  <2>1. PICK s \in {"endStart", "unlock"} : pc' = [pc EXCEPT ![c] = s]
    BY <1>21 DEF CommitRunning
  <2>2. pc[c] = "commit" /\ UNCHANGED <<opHolder, op, process, generation, child, reaper>>
    BY <1>21 DEF CommitRunning
  <2>3. status'.state = "running"
    BY <1>21 DEF CommitRunning
  <2>4. ASSUME NEW d \in Callers PROVE pc'[d] \notin Starting
    <3>1. CASE d = c
      BY <2>1, <3>1
    <3>2. CASE d # c
      <4>1. opHolder = c /\ pc'[d] = pc[d]
        BY <2>1, <2>2, <3>2
      <4> QED
        BY <3>2, <4>1
    <3> QED
      BY <3>1, <3>2
  <2>5. StartingInv'
    BY <2>3, <2>4
  <2> QED
    BY <2>1, <2>2, <2>5
<1>22. CASE Condemn(c)
  <2>1. pc[c] = "condemn" /\ pc' = [pc EXCEPT ![c] = "await"]
    BY <1>22 DEF Condemn
  <2>2. UNCHANGED <<opHolder, op, process, generation, child, reaper>>
    BY <1>22 DEF Condemn
  <2>3. status'.state # "starting"
    <3>1. CASE process = target[c]
      <4>1. status' = [status EXCEPT !.state = "failed", !.healthy = FALSE]
        BY <1>22, <3>1 DEF Condemn
      <4> QED
        BY <4>1
    <3>2. CASE process # target[c]
      <4>1. process = 0 /\ opHolder = c /\ status' = status
        BY <1>22, <3>2 DEF Condemn
      <4> QED
        BY <2>1, <4>1
    <3> QED
      BY <3>1, <3>2
  <2>4. StartingInv'
    BY <2>1, <2>2, <2>3
  <2> QED
    BY <2>1, <2>2, <2>4
<1>23. CASE StartFailure(c)
  BY <1>23 DEF StartFailure
<1>24. CASE EndStart(c)
  BY <1>24 DEF EndStart
<1>25. CASE CheckAcquire(c)
  BY <1>25 DEF CheckAcquire
<1>26. CASE CheckRun(c)
  BY <1>26 DEF CheckRun
<1>27. CASE Unlock(c)
  BY <1>27 DEF Unlock
<1>28. CASE \E v \in Bundles : VerifyVersion(c, v)
  BY <1>28 DEF VerifyVersion
<1> QED
  BY <1>1, <1>2, <1>3, <1>4, <1>5, <1>6, <1>7, <1>8, <1>9, <1>10, <1>11, <1>12, <1>13, <1>14, <1>15, <1>16, <1>17, <1>18, <1>19, <1>20, <1>21, <1>22, <1>23, <1>24, <1>25, <1>26, <1>27, <1>28 DEF Proceed

\* New calls, ended contexts and the exit of the child keep them consistent.
LEMMA OutsideState ==
  ASSUME ManagerInv, StateInv,
         \/ \E c \in Callers, o \in Operations, b \in Bundles : Call(c, o, b)
         \/ \E c \in Callers : EndContext(c)
         \/ \E g \in Children : ChildExits(g)
  PROVE  StateInv'
<1> USE DEF ManagerInv, ControlTypes, LockInv, LivingInv, Living, StateInv, StatusTypes,
        StartingInv, ReapedInv, Starting, Judging, Steps, FreeSteps, LockedSteps, Unspawned,
        mgrVars
<1>1. ASSUME NEW c \in Callers, NEW o \in Operations, NEW b \in Bundles, Call(c, o, b)
      PROVE  StateInv'
  <2>1. PICK s \in {"cancel", "closing", "waiting", "lock"} :
          pc[c] = "idle" /\ pc' = [pc EXCEPT ![c] = s]
    BY <1>1 DEF Call, Goto
  <2>2. op' = [op EXCEPT ![c] = o] /\ UNCHANGED <<opHolder, status, process, generation, childVars>>
    BY <1>1 DEF Call
  <2>3. StatusTypes'
    BY <1>1, <2>2 DEF Call, childVars
  <2>4. StartingInv'
    <3>1. opHolder \in Callers => opHolder # c
      BY <2>1
    <3>2. \A d \in Callers : d # c => pc'[d] = pc[d] /\ op'[d] = op[d]
      BY <2>1, <2>2
    <3>3. pc'[c] \notin Starting
      BY <2>1
    <3> QED
      BY <2>2, <3>1, <3>2, <3>3
  <2>5. ReapedInv'
    BY <2>1, <2>2 DEF childVars
  <2> QED
    BY <2>3, <2>4, <2>5
<1>2. ASSUME NEW c \in Callers, EndContext(c) PROVE StateInv'
  BY <1>2 DEF EndContext, childVars
<1>3. ASSUME NEW g \in Children, ChildExits(g) PROVE StateInv'
  BY <1>3 DEF ChildExits, callVars
<1> QED
  BY <1>1, <1>2, <1>3

\* The reaper and the child keep them consistent.
LEMMA ReapState ==
  ASSUME ManagerInv, StateInv, NEW g \in Children, Reap(g)
  PROVE  StateInv'
<1> USE DEF ManagerInv, ControlTypes, GenerationInv, ReaperInv, StateInv, StatusTypes,
        StartingInv, ReapedInv, States, Children, callVars, mgrVars
<1>1. CASE ReapExit(g)
  BY <1>1 DEF ReapExit
<1>2. CASE ReapRelease(g)
  BY <1>2 DEF ReapRelease
<1>3. CASE ReapSettle(g)
  <2>1. process = g
    BY <1>3 DEF ReapSettle
  <2>2. status' = [status EXCEPT !.state = desired[g], !.pid = 0, !.healthy = FALSE]
    BY <1>3, <2>1 DEF ReapSettle
  <2>3. StatusTypes'
    BY <1>3, <2>2 DEF ReapSettle
  <2>4. StartingInv'
    <3>1. status'.state # "starting"
      BY <2>2
    <3>2. \A c \in Callers : pc[c] \notin Starting
      BY <2>1, ManagerAssumption DEF StartupInv, Starting, Unspawned
    <3> QED
      BY <1>3, <3>1, <3>2 DEF ReapSettle
  <2>5. ReapedInv'
    BY <1>3 DEF ReapSettle
  <2> QED
    BY <2>3, <2>4, <2>5
<1>4. CASE ReapDone(g)
  BY <1>4 DEF ReapDone
<1> QED
  BY <1>1, <1>2, <1>3, <1>4 DEF Reap

\* The state the manager announces fits its process, its reaper and the startup
\* in progress, at every step of every call.
THEOREM StateInvariant == Spec => []StateInv
<1>1. Init => StateInv
  BY ManagerAssumption DEF Init, StateInv, StatusTypes, StartingInv, ReapedInv, Starting,
     Unspawned, States, Children, Stopped
<1>2. ManagerInv /\ StateInv /\ [Next]_vars => StateInv'
  <2> SUFFICES ASSUME ManagerInv, StateInv, [Next]_vars PROVE StateInv'
    OBVIOUS
  <2>1. CASE UNCHANGED vars
    BY <2>1 DEF vars, callVars, mgrVars, childVars, StateInv, StatusTypes, StartingInv, ReapedInv
  <2>2. CASE Next
    BY <2>2, ProceedStatusTypes, ProceedState, OutsideState, ReapState DEF Next, StateInv
  <2> QED
    BY <2>1, <2>2
<1> QED
  BY <1>1, <1>2, ManagerInvariant, PTL DEF Spec

-----------------------------------------------------------------------------
(* The refinement *)

\* Nothing OwnedChild knows of changes.
LEMMA StutterStep ==
  ASSUME UNCHANGED <<generation, child, reaper, closed>>, status'.state = status.state
  PROVE  UNCHANGED Abstract!ownedVars
BY DEF Abstract!ownedVars, SlotOf

\* The kill of a child, or the publication of its exit, leaves its slot.
LEMMA SlotStays ==
  ASSUME UNCHANGED generation, generation \in Children \cup {0},
         \A g \in Children :
           /\ (child'[g] = "none") <=> (child[g] = "none")
           /\ (child'[g] = "dead") <=> (child[g] = "dead")
           /\ (reaper'[g] \in {"settled", "done"}) <=> (reaper[g] \in {"settled", "done"})
  PROVE  /\ SlotOf(generation)' = SlotOf(generation)
         /\ {g \in Children : child[g] # "none"}' = {g \in Children : child[g] # "none"}
BY DEF SlotOf

\* Without a process, and with no child waiting to be adopted, the slot is empty.
LEMMA SlotEmpty ==
  ASSUME ManagerInv, StateInv, process = 0, NEW c \in Callers, opHolder = c, pc[c] # "adopt"
  PROVE  SlotOf(generation) = "empty"
<1>1. CASE generation = 0
  BY <1>1 DEF SlotOf
<1>2. CASE generation \in Children
  <2>1. reaper[generation] \notin {"waiting", "exited", "released"}
    BY <1>2, ManagerAssumption DEF ManagerInv, ReaperInv, Children
  <2>2. reaper[generation] = "none" => child[generation] = "none"
    BY <1>2 DEF StateInv, ReapedInv
  <2>3. reaper[generation] \in {"none", "settled", "done"}
    BY <1>2, <2>1 DEF ManagerInv, ControlTypes
  <2> QED
    BY <2>2, <2>3 DEF SlotOf
<1> QED
  BY <1>1, <1>2 DEF ManagerInv, ControlTypes

\* The owned process occupies the slot.
LEMMA SlotFull ==
  ASSUME ManagerInv, StateInv, process # 0
  PROVE  /\ process = generation /\ generation \in Children
         /\ SlotOf(generation) \in {"alive", "dead"}
         /\ child[generation] = "dead" => SlotOf(generation) = "dead"
<1>1. process = generation /\ generation \in Children /\ generation # 0
  BY DEF ManagerInv, ControlTypes, GenerationInv
<1>2. reaper[generation] \in {"waiting", "exited", "released"} /\ child[generation] # "none"
  BY <1>1 DEF ManagerInv, ReaperInv, StateInv, ReapedInv
<1> QED
  BY <1>1, <1>2 DEF SlotOf

\* The steps of a call that OwnedChild does not see.
LEMMA QuietStep ==
  ASSUME ManagerInv, StateInv, NEW c \in Callers,
         \/ CancelStartup(c) \/ MarkClosing(c) \/ Enter(c) \/ Wait(c) \/ StopChild(c)
         \/ StepFails(c) \/ VerifyArtifact(c) \/ (\E v \in Bundles : VerifyVersion(c, v))
         \/ AcquireConfig(c) \/ CheckConfig(c) \/ ProbeHealthy(c) \/ ProbeFails(c)
         \/ CommitGone(c) \/ CommitExited(c) \/ EndStart(c)
         \/ CheckAcquire(c) \/ CheckRun(c) \/ Unlock(c)
  PROVE  UNCHANGED Abstract!ownedVars
<1>1. UNCHANGED <<generation, child, reaper, closed>>
  BY DEF CancelStartup, MarkClosing, Enter, Wait, StopChild, StepFails,
     VerifyArtifact, AcquireConfig, CheckConfig, ProbeHealthy, ProbeFails, CommitGone, CommitExited, VerifyVersion,
     EndStart, CheckAcquire, CheckRun, Unlock, mgrVars, childVars
<1>2. status'.state = status.state
  <2>1. CASE VerifyArtifact(c) \/ \E v \in Bundles : VerifyVersion(c, v)
    BY <2>1 DEF VerifyArtifact, VerifyVersion, StateInv, StatusTypes
  <2>2. CASE ~(VerifyArtifact(c) \/ \E v \in Bundles : VerifyVersion(c, v))
    BY <2>2 DEF CancelStartup, MarkClosing, Enter, Wait, StopChild, StepFails,
       AcquireConfig, CheckConfig, ProbeHealthy, ProbeFails, CommitGone, CommitExited,
       EndStart, CheckAcquire, CheckRun, Unlock, mgrVars
  <2> QED
    BY <2>1, <2>2
<1> QED
  BY <1>1, <1>2, StutterStep

\* Where a stop ends: the state stays, and a Close shuts the door.
LEMMA StopEnds ==
  ASSUME ManagerInv, StateInv, NEW c \in Callers, NEW ok \in BOOLEAN,
         pc[c] \in {"await", "awaitKilled"}, Terminated(c, ok),
         UNCHANGED <<generation, reaper, status>>,
         \/ UNCHANGED child
         \/ Kill(target[c])
  PROVE  [Abstract!Next]_Abstract!ownedVars
<1>1. opHolder = c /\ status.state # "starting"
  BY DEF ManagerInv, LockInv, LockedSteps, Steps, FreeSteps, StateInv, StartingInv, Starting,
     Judging, Unspawned
<1>2. \A g \in Children : child'[g] = child[g] \/ (child[g] = "alive" /\ child'[g] = "killed")
  <2>1. CASE Kill(target[c])
    BY <2>1 DEF Kill, ManagerInv, ControlTypes
  <2> QED
    BY <2>1
<1>3. /\ SlotOf(generation)' = SlotOf(generation)
      /\ {g \in Children : child[g] # "none"}' = {g \in Children : child[g] # "none"}
  BY <1>2, SlotStays DEF ManagerInv, ControlTypes
<1>4. closed' = closed \/ closed' = TRUE
  BY Zenon DEF Terminated, AfterStop, ManagerInv, ControlTypes
<1> QED
  BY <1>1, <1>3, <1>4 DEF Abstract!ownedVars, Abstract!Next, Abstract!Shut

\* The steps of a call that OwnedChild sees, each with the one it implements.
LEMMA VisibleStep ==
  ASSUME ManagerInv, StateInv, NEW c \in Callers,
         \/ StopNothing(c) \/ ChildDone(c) \/ WaitAbandoned(c) \/ GraceExpired(c)
         \/ Begin(c) \/ Spawn(c) \/ Adopt(c) \/ CommitRunning(c) \/ Condemn(c) \/ StartFailure(c)
  PROVE  [Abstract!Next]_Abstract!ownedVars
<1> DEFINE Started == {g \in Children : child[g] # "none"}
<1> USE DEF Abstract!ownedVars, Abstract!Next
<1>0. /\ generation \in Children \cup {0} /\ 0 \notin Children
      /\ pc[c] \in LockedSteps => opHolder = c
      /\ closed \in BOOLEAN
  BY ManagerAssumption DEF ManagerInv, ControlTypes, LockInv, Children
<1>1. CASE StopNothing(c)
  <2>1. opHolder = c /\ pc[c] = "stop" /\ process = 0
    BY <1>0, <1>1 DEF StopNothing, LockedSteps, Steps, FreeSteps
  <2>2. SlotOf(generation) = "empty" /\ status.state # "starting"
    BY <2>1, SlotEmpty DEF StateInv, StartingInv, Starting, Judging, Unspawned
  <2>3. UNCHANGED <<generation, child, reaper>>
    BY <1>1 DEF StopNothing, childVars
  <2>4. SlotOf(generation)' = SlotOf(generation) /\ Started' = Started
    BY <2>3 DEF SlotOf
  <2>5. status'.state = "stopped"
    BY <1>1 DEF StopNothing, StateInv, StatusTypes
  <2>6. closed' = closed \/ closed' = TRUE
    BY <1>0, <1>1, Zenon DEF StopNothing, AfterStop
  <2>7. CASE closed' = closed
    BY <2>2, <2>4, <2>5, <2>7 DEF Abstract!Rest
  <2>8. CASE closed' = TRUE
    BY <2>2, <2>4, <2>5, <2>8 DEF Abstract!Shut
  <2> QED
    BY <2>6, <2>7, <2>8
<1>2. CASE ChildDone(c)
  BY <1>2, StopEnds DEF ChildDone, childVars
<1>3. CASE WaitAbandoned(c)
  BY <1>3, StopEnds DEF WaitAbandoned
<1>4. CASE GraceExpired(c)
  <2>1. CASE Terminated(c, FALSE) /\ UNCHANGED child
    BY <1>4, <2>1, StopEnds DEF GraceExpired
  <2>2. CASE Kill(target[c]) /\ UNCHANGED closed
    <3>1. \A g \in Children : child'[g] = child[g] \/ (child[g] = "alive" /\ child'[g] = "killed")
      BY <2>2 DEF Kill, ManagerInv, ControlTypes
    <3>2. UNCHANGED <<generation, reaper, status>>
      BY <1>4 DEF GraceExpired
    <3>3. SlotOf(generation)' = SlotOf(generation) /\ Started' = Started
      BY <1>0, <3>1, <3>2, SlotStays
    <3> QED
      BY <2>2, <3>2, <3>3
  <2> QED
    BY <1>4, <2>1, <2>2 DEF GraceExpired
<1>5. CASE Begin(c)
  <2>1. opHolder = c /\ pc[c] = "begin" /\ process = 0 /\ ~closed /\ generation < MaxStarts
    BY <1>0, <1>5 DEF Begin, LockedSteps, Steps, FreeSteps, ManagerInv, StartupInv, ClosedInv,
       Unspawned
  <2>2. SlotOf(generation) = "empty" /\ status.state # "starting"
    BY <2>1, SlotEmpty DEF StateInv, StartingInv, Starting, Judging, Unspawned
  <2>3. generation' = generation + 1 /\ generation' \in Children /\ generation' > generation
    BY <1>0, <1>5, <2>1, ManagerAssumption DEF Begin, Children
  <2>4. UNCHANGED <<child, reaper, closed>> /\ status'.state = "starting"
    BY <1>5 DEF Begin, Stopped, childVars
  <2>5. SlotOf(generation)' = "empty" /\ Started' = Started
    BY <2>3, <2>4 DEF SlotOf, ManagerInv, GenerationInv
  <2> QED
    BY <2>1, <2>2, <2>4, <2>5 DEF Abstract!Accept
<1>6. CASE Spawn(c)
  <2>1. opHolder = c /\ pc[c] = "spawn" /\ process = 0 /\ ~closed
    BY <1>0, <1>6 DEF Spawn, LockedSteps, Steps, FreeSteps, ManagerInv, StartupInv, ClosedInv,
       Unspawned
  <2>2. SlotOf(generation) = "empty" /\ status.state = "starting"
    BY <2>1, SlotEmpty DEF StateInv, StartingInv, Starting, Unspawned
  <2>3. generation \in Children /\ child[generation] = "none" /\ reaper[generation] = "none"
    BY <1>0, <2>1 DEF ManagerInv, StartupInv, Unspawned
  <2>4. /\ child' = [child EXCEPT ![generation] = "alive"]
        /\ UNCHANGED <<generation, reaper, status, closed>>
    BY <1>6 DEF Spawn, mgrVars
  <2>5. SlotOf(generation)' = "alive"
    BY <1>0, <2>3, <2>4 DEF SlotOf, ManagerInv, ControlTypes
  <2>6. Cardinality(Started)' = Cardinality(Started) + 1
    <3>1. Started' = Started \cup {generation} /\ generation \notin Started
      BY <2>3, <2>4 DEF ManagerInv, ControlTypes
    <3>2. IsFiniteSet(Children) /\ Started \subseteq Children
      BY FS_Interval, ManagerAssumption DEF Children
    <3>3. IsFiniteSet(Started)
      BY <3>2, FS_Subset
    <3> HIDE DEF Started
    <3> QED
      BY <3>1, <3>3, FS_AddElement
  <2> QED
    BY <2>1, <2>2, <2>4, <2>5, <2>6 DEF Abstract!Spawn
<1>7. CASE Adopt(c)
  <2>1. pc[c] = "adopt" /\ generation # 0 /\ reaper[generation] = "none"
    BY <1>7 DEF Adopt, ManagerInv, StartupInv, Unspawned
  <2>2. UNCHANGED <<generation, child, closed>> /\ reaper' = [reaper EXCEPT ![generation] = "waiting"]
    BY <1>7 DEF Adopt
  <2>3. status'.state = status.state
    BY <1>7 DEF Adopt, StateInv, StatusTypes
  <2>4. SlotOf(generation)' = SlotOf(generation) /\ Started' = Started
    BY <1>0, <2>1, <2>2, SlotStays DEF ManagerInv, ControlTypes
  <2> QED
    BY <2>2, <2>3, <2>4
<1>8. CASE CommitRunning(c)
  <2>1. process # 0 /\ UNCHANGED <<generation, child, reaper, closed>> /\ status'.state = "running"
    BY <1>8 DEF CommitRunning, childVars, ManagerInv, TargetInv, StateInv, StatusTypes
  <2>2. SlotOf(generation) # "empty" /\ SlotOf(generation)' = SlotOf(generation)
    BY <2>1, SlotFull DEF SlotOf
  <2> QED
    BY <2>1, <2>2 DEF Abstract!Publish
<1>9. CASE Condemn(c)
  <2>1. UNCHANGED <<generation, child, reaper, closed>>
    BY <1>9 DEF Condemn
  <2>2. CASE process = target[c]
    <3>1. status' = [status EXCEPT !.state = "failed", !.healthy = FALSE] /\ process # 0
      BY <1>9, <2>2 DEF Condemn, ManagerInv, TargetInv
    <3>2. status'.state = "failed"
      BY <3>1 DEF StateInv, StatusTypes
    <3>3. SlotOf(generation) # "empty" /\ SlotOf(generation)' = SlotOf(generation)
      BY <2>1, <3>1, SlotFull DEF SlotOf
    <3> QED
      BY <2>1, <3>2, <3>3 DEF Abstract!Condemn
  <2>3. CASE process # target[c]
    BY <1>9, <2>1, <2>3, StutterStep DEF Condemn
  <2> QED
    BY <2>2, <2>3
<1>10. CASE StartFailure(c)
  <2>1. UNCHANGED <<generation, child, reaper, closed>> /\ status'.state = "failed"
    BY <1>10 DEF StartFailure, childVars, StateInv, StatusTypes
  <2>2. status.state = "starting" /\ SlotOf(generation)' = SlotOf(generation)
    BY <1>10, <2>1 DEF StartFailure, StateInv, StartingInv, Starting, SlotOf
  <2> QED
    BY <2>1, <2>2 DEF Abstract!Condemn
<1> QED
  BY <1>1, <1>2, <1>3, <1>4, <1>5, <1>6, <1>7, <1>8, <1>9, <1>10

\* The end of a child is seen when it happens; its reaper empties the slot in
\* the one step that also writes the final state.
LEMMA ChildStep ==
  ASSUME ManagerInv, StateInv, NEW g \in Children, ChildExits(g) \/ Reap(g)
  PROVE  [Abstract!Next]_Abstract!ownedVars
<1> USE DEF Abstract!ownedVars, Abstract!Next
<1>0. generation \in Children \cup {0} /\ 0 \notin Children
  BY ManagerAssumption DEF ManagerInv, ControlTypes, Children
<1>1. CASE ChildExits(g)
  <2>1. g = generation /\ reaper[g] \in {"none", "waiting"} /\ child[g] \in {"alive", "killed"}
    BY <1>0, <1>1 DEF ChildExits, ManagerInv, LivingInv, Living, ReaperInv, GenerationInv,
       StateInv, ReapedInv
  <2>2. /\ child' = [child EXCEPT ![g] = "dead"]
        /\ UNCHANGED <<generation, reaper, status, closed>>
    BY <1>1 DEF ChildExits, mgrVars
  <2>3. SlotOf(generation) = "alive" /\ SlotOf(generation)' = "dead"
    BY <1>0, <2>1, <2>2 DEF SlotOf, ManagerInv, ControlTypes
  <2>4. {h \in Children : child[h] # "none"}' = {h \in Children : child[h] # "none"}
    BY <2>1, <2>2 DEF ManagerInv, ControlTypes
  <2> QED
    BY <2>2, <2>3, <2>4 DEF Abstract!Die
<1>2. CASE ReapExit(g) \/ ReapRelease(g) \/ ReapDone(g)
  <2>1. UNCHANGED <<generation, child, status, closed>>
    BY <1>2 DEF ReapExit, ReapRelease, ReapDone, mgrVars
  <2>2. \A h \in Children :
          (reaper'[h] \in {"settled", "done"}) <=> (reaper[h] \in {"settled", "done"})
    BY <1>2 DEF ReapExit, ReapRelease, ReapDone, ManagerInv, ControlTypes
  <2>3. /\ SlotOf(generation)' = SlotOf(generation)
        /\ {h \in Children : child[h] # "none"}' = {h \in Children : child[h] # "none"}
    BY <1>0, <2>1, <2>2, SlotStays
  <2> QED
    BY <2>1, <2>3
<1>3. CASE ReapSettle(g)
  <2>1. process = g /\ g = generation /\ child[g] = "dead" /\ reaper[g] = "released"
    BY <1>0, <1>3 DEF ReapSettle, ManagerInv, ReaperInv, GenerationInv, StateInv, ReapedInv
  <2>2. /\ UNCHANGED <<generation, child, closed>>
        /\ reaper' = [reaper EXCEPT ![g] = "settled"]
        /\ status'.state = desired[g]
    BY <1>3, <2>1 DEF ReapSettle, StateInv, StatusTypes
  <2>3. SlotOf(generation) = "dead" /\ SlotOf(generation)' = "empty"
    BY <1>0, <2>1, <2>2 DEF SlotOf, ManagerInv, ControlTypes
  <2>4. desired[g] \in {"stopped", "failed"}
    BY DEF StateInv, StatusTypes
  <2> QED
    BY <2>2, <2>3, <2>4 DEF Abstract!Reap
<1> QED
  BY <1>1, <1>2, <1>3 DEF Reap

(***************************************************************************)
(* The manager keeps OwnedChild's promise under every interleaving of its  *)
(* callers, the child and the reaper: it spawns only into an empty slot    *)
(* and before Close, announces "running" only for a child that is there,   *)
(* and empties the slot only together with the final state.                *)
(***************************************************************************)
THEOREM ManagerRefinesOwnedChild == Spec => ImplementsOwnedChild
<1>1. Init => Abstract!Init
  <2> SUFFICES ASSUME Init PROVE Abstract!Init
    OBVIOUS
  <2>1. SlotOf(generation) = "empty"
    BY DEF Init, SlotOf
  <2>2. {g \in Children : child[g] # "none"} = {}
    BY DEF Init
  <2> QED
    BY <2>1, <2>2, FS_EmptySet DEF Abstract!Init, Init, Stopped
<1>2. ManagerInv /\ StateInv /\ [Next]_vars => [Abstract!Next]_Abstract!ownedVars
  <2> SUFFICES ASSUME ManagerInv, StateInv, [Next]_vars
               PROVE  [Abstract!Next]_Abstract!ownedVars
    OBVIOUS
  <2>1. CASE UNCHANGED vars
    BY <2>1, StutterStep DEF vars, mgrVars, childVars
  <2>2. ASSUME NEW c \in Callers, Proceed(c) PROVE [Abstract!Next]_Abstract!ownedVars
    BY <2>2, QuietStep, VisibleStep DEF Proceed
  <2>3. ASSUME NEW c \in Callers, NEW o \in Operations, NEW b \in Bundles,
               Call(c, o, b)
        PROVE  [Abstract!Next]_Abstract!ownedVars
    BY <2>3, StutterStep DEF Call, mgrVars, childVars
  <2>4. ASSUME NEW c \in Callers, EndContext(c)
        PROVE  [Abstract!Next]_Abstract!ownedVars
    BY <2>4, StutterStep DEF EndContext, mgrVars, childVars
  <2>5. ASSUME NEW g \in Children, ChildExits(g) \/ Reap(g)
        PROVE  [Abstract!Next]_Abstract!ownedVars
    BY <2>5, ChildStep
  <2> QED
    BY <2>1, <2>2, <2>3, <2>4, <2>5 DEF Next
<1> QED
  BY <1>1, <1>2, ManagerInvariant, StateInvariant, PTL DEF Spec, ImplementsOwnedChild, Abstract!Spec

-----------------------------------------------------------------------------
(* What the manager tells its callers *)

Awaiting == {"await", "awaitKilled"}
Keeping == {"check", "spawn", "adopt"}

CallTypes ==
  /\ result \in [Callers -> {"none", "ok", "error", "refused"}]
  /\ ctxDone \in [Callers -> BOOLEAN]
  /\ termError \in [Callers -> BOOLEAN]
  /\ startCancel \in Children \cup {0}
  /\ cancelled \in BOOLEAN /\ closing \in BOOLEAN

\* The steps at which an operation can be, and the bundle it came with.
OperationInv ==
  \A c \in Callers :
    /\ pc[c] = "cancel" => op[c] \in {"stop", "restart"}
    /\ pc[c] = "closing" => op[c] = "close"
    /\ pc[c] = "lock" => op[c] \in Operations \ {"wait"}
    /\ pc[c] = "stop" => op[c] \in {"stop", "restart", "close"}
    /\ pc[c] \in Judging => op[c] \in {"start", "restart", "health"}
    /\ pc[c] \in {"checkAcquire", "checkRun"} => op[c] = "check"
    /\ pc[c] # "idle" /\ op[c] \in {"start", "restart", "check"} => bundle[c] \in Bundles

\* The cancel function is there from the first to the last step of a startup.
CancelInv ==
  /\ startCancel # 0 =>
       /\ opHolder \in Callers /\ op[opHolder] \in {"start", "restart"}
       /\ pc[opHolder] \in Starting \cup Judging \cup Awaiting \cup {"endStart"}
  /\ \A c \in Callers :
       startCancel = 0 =>
         /\ pc[c] \notin Starting \cup {"endStart"}
         /\ pc[c] \in Judging => op[c] = "health"
         /\ pc[c] \in Awaiting => op[c] # "start"

\* Child g is still owned and its reaper will announce state, or it did.
SettlesAs(g, state) ==
  \/ process # 0 /\ process = g /\ desired[process] = state
  \/ process = 0 /\ status.state = state

OutcomeOf(c) ==
  /\ startCancel # 0 /\ pc[c] \in Judging \cup Awaiting => SettlesAs(target[c], "failed")
  /\ startCancel # 0 /\ pc[c] \in Awaiting => status.state = "failed"
  /\ startCancel = 0 /\ pc[c] \in Awaiting /\ op[c] # "health" => SettlesAs(target[c], "stopped")
  /\ pc[c] \in {"endStart", "unlock"} /\ op[c] = "start" /\ result[c] = "error" =>
       status.state = "failed" /\ SettlesAs(process, "failed")
  /\ pc[c] \in {"endStart", "unlock"} /\ op[c] = "start" /\ result[c] = "ok" =>
       SettlesAs(process, "failed") /\ (process # 0 => status.state = "running")
  /\ pc[c] = "unlock" /\ op[c] \in {"stop", "close"} /\ result[c] = "ok" =>
       status.state = "stopped" /\ process = 0

OutcomeInv == \A c \in Callers : opHolder = c => OutcomeOf(c)

HandleInv ==
  /\ \A c \in Callers :
       /\ pc[c] \in Keeping => bundle[c] \in Bundles /\ held[c] = bundle[c]
       /\ held[c] # None => pc[c] \in Keeping \cup {"fail", "endStart", "checkRun"}
  /\ \A g \in Children : held[g] # None <=> reaper[g] \in {"waiting", "exited"}

FileInv == Configs!ConfigsInv /\ HandleInv

VerifiedInv ==
  /\ \A c \in Callers :
       /\ pc[c] \in Unspawned \cup {"adopt"} => status.bundle = bundle[c]
       /\ pc[c] \in {"version", "acquire"} \cup Keeping => status.artifact = bundle[c]
       /\ pc[c] \in {"acquire"} \cup Keeping => status.version = bundle[c]
  /\ process # 0 =>
       /\ status.artifact = status.bundle /\ status.version = status.bundle /\ status.pid = process
       /\ held[process] # None => held[process] = status.bundle
  /\ status.state = "running" => status.healthy

ReturnInv ==
  CallTypes /\ OperationInv /\ CancelInv /\ OutcomeInv /\ FileInv /\ VerifiedInv

-----------------------------------------------------------------------------
(* The startup files, by the lemmas about StartupConfigs *)

Files == INSTANCE StartupConfigsProofs
  WITH Digests <- Bundles, Holders <- Callers \cup Children, NoDigest <- None

\* The assumptions of StartupConfigs hold of callers and children as holders.
LEMMA FilesAssumed == Files!ConfigsAssumption
<1>1. IsFiniteSet(Children)
  BY ManagerAssumption, FS_Interval DEF Children
<1>2. IsFiniteSet(Callers \cup Children)
  BY <1>1, ManagerAssumption, FS_Union
<1> QED
  BY <1>2, ManagerAssumption DEF Files!ConfigsAssumption, Files!IsFiniteSet, IsFiniteSet

\* Both instances of StartupConfigs speak of the same files.
LEMMA SameFiles == Configs!ConfigsInv <=> Files!ConfigsInv
BY DEF Files!ConfigsInv, Files!TypeOK, Files!HeldFilesStay, Files!UsersCountHandles,
   Files!CountsAreTracked, Files!Names, Files!HoldersOf, Configs!ConfigsInv, Configs!TypeOK,
   Configs!HeldFilesStay, Configs!UsersCountHandles, Configs!CountsAreTracked, Configs!Names,
   Configs!HoldersOf, Configs!Cardinality, Files!Cardinality

LEMMA SameFilesAfter == Configs!ConfigsInv' <=> Files!ConfigsInv'
BY DEF Files!ConfigsInv, Files!TypeOK, Files!HeldFilesStay, Files!UsersCountHandles,
   Files!CountsAreTracked, Files!Names, Files!HoldersOf, Configs!ConfigsInv, Configs!TypeOK,
   Configs!HeldFilesStay, Configs!UsersCountHandles, Configs!CountsAreTracked, Configs!Names,
   Configs!HoldersOf, Configs!Cardinality, Files!Cardinality

LEMMA UnchangedFiles ==
  ASSUME Configs!ConfigsInv, UNCHANGED configVars
  PROVE  Configs!ConfigsInv'
BY DEF configVars, Configs!ConfigsInv, Configs!TypeOK, Configs!HeldFilesStay,
   Configs!UsersCountHandles, Configs!CountsAreTracked, Configs!HoldersOf

\* Opening, failing to open and closing a handle keep the counts.
LEMMA AcquireKeeps ==
  ASSUME Configs!ConfigsInv, NEW h \in Callers \cup Children, NEW d \in Bundles,
         Configs!Acquire(h, d)
  PROVE  Configs!ConfigsInv' /\ held' = [held EXCEPT ![h] = d]
<1>1. Files!ConfigsInv /\ Files!Acquire(h, d)
  BY SameFiles DEF Configs!Acquire, Files!Acquire
<1>2. Files!ConfigsInv'
  BY <1>1, FilesAssumed, Files!AcquireInv DEF Files!ConfigsAssumption
<1> QED
  BY <1>2, SameFilesAfter DEF Configs!Acquire

LEMMA FailureKeeps ==
  ASSUME Configs!ConfigsInv, NEW h \in Callers \cup Children, NEW d \in Bundles,
         Configs!AcquireFails(h, d)
  PROVE  Configs!ConfigsInv' /\ held' = held
<1>1. disk \subseteq disk' /\ UNCHANGED <<held, users, tracked>> /\ disk' \subseteq disk \cup {d}
  BY DEF Configs!AcquireFails
<1>2. Configs!TypeOK'
  BY <1>1 DEF Configs!ConfigsInv, Configs!TypeOK, Configs!Names
<1>3. Configs!HeldFilesStay'
  BY <1>1 DEF Configs!ConfigsInv, Configs!HeldFilesStay
<1>4. Configs!UsersCountHandles' /\ Configs!CountsAreTracked'
  BY <1>1 DEF Configs!ConfigsInv, Configs!UsersCountHandles, Configs!CountsAreTracked,
     Configs!HoldersOf
<1> QED
  BY <1>1, <1>2, <1>3, <1>4 DEF Configs!ConfigsInv

LEMMA ReleaseKeeps ==
  ASSUME Configs!ConfigsInv, NEW h \in Callers \cup Children, Configs!Release(h)
  PROVE  Configs!ConfigsInv' /\ held' = [held EXCEPT ![h] = None]
<1>1. Files!ConfigsInv /\ Files!Release(h)
  BY SameFiles DEF Configs!Release, Files!Release, Configs!RemoveUnused, Files!RemoveUnused,
     Configs!Unused, Files!Unused
<1>2. Files!ConfigsInv'
  BY <1>1, FilesAssumed, Files!ReleaseInv DEF Files!ConfigsAssumption
<1>3. held' = [held EXCEPT ![h] = None]
  BY DEF Configs!Release
<1> QED
  BY <1>2, <1>3, SameFilesAfter

\* A handle that passes from a call to its child leaves every count as it was.
LEMMA HandOver ==
  ASSUME Configs!ConfigsInv, NEW c \in Callers \cup Children, NEW g \in Callers \cup Children,
         g # c, held[g] = None, 
         held' = [held EXCEPT ![g] = held[c], ![c] = None], UNCHANGED <<users, tracked, disk>>
  PROVE  Configs!ConfigsInv'
<1>1. held \in [Callers \cup Children -> Bundles \cup {None}]
  BY DEF Configs!ConfigsInv, Configs!TypeOK
<1>2. /\ held'[g] = held[c] /\ held'[c] = None
      /\ \A h \in Callers \cup Children : h \notin {c, g} => held'[h] = held[h]
      /\ held' \in [Callers \cup Children -> Bundles \cup {None}]
  BY <1>1
<1>3. Configs!TypeOK'
  BY <1>2 DEF Configs!ConfigsInv, Configs!TypeOK
<1>4. Configs!HeldFilesStay'
  BY <1>2 DEF Configs!ConfigsInv, Configs!HeldFilesStay
<1>5. Configs!CountsAreTracked'
  BY DEF Configs!ConfigsInv, Configs!CountsAreTracked
<1>6. ASSUME NEW d \in Bundles PROVE users'[d] = Configs!Cardinality(Configs!HoldersOf(d)')
  <2>1. users[d] = Configs!Cardinality(Configs!HoldersOf(d))
    BY DEF Configs!ConfigsInv, Configs!UsersCountHandles
  <2>2. CASE held[c] # d
    <3>1. Configs!HoldersOf(d)' = Configs!HoldersOf(d)
      BY <1>2, <2>2, ManagerAssumption DEF Configs!HoldersOf
    <3> QED
      BY <2>1, <3>1
  <2>3. CASE held[c] = d
    <3> DEFINE rest == Configs!HoldersOf(d) \ {c}
    <3>1. Configs!HoldersOf(d) = rest \cup {c} /\ Configs!HoldersOf(d)' = rest \cup {g}
      BY <1>2, <2>3, ManagerAssumption DEF Configs!HoldersOf
    <3>2. c \notin rest /\ g \notin rest
      BY ManagerAssumption DEF Configs!HoldersOf
    <3>3. IsFiniteSet(rest)
      <4>1. IsFiniteSet(Callers \cup Children)
        BY FilesAssumed DEF Files!ConfigsAssumption, Files!IsFiniteSet, IsFiniteSet
      <4> QED
        BY <4>1, FS_Subset DEF Configs!HoldersOf
    <3>4. Cardinality(rest \cup {c}) = Cardinality(rest \cup {g})
      BY <3>2, <3>3, FS_AddElement
    <3> QED
      BY <2>1, <3>1, <3>4 DEF Configs!Cardinality, Cardinality
  <2> QED
    BY <2>2, <2>3
<1> QED
  BY <1>3, <1>4, <1>5, <1>6 DEF Configs!ConfigsInv, Configs!UsersCountHandles

LEMMA HeldTypes ==
  ASSUME FileInv
  PROVE  held \in [Callers \cup Children -> Bundles \cup {None}]
BY DEF FileInv, Configs!ConfigsInv, Configs!TypeOK

\* A child is not a caller.
LEMMA Apart == \A c \in Callers, g \in Children : c # g
BY ManagerAssumption DEF Children

-----------------------------------------------------------------------------
(* The steps *)

\* A step of a call keeps results, contexts and flags well formed.
LEMMA ProceedCallTypes ==
  ASSUME ControlTypes, CallTypes, NEW c \in Callers, Proceed(c)
  PROVE  CallTypes'
<1> USE ManagerAssumption DEF ControlTypes, CallTypes, mgrVars, childVars, Goto, Finish,
        Children
<1>1. CASE CancelStartup(c)
  BY <1>1 DEF CancelStartup
<1>2. CASE MarkClosing(c)
  BY <1>2 DEF MarkClosing
<1>3. CASE Enter(c)
  BY <1>3 DEF Enter, Refused, Blocked
<1>4. CASE Wait(c)
  BY <1>4 DEF Wait
<1>5. CASE StopNothing(c)
  BY <1>5 DEF StopNothing, AfterStop
<1>6. CASE StopChild(c)

  <2>1. PICK e \in {FALSE, SignalsFail} : termError' = [termError EXCEPT ![c] = e]
    BY <1>6 DEF StopChild, Terminate
  <2>2. e \in BOOLEAN
    BY <2>1
  <2>3. termError' \in [Callers -> BOOLEAN]
    BY <2>1, <2>2, Zenon
  <2> QED
    BY <1>6, <2>3 DEF StopChild, Condemn
<1>7. CASE ChildDone(c)
  BY <1>7 DEF ChildDone, Terminated, AfterStop
<1>8. CASE WaitAbandoned(c)
  BY <1>8 DEF WaitAbandoned, Terminated, AfterStop, Kill
<1>9. CASE GraceExpired(c)
  BY <1>9 DEF GraceExpired, Terminated, AfterStop, Kill
<1>10. CASE Begin(c)

  <2>1. generation + 1 \in Children
    BY <1>10 DEF Begin
  <2>2. startCancel' = generation + 1 /\ cancelled' = FALSE
    BY <1>10 DEF Begin
  <2> QED
    BY <1>10, <2>1, <2>2 DEF Begin
<1>11. CASE StepFails(c)
  BY <1>11 DEF StepFails
<1>12. CASE VerifyArtifact(c)
  BY <1>12 DEF VerifyArtifact
<1>13. CASE AcquireConfig(c)
  BY <1>13 DEF AcquireConfig
<1>14. CASE CheckConfig(c)
  BY <1>14 DEF CheckConfig
<1>15. CASE Spawn(c)
  BY <1>15 DEF Spawn
<1>16. CASE Adopt(c)
  BY <1>16 DEF Adopt
<1>17. CASE ProbeHealthy(c)
  BY <1>17 DEF ProbeHealthy
<1>18. CASE ProbeFails(c)
  BY <1>18 DEF ProbeFails
<1>19. CASE CommitGone(c)
  BY <1>19 DEF CommitGone
<1>20. CASE CommitExited(c)
  BY <1>20 DEF CommitExited
<1>21. CASE CommitRunning(c)
  BY <1>21 DEF CommitRunning
<1>22. CASE Condemn(c)

  <2>1. PICK e \in {FALSE, SignalsFail} : termError' = [termError EXCEPT ![c] = e]
    BY <1>22 DEF Condemn, Terminate
  <2>2. e \in BOOLEAN
    BY <2>1
  <2>3. termError' \in [Callers -> BOOLEAN]
    BY <2>1, <2>2, Zenon
  <2> QED
    BY <1>22, <2>3 DEF StopChild, Condemn
<1>23. CASE StartFailure(c)
  BY <1>23 DEF StartFailure
<1>24. CASE EndStart(c)
  BY <1>24 DEF EndStart
<1>25. CASE CheckAcquire(c)
  BY <1>25 DEF CheckAcquire
<1>26. CASE CheckRun(c)
  BY <1>26 DEF CheckRun
<1>27. CASE Unlock(c)
  BY <1>27 DEF Unlock
<1>28. CASE \E v \in Bundles : VerifyVersion(c, v)
  BY <1>28 DEF VerifyVersion
<1> QED
  BY <1>1, <1>2, <1>3, <1>4, <1>5, <1>6, <1>7, <1>8, <1>9, <1>10, <1>11, <1>12, <1>13, <1>14,
     <1>15, <1>16, <1>17, <1>18, <1>19, <1>20, <1>21, <1>22, <1>23, <1>24, <1>25, <1>26, <1>27,
     <1>28 DEF Proceed

\* A step of a call is one of its operation.
LEMMA ProceedOperations ==
  ASSUME ManagerInv, StateInv, OperationInv, NEW c \in Callers, Proceed(c)
  PROVE  OperationInv'
<1> USE DEF ManagerInv, ControlTypes, StateInv, StartingInv, OperationInv,
        Starting, Judging, Steps, Unspawned, Operations, mgrVars, childVars, Goto, Finish
<1>1. CASE CancelStartup(c)
  BY <1>1 DEF CancelStartup
<1>2. CASE MarkClosing(c)
  BY <1>2 DEF MarkClosing
<1>3. CASE Enter(c)
  BY <1>3 DEF Enter, Refused, Blocked
<1>4. CASE Wait(c)
  BY <1>4 DEF Wait
<1>5. CASE StopNothing(c)
  BY <1>5 DEF StopNothing, AfterStop
<1>6. CASE StopChild(c)
  BY <1>6 DEF StopChild, Terminate
<1>7. CASE ChildDone(c)
  BY <1>7 DEF ChildDone, Terminated, AfterStop
<1>8. CASE WaitAbandoned(c)
  BY <1>8 DEF WaitAbandoned, Terminated, AfterStop, Kill
<1>9. CASE GraceExpired(c)
  BY <1>9 DEF GraceExpired, Terminated, AfterStop, Kill
<1>10. CASE Begin(c)
  BY <1>10 DEF Begin, Stopped
<1>11. CASE StepFails(c)
  BY <1>11 DEF StepFails
<1>12. CASE VerifyArtifact(c)
  BY <1>12 DEF VerifyArtifact
<1>13. CASE AcquireConfig(c)
  BY <1>13 DEF AcquireConfig
<1>14. CASE CheckConfig(c)
  BY <1>14 DEF CheckConfig
<1>15. CASE Spawn(c)
  BY <1>15 DEF Spawn
<1>16. CASE Adopt(c)
  BY <1>16 DEF Adopt
<1>17. CASE ProbeHealthy(c)
  BY <1>17 DEF ProbeHealthy
<1>18. CASE ProbeFails(c)
  BY <1>18 DEF ProbeFails
<1>19. CASE CommitGone(c)
  BY <1>19 DEF CommitGone
<1>20. CASE CommitExited(c)
  BY <1>20 DEF CommitExited
<1>21. CASE CommitRunning(c)
  BY <1>21 DEF CommitRunning
<1>22. CASE Condemn(c)
  BY <1>22 DEF Condemn, Terminate
<1>23. CASE StartFailure(c)
  BY <1>23 DEF StartFailure
<1>24. CASE EndStart(c)
  BY <1>24 DEF EndStart
<1>25. CASE CheckAcquire(c)
  BY <1>25 DEF CheckAcquire
<1>26. CASE CheckRun(c)
  BY <1>26 DEF CheckRun
<1>27. CASE Unlock(c)
  BY <1>27 DEF Unlock
<1>28. CASE \E v \in Bundles : VerifyVersion(c, v)
  BY <1>28 DEF VerifyVersion
<1> QED
  BY <1>1, <1>2, <1>3, <1>4, <1>5, <1>6, <1>7, <1>8, <1>9, <1>10, <1>11, <1>12, <1>13, <1>14,
     <1>15, <1>16, <1>17, <1>18, <1>19, <1>20, <1>21, <1>22, <1>23, <1>24, <1>25, <1>26, <1>27,
     <1>28 DEF Proceed

\* Only a startup sets the cancel function, and its last step clears it.
LEMMA ProceedCancel ==
  ASSUME ManagerInv, StateInv, OperationInv, CancelInv, NEW c \in Callers, Proceed(c)
  PROVE  CancelInv'
<1> USE ManagerAssumption DEF ManagerInv, ControlTypes, LockInv, FreeSteps, LockedSteps,
        StateInv, StartupInv, StartingInv, OperationInv, CancelInv, Starting, Judging, Awaiting,
        Steps, Unspawned, Operations, mgrVars, childVars, Goto, Finish, Children, InStartup
<1>1. CASE CancelStartup(c)
  BY <1>1 DEF CancelStartup
<1>2. CASE MarkClosing(c)
  BY <1>2 DEF MarkClosing
<1>3. CASE Enter(c)
  BY <1>3 DEF Enter, Refused, Blocked
<1>4. CASE Wait(c)
  BY <1>4 DEF Wait
<1>5. CASE StopNothing(c)
  BY <1>5 DEF StopNothing, AfterStop
<1>6. CASE StopChild(c)
  BY <1>6 DEF StopChild, Terminate
<1>7. CASE ChildDone(c)
  BY <1>7 DEF ChildDone, Terminated, AfterStop
<1>8. CASE WaitAbandoned(c)
  BY <1>8 DEF WaitAbandoned, Terminated, AfterStop, Kill
<1>9. CASE GraceExpired(c)
  BY <1>9 DEF GraceExpired, Terminated, AfterStop, Kill
<1>10. CASE Begin(c)
  BY <1>10 DEF Begin, Stopped
<1>11. CASE StepFails(c)
  BY <1>11 DEF StepFails
<1>12. CASE VerifyArtifact(c)
  BY <1>12 DEF VerifyArtifact
<1>13. CASE AcquireConfig(c)
  BY <1>13 DEF AcquireConfig
<1>14. CASE CheckConfig(c)
  BY <1>14 DEF CheckConfig
<1>15. CASE Spawn(c)
  BY <1>15 DEF Spawn
<1>16. CASE Adopt(c)
  BY <1>16 DEF Adopt
<1>17. CASE ProbeHealthy(c)
  BY <1>17 DEF ProbeHealthy
<1>18. CASE ProbeFails(c)
  BY <1>18 DEF ProbeFails
<1>19. CASE CommitGone(c)
  BY <1>19 DEF CommitGone
<1>20. CASE CommitExited(c)
  BY <1>20 DEF CommitExited
<1>21. CASE CommitRunning(c)
  BY <1>21 DEF CommitRunning
<1>22. CASE Condemn(c)
  BY <1>22 DEF Condemn, Terminate
<1>23. CASE StartFailure(c)
  BY <1>23 DEF StartFailure
<1>24. CASE EndStart(c)
  BY <1>24 DEF EndStart
<1>25. CASE CheckAcquire(c)
  BY <1>25 DEF CheckAcquire
<1>26. CASE CheckRun(c)
  BY <1>26 DEF CheckRun
<1>27. CASE Unlock(c)
  BY <1>27 DEF Unlock
<1>28. CASE \E v \in Bundles : VerifyVersion(c, v)
  BY <1>28 DEF VerifyVersion
<1> QED
  BY <1>1, <1>2, <1>3, <1>4, <1>5, <1>6, <1>7, <1>8, <1>9, <1>10, <1>11, <1>12, <1>13, <1>14,
     <1>15, <1>16, <1>17, <1>18, <1>19, <1>20, <1>21, <1>22, <1>23, <1>24, <1>25, <1>26, <1>27,
     <1>28 DEF Proceed

\* Where a call that waited for its child goes on: a startup that failed says so, and
\* a stop that succeeded left nothing behind.
LEMMA TerminatedOutcome ==
  ASSUME ManagerInv, CallTypes, CancelInv, OutcomeInv, NEW c \in Callers, NEW ok \in BOOLEAN,
         Terminated(c, ok), pc[c] \in Awaiting, ok => process = 0,
         UNCHANGED <<opHolder, op, target, startCancel, process, status, desired>>
  PROVE  OutcomeInv'
<1> USE DEF ManagerInv, ControlTypes, LockInv, FreeSteps, LockedSteps, Steps, CallTypes,
        CancelInv, OutcomeInv, Awaiting, Goto, Finish, InStartup
<1>1. opHolder = c /\ opHolder' = c
  BY ManagerAssumption
<1>2. OutcomeOf(c)
  BY <1>1
<1>3. CASE startCancel # 0
  <2>1. /\ pc'[c] = "endStart" /\ result'[c] = "error" /\ op[c] \in {"start", "restart"}
        /\ SettlesAs(target[c], "failed") /\ status.state = "failed"
    BY <1>1, <1>2, <1>3 DEF Terminated, OutcomeOf
  <2>2. OutcomeOf(c)'
    BY <2>1 DEF OutcomeOf, SettlesAs
  <2> QED
    BY <1>1, <2>2
<1>4. CASE startCancel = 0 /\ op[c] = "health"
  <2>1. pc'[c] = "unlock"
    BY <1>1, <1>4 DEF Terminated
  <2>2. OutcomeOf(c)'
    BY <1>4, <2>1 DEF OutcomeOf
  <2> QED
    BY <1>1, <2>2
<1>5. CASE startCancel = 0 /\ op[c] # "health"
  <2>1. SettlesAs(target[c], "stopped") /\ op[c] # "start"
    BY <1>1, <1>2, <1>5 DEF OutcomeOf
  <2>2. \/ pc'[c] = "begin"
        \/ pc'[c] = "unlock" /\ result'[c] = (IF ok THEN "ok" ELSE "error")
    BY <1>1, <1>5 DEF Terminated, AfterStop
  <2>3. OutcomeOf(c)'
    BY <1>5, <2>1, <2>2 DEF OutcomeOf, SettlesAs
  <2> QED
    BY <1>1, <2>3
<1> QED
  BY <1>3, <1>4, <1>5

\* A step of a call keeps what the status and the reapers promise it.
LEMMA ProceedOutcome ==
  ASSUME ManagerInv, StateInv, CallTypes, OperationInv, CancelInv, OutcomeInv,
         NEW c \in Callers, Proceed(c)
  PROVE  OutcomeInv'
<1> USE ManagerAssumption DEF ManagerInv, ControlTypes, LockInv, FreeSteps, LockedSteps,
        StateInv, StatusTypes, CallTypes, StartupInv, StartingInv, OperationInv, TargetInv,
        CancelInv, OutcomeInv, OutcomeOf, SettlesAs, Starting, Judging, Awaiting, Steps,
        Unspawned, Operations, mgrVars, childVars, Goto, Finish, Children, InStartup
<1>1. CASE CancelStartup(c)
  BY <1>1 DEF CancelStartup
<1>2. CASE MarkClosing(c)
  BY <1>2 DEF MarkClosing
<1>3. CASE Enter(c)

  <2>1. opHolder' = c /\ startCancel = 0 /\ startCancel' = 0 /\ opHolder = None
    BY <1>3 DEF Enter
  <2>2. pc'[c] \notin Awaiting \cup {"endStart"}
    BY <1>3 DEF Enter
  <2>3. pc'[c] = "unlock" => result'[c] = "refused"
    BY <1>3 DEF Enter
  <2>4. OutcomeOf(c)'
    BY <2>1, <2>2, <2>3
  <2> QED
    BY <2>1, <2>4
<1>4. CASE Wait(c)

  <2>1. opHolder' = opHolder /\ opHolder # c
    BY <1>4 DEF Wait
  <2>2. ASSUME NEW d \in Callers, d # c PROVE pc'[d] = pc[d] /\ result'[d] = result[d]
    BY <1>4, <2>2 DEF Wait
  <2>3. UNCHANGED <<op, target, startCancel, process, status, desired>>
    BY <1>4 DEF Wait
  <2> QED
    BY <2>1, <2>2, <2>3
<1>5. CASE StopNothing(c)
  BY <1>5 DEF StopNothing, AfterStop
<1>6. CASE StopChild(c)

  <2>1. pc[c] = "stop" /\ pc' = [pc EXCEPT ![c] = "await"] /\ opHolder' = opHolder /\ process # 0
    BY <1>6 DEF StopChild
  <2>2. /\ desired' = [desired EXCEPT ![process] = "stopped"]
        /\ target' = [target EXCEPT ![c] = process]
    BY <1>6 DEF StopChild
  <2>3. UNCHANGED <<op, startCancel, process, status>>
    BY <1>6 DEF StopChild
  <2>4. startCancel = 0 /\ opHolder = c
    BY <2>1
  <2>5. SettlesAs(target[c], "stopped")'
    BY <2>1, <2>2, <2>3
  <2>6. OutcomeOf(c)'
    BY <2>1, <2>3, <2>4, <2>5
  <2> QED
    BY <2>1, <2>4, <2>6
<1>7. CASE ChildDone(c)

  <2>1. Terminated(c, ~termError[c]) /\ pc[c] \in Awaiting
    BY <1>7 DEF ChildDone
  <2>2. UNCHANGED <<opHolder, op, target, startCancel, process, status, desired>>
    BY <1>7 DEF ChildDone
  <2>3. process = 0
    <3>1. target[c] \in Children /\ process \in {0, target[c]}
      BY <2>1
    <3>2. reaper[target[c]] = "done"
      BY <1>7 DEF ChildDone
    <3>3. process # target[c]
      BY <3>1, <3>2 DEF ReaperInv
    <3> QED
      BY <3>1, <3>3
  <2> QED
    BY <2>1, <2>2, <2>3, TerminatedOutcome
<1>8. CASE WaitAbandoned(c)

  <2>1. Terminated(c, FALSE) /\ pc[c] \in Awaiting
    BY <1>8 DEF WaitAbandoned
  <2>2. UNCHANGED <<opHolder, op, target, startCancel, process, status, desired>>
    BY <1>8 DEF WaitAbandoned
  <2> QED
    BY <2>1, <2>2, TerminatedOutcome
<1>9. CASE GraceExpired(c)

  <2>1. pc[c] = "await" /\ opHolder = c
    BY <1>9 DEF GraceExpired
  <2>2. UNCHANGED <<opHolder, op, target, startCancel, process, status, desired>>
    BY <1>9 DEF GraceExpired
  <2>3. CASE Terminated(c, FALSE)
    BY <2>1, <2>2, <2>3, TerminatedOutcome
  <2>4. CASE pc' = [pc EXCEPT ![c] = "awaitKilled"] /\ UNCHANGED result
    <3>1. pc'[c] = "awaitKilled"
      BY <2>4
    <3>2. OutcomeOf(c)'
      BY <2>1, <2>2, <3>1
    <3> QED
      BY <2>1, <2>2, <3>2
  <2> QED
    BY <1>9, <2>3, <2>4 DEF GraceExpired
<1>10. CASE Begin(c)

  <2>0. pc[c] = "begin" /\ pc' = [pc EXCEPT ![c] = "verify"] /\ opHolder' = opHolder
    BY <1>10 DEF Begin
  <2>1. opHolder' = c /\ pc'[c] = "verify"
    BY <2>0
  <2> QED
    BY <2>1
<1>11. CASE StepFails(c)
  BY <1>11 DEF StepFails
<1>12. CASE VerifyArtifact(c)
  BY <1>12 DEF VerifyArtifact
<1>13. CASE AcquireConfig(c)
  BY <1>13 DEF AcquireConfig
<1>14. CASE CheckConfig(c)
  BY <1>14 DEF CheckConfig
<1>15. CASE Spawn(c)
  BY <1>15 DEF Spawn
<1>16. CASE Adopt(c)
  BY <1>16 DEF Adopt
<1>17. CASE ProbeHealthy(c)
  BY <1>17 DEF ProbeHealthy
<1>18. CASE ProbeFails(c)
  BY <1>18 DEF ProbeFails
<1>19. CASE CommitGone(c)
  BY <1>19 DEF CommitGone
<1>20. CASE CommitExited(c)
  BY <1>20 DEF CommitExited
<1>21. CASE CommitRunning(c)

  <2>1. opHolder' = c /\ pc'[c] \in {"endStart", "unlock"} /\ pc[c] = "commit"
    BY <1>21 DEF CommitRunning
  <2>2. status'.state = "running" /\ UNCHANGED <<op, target, startCancel, process, desired>>
    BY <1>21 DEF CommitRunning
  <2>3. process # 0 /\ op[c] \in {"start", "restart", "health"}
    BY <1>21 DEF CommitRunning
  <2>4. op[c] = "start" => result'[c] = "ok" /\ desired[process] = "failed"
    BY <1>21, <2>3 DEF CommitRunning
  <2>5. OutcomeOf(c)'
    BY <2>1, <2>2, <2>3, <2>4
  <2> QED
    BY <2>1, <2>5
<1>22. CASE Condemn(c)

  <2>0. pc[c] = "condemn" /\ pc' = [pc EXCEPT ![c] = "await"] /\ opHolder' = opHolder
    BY <1>22 DEF Condemn
  <2>10. opHolder = c
    BY <2>0
  <2>11. pc'[c] = "await"
    BY <2>0
  <2>1. opHolder' = c /\ pc'[c] = "await" /\ pc[c] = "condemn"
    BY <2>0, <2>10, <2>11
  <2>2. UNCHANGED <<op, target, startCancel, process>>
    BY <1>22 DEF Condemn
  <2>3. startCancel = 0 => op[c] = "health"
    BY <2>1
  <2>4. CASE process = target[c]
    <3>0. /\ desired' = [desired EXCEPT ![process] = "failed"]
          /\ status' = [status EXCEPT !.state = "failed", !.healthy = FALSE]
      BY <1>22, <2>4 DEF Condemn
    <3>1. status'.state = "failed" /\ process # 0
      BY <3>0, <2>1, <2>4
    <3>2. process \in Children
      BY <3>1
    <3>3. OutcomeOf(c)'
      BY <2>1, <2>2, <2>3, <2>4, <3>0, <3>1, <3>2
    <3> QED
      BY <2>1, <3>3
  <2>5. CASE process # target[c]
    <3>1. UNCHANGED <<desired, status>> /\ process = 0
      BY <1>22, <2>1, <2>5 DEF Condemn
    <3>2. OutcomeOf(c)'
      BY <2>1, <2>2, <2>3, <2>5, <3>1
    <3> QED
      BY <2>1, <3>2
  <2> QED
    BY <2>4, <2>5
<1>23. CASE StartFailure(c)
  BY <1>23 DEF StartFailure
<1>24. CASE EndStart(c)
  BY <1>24 DEF EndStart
<1>25. CASE CheckAcquire(c)
  BY <1>25 DEF CheckAcquire
<1>26. CASE CheckRun(c)
  BY <1>26 DEF CheckRun
<1>27. CASE Unlock(c)
  BY <1>27 DEF Unlock
<1>28. CASE \E v \in Bundles : VerifyVersion(c, v)
  BY <1>28 DEF VerifyVersion
<1> QED
  BY <1>1, <1>2, <1>3, <1>4, <1>5, <1>6, <1>7, <1>8, <1>9, <1>10, <1>11, <1>12, <1>13, <1>14,
     <1>15, <1>16, <1>17, <1>18, <1>19, <1>20, <1>21, <1>22, <1>23, <1>24, <1>25, <1>26, <1>27,
     <1>28 DEF Proceed

\* A step of a call keeps the counts of the files, and each handle where it belongs.
LEMMA ProceedFiles ==
  ASSUME ManagerInv, StateInv, OperationInv, FileInv, NEW c \in Callers, Proceed(c)
  PROVE  FileInv'
<1> USE ManagerAssumption DEF ManagerInv, ControlTypes, LockInv, FreeSteps, LockedSteps,
        StateInv, StatusTypes, StartupInv, StartingInv, OperationInv, FileInv, HandleInv,
        Keeping, Starting, Steps, Unspawned, mgrVars, childVars, configVars, Goto, Finish,
        Children
<1>0. held \in [Callers \cup Children -> Bundles \cup {None}] /\ \A g \in Children : g # c
  BY HeldTypes, Apart
<1>1. CASE CancelStartup(c)

  <2>1. UNCHANGED configVars
    BY <1>1 DEF CancelStartup
  <2>2. HandleInv'
    BY <1>1, <2>1 DEF CancelStartup
  <2> QED
    BY <2>1, <2>2, UnchangedFiles
<1>2. CASE MarkClosing(c)

  <2>1. UNCHANGED configVars
    BY <1>2 DEF MarkClosing
  <2>2. HandleInv'
    BY <1>2, <2>1 DEF MarkClosing
  <2> QED
    BY <2>1, <2>2, UnchangedFiles
<1>3. CASE Enter(c)

  <2>1. UNCHANGED configVars
    BY <1>3 DEF Enter, Refused, Blocked
  <2>2. HandleInv'
    BY <1>3, <2>1 DEF Enter, Refused, Blocked
  <2> QED
    BY <2>1, <2>2, UnchangedFiles
<1>4. CASE Wait(c)

  <2>1. UNCHANGED configVars
    BY <1>4 DEF Wait
  <2>2. HandleInv'
    BY <1>4, <2>1 DEF Wait
  <2> QED
    BY <2>1, <2>2, UnchangedFiles
<1>5. CASE StopNothing(c)

  <2>1. UNCHANGED configVars
    BY <1>5 DEF StopNothing, AfterStop
  <2>2. HandleInv'
    BY <1>5, <2>1 DEF StopNothing, AfterStop
  <2> QED
    BY <2>1, <2>2, UnchangedFiles
<1>6. CASE StopChild(c)

  <2>1. UNCHANGED configVars
    BY <1>6 DEF StopChild, Terminate
  <2>2. HandleInv'
    BY <1>6, <2>1 DEF StopChild, Terminate
  <2> QED
    BY <2>1, <2>2, UnchangedFiles
<1>7. CASE ChildDone(c)

  <2>1. UNCHANGED configVars
    BY <1>7 DEF ChildDone, Terminated, AfterStop
  <2>2. HandleInv'
    BY <1>7, <2>1 DEF ChildDone, Terminated, AfterStop
  <2> QED
    BY <2>1, <2>2, UnchangedFiles
<1>8. CASE WaitAbandoned(c)

  <2>1. UNCHANGED configVars
    BY <1>8 DEF WaitAbandoned, Terminated, AfterStop, Kill
  <2>2. HandleInv'
    BY <1>8, <2>1 DEF WaitAbandoned, Terminated, AfterStop, Kill
  <2> QED
    BY <2>1, <2>2, UnchangedFiles
<1>9. CASE GraceExpired(c)

  <2>1. UNCHANGED configVars
    BY <1>9 DEF GraceExpired, Terminated, AfterStop, Kill
  <2>2. HandleInv'
    BY <1>9, <2>1 DEF GraceExpired, Terminated, AfterStop, Kill
  <2> QED
    BY <2>1, <2>2, UnchangedFiles
<1>10. CASE Begin(c)

  <2>1. UNCHANGED configVars
    BY <1>10 DEF Begin, Stopped
  <2>2. HandleInv'
    BY <1>10, <2>1 DEF Begin, Stopped
  <2> QED
    BY <2>1, <2>2, UnchangedFiles
<1>11. CASE StepFails(c)

  <2>1. pc[c] \in Unspawned /\ pc' = [pc EXCEPT ![c] = "fail"] /\ UNCHANGED <<bundle, reaper>>
    BY <1>11 DEF StepFails
  <2>2. bundle[c] \in Bundles
    BY <2>1
  <2>3. held' = held /\ Configs!ConfigsInv'
    <3>1. CASE UNCHANGED configVars
      BY <3>1, UnchangedFiles
    <3>2. CASE Configs!AcquireFails(c, bundle[c])
      BY <2>2, <3>2, FailureKeeps
    <3> QED
      BY <1>11, <3>1, <3>2 DEF StepFails
  <2>4. HandleInv'
    BY <2>1, <2>3
  <2> QED
    BY <2>3, <2>4
<1>12. CASE VerifyArtifact(c)

  <2>1. UNCHANGED configVars
    BY <1>12 DEF VerifyArtifact
  <2>2. HandleInv'
    BY <1>12, <2>1 DEF VerifyArtifact
  <2> QED
    BY <2>1, <2>2, UnchangedFiles
<1>13. CASE AcquireConfig(c)

  <2>1. pc[c] = "acquire" /\ pc' = [pc EXCEPT ![c] = "check"] /\ UNCHANGED <<bundle, reaper>>
    BY <1>13 DEF AcquireConfig
  <2>2. bundle[c] \in Bundles /\ Configs!Acquire(c, bundle[c])
    BY <1>13, <2>1 DEF AcquireConfig
  <2>3. held' = [held EXCEPT ![c] = bundle[c]] /\ Configs!ConfigsInv'
    BY <2>2, AcquireKeeps
  <2>4. HandleInv'
    BY <1>0, <2>1, <2>2, <2>3
  <2> QED
    BY <2>3, <2>4
<1>14. CASE CheckConfig(c)

  <2>1. UNCHANGED configVars
    BY <1>14 DEF CheckConfig
  <2>2. HandleInv'
    BY <1>14, <2>1 DEF CheckConfig
  <2> QED
    BY <2>1, <2>2, UnchangedFiles
<1>15. CASE Spawn(c)

  <2>1. UNCHANGED configVars
    BY <1>15 DEF Spawn
  <2>2. HandleInv'
    BY <1>15, <2>1 DEF Spawn
  <2> QED
    BY <2>1, <2>2, UnchangedFiles
<1>16. CASE Adopt(c)

  <2>1. pc[c] = "adopt" /\ pc' = [pc EXCEPT ![c] = "probe"] /\ UNCHANGED bundle
    BY <1>16 DEF Adopt
  <2>2. generation \in Children /\ reaper[generation] = "none" /\ generation # c
    BY <2>1
  <2>11. held[generation] = None
    BY <2>2
  <2>12. bundle[c] \in Bundles /\ held[c] = bundle[c]
    BY <2>1
  <2>3. held[generation] = None /\ held[c] # None
    BY <2>11, <2>12
  <2>4. reaper' = [reaper EXCEPT ![generation] = "waiting"]
    BY <1>16 DEF Adopt
  <2>5. /\ held' = [held EXCEPT ![generation] = held[c], ![c] = None]
        /\ UNCHANGED <<users, tracked, disk>>
    BY <1>16 DEF Adopt
  <2>6. Configs!ConfigsInv'
    BY <2>2, <2>3, <2>5, HandOver
  <2>7. /\ held'[generation] # None /\ held'[c] = None
        /\ \A h \in Callers \cup Children : h \notin {c, generation} => held'[h] = held[h]
    BY <1>0, <2>2, <2>3, <2>5
  <2>8. HandleInv'
    <3>1. \A d \in Callers : pc'[d] \notin Keeping
      BY <2>1
    <3>2. \A d \in Callers : held'[d] # None => d # c /\ held[d] # None
      BY <2>2, <2>7
    <3>3. \A g \in Children : held'[g] # None <=> reaper'[g] \in {"waiting", "exited"}
      <4>1. ASSUME NEW g \in Children, g # generation
            PROVE  held'[g] = held[g] /\ reaper'[g] = reaper[g]
        BY <1>0, <2>4, <2>7, <4>1
      <4>2. held'[generation] # None /\ reaper'[generation] = "waiting"
        BY <2>2, <2>4, <2>7
      <4> QED
        BY <4>1, <4>2
    <3> QED
      BY <2>1, <3>1, <3>2, <3>3
  <2> QED
    BY <2>6, <2>8
<1>17. CASE ProbeHealthy(c)

  <2>1. UNCHANGED configVars
    BY <1>17 DEF ProbeHealthy
  <2>2. HandleInv'
    BY <1>17, <2>1 DEF ProbeHealthy
  <2> QED
    BY <2>1, <2>2, UnchangedFiles
<1>18. CASE ProbeFails(c)

  <2>1. UNCHANGED configVars
    BY <1>18 DEF ProbeFails
  <2>2. HandleInv'
    BY <1>18, <2>1 DEF ProbeFails
  <2> QED
    BY <2>1, <2>2, UnchangedFiles
<1>19. CASE CommitGone(c)

  <2>1. UNCHANGED configVars
    BY <1>19 DEF CommitGone
  <2>2. HandleInv'
    BY <1>19, <2>1 DEF CommitGone
  <2> QED
    BY <2>1, <2>2, UnchangedFiles
<1>20. CASE CommitExited(c)

  <2>1. UNCHANGED configVars
    BY <1>20 DEF CommitExited
  <2>2. HandleInv'
    BY <1>20, <2>1 DEF CommitExited
  <2> QED
    BY <2>1, <2>2, UnchangedFiles
<1>21. CASE CommitRunning(c)

  <2>1. UNCHANGED configVars
    BY <1>21 DEF CommitRunning
  <2>2. HandleInv'
    BY <1>21, <2>1 DEF CommitRunning
  <2> QED
    BY <2>1, <2>2, UnchangedFiles
<1>22. CASE Condemn(c)

  <2>1. UNCHANGED configVars
    BY <1>22 DEF Condemn, Terminate
  <2>2. HandleInv'
    BY <1>22, <2>1 DEF Condemn, Terminate
  <2> QED
    BY <2>1, <2>2, UnchangedFiles
<1>23. CASE StartFailure(c)

  <2>1. UNCHANGED configVars
    BY <1>23 DEF StartFailure
  <2>2. HandleInv'
    BY <1>23, <2>1 DEF StartFailure
  <2> QED
    BY <2>1, <2>2, UnchangedFiles
<1>24. CASE EndStart(c)

  <2>1. pc[c] = "endStart" /\ pc' = [pc EXCEPT ![c] = "unlock"] /\ UNCHANGED <<bundle, reaper>>
    BY <1>24 DEF EndStart
  <2>2. CASE Configs!Release(c)
    <3>1. held' = [held EXCEPT ![c] = None] /\ Configs!ConfigsInv'
      BY <2>2, ReleaseKeeps
    <3>2. HandleInv'
      BY <1>0, <2>1, <3>1
    <3> QED
      BY <3>1, <3>2
  <2>3. CASE held[c] = None /\ UNCHANGED configVars
    <3>1. HandleInv'
      BY <1>0, <2>1, <2>3
    <3> QED
      BY <2>3, <3>1, UnchangedFiles
  <2> QED
    BY <1>24, <2>2, <2>3 DEF EndStart
<1>25. CASE CheckAcquire(c)

  <2>1. pc[c] = "checkAcquire" /\ UNCHANGED <<bundle, reaper>> /\ bundle[c] \in Bundles
    BY <1>25 DEF CheckAcquire
  <2>2. CASE Configs!Acquire(c, bundle[c]) /\ Goto(c, "checkRun")
    <3>1. held' = [held EXCEPT ![c] = bundle[c]] /\ Configs!ConfigsInv'
      BY <2>1, <2>2, AcquireKeeps
    <3>2. HandleInv'
      BY <1>0, <2>1, <2>2, <3>1
    <3> QED
      BY <3>1, <3>2
  <2>3. CASE Configs!AcquireFails(c, bundle[c]) /\ Finish(c, "error")
    <3>1. held' = held /\ Configs!ConfigsInv'
      BY <2>1, <2>3, FailureKeeps
    <3>2. HandleInv'
      BY <1>0, <2>1, <2>3, <3>1
    <3> QED
      BY <3>1, <3>2
  <2> QED
    BY <1>25, <2>2, <2>3 DEF CheckAcquire
<1>26. CASE CheckRun(c)

  <2>1. pc[c] = "checkRun" /\ pc' = [pc EXCEPT ![c] = "unlock"] /\ UNCHANGED <<bundle, reaper>>
    BY <1>26 DEF CheckRun
  <2>2. CASE Configs!Release(c)
    <3>1. held' = [held EXCEPT ![c] = None] /\ Configs!ConfigsInv'
      BY <2>2, ReleaseKeeps
    <3>2. HandleInv'
      BY <1>0, <2>1, <3>1
    <3> QED
      BY <3>1, <3>2
  <2>3. CASE held[c] = None /\ UNCHANGED configVars
    <3>1. HandleInv'
      BY <1>0, <2>1, <2>3
    <3> QED
      BY <2>3, <3>1, UnchangedFiles
  <2> QED
    BY <1>26, <2>2, <2>3 DEF CheckRun
<1>27. CASE Unlock(c)

  <2>1. UNCHANGED configVars
    BY <1>27 DEF Unlock
  <2>2. HandleInv'
    BY <1>27, <2>1 DEF Unlock
  <2> QED
    BY <2>1, <2>2, UnchangedFiles
<1>28. CASE \E v \in Bundles : VerifyVersion(c, v)
  <2>1. UNCHANGED configVars
    BY <1>28 DEF VerifyVersion
  <2>2. HandleInv'
    BY <1>28, <2>1 DEF VerifyVersion
  <2> QED
    BY <2>1, <2>2, UnchangedFiles
<1> QED
  BY <1>1, <1>2, <1>3, <1>4, <1>5, <1>6, <1>7, <1>8, <1>9, <1>10, <1>11, <1>12, <1>13, <1>14,
     <1>15, <1>16, <1>17, <1>18, <1>19, <1>20, <1>21, <1>22, <1>23, <1>24, <1>25, <1>26, <1>27,
     <1>28 DEF Proceed

\* A step of a call fills the status in only with what it verified.
LEMMA ProceedVerified ==
  ASSUME ManagerInv, StateInv, FileInv, VerifiedInv, NEW c \in Callers, Proceed(c)
  PROVE  VerifiedInv'
<1> USE ManagerAssumption DEF ManagerInv, ControlTypes, LockInv, FreeSteps, LockedSteps,
        StateInv, StatusTypes, StartupInv, StartingInv, FileInv, HandleInv, VerifiedInv,
        Keeping, Starting, Steps, Unspawned, mgrVars, childVars, configVars, Goto, Finish,
        Children
<1>0. held \in [Callers \cup Children -> Bundles \cup {None}] /\ \A g \in Children : g # c
  BY HeldTypes, Apart
<1>1. CASE CancelStartup(c)
  BY <1>1 DEF CancelStartup
<1>2. CASE MarkClosing(c)
  BY <1>2 DEF MarkClosing
<1>3. CASE Enter(c)
  BY <1>3 DEF Enter, Refused, Blocked
<1>4. CASE Wait(c)
  BY <1>4 DEF Wait
<1>5. CASE StopNothing(c)
  BY <1>5 DEF StopNothing, AfterStop
<1>6. CASE StopChild(c)
  BY <1>6 DEF StopChild, Terminate
<1>7. CASE ChildDone(c)
  BY <1>7 DEF ChildDone, Terminated, AfterStop
<1>8. CASE WaitAbandoned(c)
  BY <1>8 DEF WaitAbandoned, Terminated, AfterStop, Kill
<1>9. CASE GraceExpired(c)
  BY <1>9 DEF GraceExpired, Terminated, AfterStop, Kill
<1>10. CASE Begin(c)

  <2>1. pc[c] = "begin" /\ pc' = [pc EXCEPT ![c] = "verify"]
    BY <1>10 DEF Begin
  <2>2. status' = [Stopped EXCEPT !.state = "starting", !.bundle = bundle[c]]
    BY <1>10 DEF Begin
  <2>3. status'.bundle = bundle[c] /\ status'.state = "starting"
    BY <2>2 DEF Stopped
  <2>4. opHolder = c /\ process = 0 /\ process' = process /\ bundle' = bundle
    BY <1>10, <2>1 DEF Begin
  <2>5. \A d \in Callers : d # c => pc'[d] \notin Unspawned \cup {"adopt"}
    BY <2>1, <2>4
  <2>6. pc'[c] = "verify"
    BY <2>1
  <2> QED
    BY <2>3, <2>4, <2>5, <2>6
<1>11. CASE StepFails(c)
  BY <1>11 DEF StepFails
<1>12. CASE VerifyArtifact(c)
  BY <1>12 DEF VerifyArtifact
<1>13. CASE AcquireConfig(c)
  BY <1>13 DEF AcquireConfig
<1>14. CASE CheckConfig(c)
  BY <1>14 DEF CheckConfig
<1>15. CASE Spawn(c)
  BY <1>15 DEF Spawn
<1>16. CASE Adopt(c)

  <2>1. pc[c] = "adopt" /\ pc' = [pc EXCEPT ![c] = "probe"] /\ bundle' = bundle
    BY <1>16 DEF Adopt
  <2>2. /\ status' = [status EXCEPT !.pid = generation]
        /\ process' = generation /\ generation \in Children
    BY <1>16 DEF Adopt
  <2>3. /\ status'.pid = generation /\ status'.bundle = status.bundle
        /\ status'.artifact = status.artifact /\ status'.version = status.version
        /\ status'.state = status.state /\ status'.healthy = status.healthy
    BY <2>2
  <2>7. generation # c /\ held' = [held EXCEPT ![generation] = held[c], ![c] = None]
    BY <1>16, <1>0, <2>2 DEF Adopt
  <2>8. held[c] = bundle[c]
    BY <2>1
  <2>4. held'[generation] = held[c] /\ held[c] = bundle[c]
    BY <1>0, <2>2, <2>7, <2>8
  <2>5. \A d \in Callers : pc'[d] \notin Unspawned \cup {"adopt"}
    BY <2>1
  <2>6. status.bundle = bundle[c] /\ status.artifact = bundle[c] /\ status.version = bundle[c]
    BY <2>1
  <2> QED
    BY <2>2, <2>3, <2>4, <2>5, <2>6
<1>17. CASE ProbeHealthy(c)
  BY <1>17 DEF ProbeHealthy
<1>18. CASE ProbeFails(c)
  BY <1>18 DEF ProbeFails
<1>19. CASE CommitGone(c)
  BY <1>19 DEF CommitGone
<1>20. CASE CommitExited(c)
  BY <1>20 DEF CommitExited
<1>21. CASE CommitRunning(c)
  BY <1>21 DEF CommitRunning
<1>22. CASE Condemn(c)

  <2>1. pc[c] = "condemn" /\ pc' = [pc EXCEPT ![c] = "await"]
    BY <1>22 DEF Condemn
  <2>2. UNCHANGED <<bundle, process, held>>
    BY <1>22 DEF Condemn
  <2>3. CASE UNCHANGED status
    BY <2>1, <2>2, <2>3
  <2>4. CASE status' = [status EXCEPT !.state = "failed", !.healthy = FALSE]
    <3>1. status'.bundle = status.bundle /\ status'.artifact = status.artifact
          /\ status'.version = status.version /\ status'.pid = status.pid /\ status'.state = "failed"
      BY <2>4
    <3> QED
      BY <2>1, <2>2, <3>1
  <2> QED
    BY <1>22, <2>3, <2>4 DEF Condemn
<1>23. CASE StartFailure(c)
  BY <1>23 DEF StartFailure
<1>24. CASE EndStart(c)

  <2>1. PICK s \in Steps : pc' = [pc EXCEPT ![c] = s] /\ s \notin Unspawned \cup {"adopt"}
    BY <1>24 DEF EndStart
  <2>2. UNCHANGED <<bundle, process, status>>
    BY <1>24 DEF EndStart
  <2>3. held' = held \/ \E d \in Bundles \cup {None} : held' = [held EXCEPT ![c] = d]
    BY <1>24 DEF EndStart, Configs!Release
  <2>4. \A g \in Children : held'[g] = held[g]
    BY <2>3, <1>0
  <2> QED
    BY <2>1, <2>2, <2>4
<1>25. CASE CheckAcquire(c)

  <2>1. PICK s \in Steps : pc' = [pc EXCEPT ![c] = s] /\ s \notin Unspawned \cup {"adopt"}
    BY <1>25 DEF CheckAcquire
  <2>2. UNCHANGED <<bundle, process, status>>
    BY <1>25 DEF CheckAcquire
  <2>3. held' = held \/ \E d \in Bundles \cup {None} : held' = [held EXCEPT ![c] = d]
    BY <1>25 DEF CheckAcquire, Configs!Acquire, Configs!AcquireFails
  <2>4. \A g \in Children : held'[g] = held[g]
    BY <2>3, <1>0
  <2> QED
    BY <2>1, <2>2, <2>4
<1>26. CASE CheckRun(c)

  <2>1. PICK s \in Steps : pc' = [pc EXCEPT ![c] = s] /\ s \notin Unspawned \cup {"adopt"}
    BY <1>26 DEF CheckRun
  <2>2. UNCHANGED <<bundle, process, status>>
    BY <1>26 DEF CheckRun
  <2>3. held' = held \/ \E d \in Bundles \cup {None} : held' = [held EXCEPT ![c] = d]
    <3>1. Configs!Release(c)
      BY <1>26 DEF CheckRun
    <3> QED
      BY <3>1 DEF Configs!Release
  <2>4. \A g \in Children : held'[g] = held[g]
    BY <2>3, <1>0
  <2> QED
    BY <2>1, <2>2, <2>4
<1>27. CASE Unlock(c)
  BY <1>27 DEF Unlock
<1>28. CASE \E v \in Bundles : VerifyVersion(c, v)
  <2>1. PICK v \in Bundles : VerifyVersion(c, v)
    BY <1>28
  <2>2. pc[c] = "version" /\ pc' = [pc EXCEPT ![c] = IF v = bundle[c] THEN "acquire" ELSE "fail"]
    BY <2>1 DEF VerifyVersion
  <2>3. /\ status' = [status EXCEPT !.version = v]
        /\ UNCHANGED <<bundle, process, held>> /\ process = 0
    BY <2>1 DEF VerifyVersion
  <2>4. status'.version = v /\ status'.bundle = status.bundle /\ status'.artifact = status.artifact
        /\ status'.state = status.state /\ status'.healthy = status.healthy
    BY <2>3
  <2>5. ASSUME NEW d \in Callers, d # c PROVE pc'[d] \notin Unspawned \cup {"adopt"}
    <3>1. opHolder = c
      BY <2>2
    <3>2. pc'[d] = pc[d] /\ pc[d] \notin LockedSteps
      BY <2>2, <2>5, <3>1
    <3> QED
      BY <3>2
  <2>6. pc'[c] \in {"acquire", "fail"} /\ (pc'[c] = "acquire" => v = bundle[c])
    BY <2>2
  <2> QED
    BY <2>2, <2>3, <2>4, <2>5, <2>6
<1> QED
  BY <1>1, <1>2, <1>3, <1>4, <1>5, <1>6, <1>7, <1>8, <1>9, <1>10, <1>11, <1>12, <1>13, <1>14,
     <1>15, <1>16, <1>17, <1>18, <1>19, <1>20, <1>21, <1>22, <1>23, <1>24, <1>25, <1>26, <1>27,
     <1>28 DEF Proceed

\* New calls, ended contexts and the exit of the child keep all of it.
LEMMA OutsideOutcomes ==
  ASSUME ManagerInv, StateInv, ReturnInv,
         \/ \E c \in Callers, o \in Operations, b \in Bundles : Call(c, o, b)
         \/ \E c \in Callers : EndContext(c)
         \/ \E g \in Children : ChildExits(g)
  PROVE  ReturnInv'
<1> USE DEF ReturnInv
<1>1. ASSUME NEW c \in Callers, NEW o \in Operations, NEW b \in Bundles, Call(c, o, b)
      PROVE  ReturnInv'
  <2>1. PICK s \in {"cancel", "closing", "waiting", "lock"} :
          /\ pc[c] = "idle" /\ pc' = [pc EXCEPT ![c] = s]
          /\ s = "cancel" => o \in {"stop", "restart"}
          /\ s = "closing" => o = "close"
          /\ s = "lock" => o # "wait"
    BY <1>1 DEF Call, Goto
  <2>2. op' = [op EXCEPT ![c] = o]
    BY <1>1 DEF Call
  <2>3. bundle' = [bundle EXCEPT ![c] = IF o \in {"start", "restart", "check"} THEN b ELSE None]
    BY <1>1 DEF Call
  <2>4. UNCHANGED <<opHolder, result, ctxDone, target, termError, mgrVars, childVars, configVars>>
    BY <1>1 DEF Call
  <2>5. opHolder # c
    BY <2>1 DEF ManagerInv, LockInv, FreeSteps
  <2> USE DEF ManagerInv, ControlTypes, StateInv, StatusTypes, Steps
  <2>6. CallTypes'
    BY <2>4 DEF CallTypes, mgrVars
  <2>7. OperationInv'
    BY <2>1, <2>2, <2>3 DEF OperationInv, Judging, Operations
  <2>8. CancelInv'
    BY <2>1, <2>2, <2>4, <2>5 DEF CancelInv, Starting, Unspawned, Judging, Awaiting, mgrVars
  <2>9. OutcomeInv'
    BY <2>1, <2>2, <2>4, <2>5 DEF OutcomeInv, OutcomeOf, SettlesAs, mgrVars, childVars
  <2>10. FileInv'
    <3>1. HandleInv'
      BY <2>1, <2>3, <2>4 DEF FileInv, HandleInv, Keeping, configVars, childVars
    <3> QED
      BY <2>4, <3>1, UnchangedFiles DEF FileInv
  <2>11. VerifiedInv'
    BY <2>1, <2>3, <2>4 DEF VerifiedInv, Unspawned, Keeping, configVars, mgrVars
  <2> QED
    BY <2>6, <2>7, <2>8, <2>9, <2>10, <2>11
<1>2. ASSUME NEW c \in Callers, EndContext(c) PROVE ReturnInv'
  <2>1. /\ UNCHANGED <<opHolder, pc, op, bundle, result, target, termError>>
        /\ UNCHANGED <<mgrVars, childVars, configVars>>
        /\ ctxDone' = [ctxDone EXCEPT ![c] = TRUE]
    BY <1>2 DEF EndContext
  <2>2. CallTypes' /\ OperationInv' /\ CancelInv'
    BY <2>1 DEF CallTypes, OperationInv, CancelInv, mgrVars
  <2>3. OutcomeInv' /\ HandleInv' /\ VerifiedInv'
    BY <2>1 DEF OutcomeInv, OutcomeOf, SettlesAs, FileInv, HandleInv, VerifiedInv, mgrVars,
       childVars, configVars
  <2> QED
    BY <2>1, <2>2, <2>3, UnchangedFiles DEF FileInv
<1>3. ASSUME NEW g \in Children, ChildExits(g) PROVE ReturnInv'
  <2>1. UNCHANGED <<callVars, mgrVars, reaper, desired, configVars>>
    BY <1>3 DEF ChildExits
  <2>2. CallTypes' /\ OperationInv' /\ CancelInv'
    BY <2>1 DEF CallTypes, OperationInv, CancelInv, callVars, mgrVars
  <2>3. OutcomeInv' /\ HandleInv' /\ VerifiedInv'
    BY <2>1 DEF OutcomeInv, OutcomeOf, SettlesAs, FileInv, HandleInv, VerifiedInv, callVars,
       mgrVars, configVars
  <2> QED
    BY <2>1, <2>2, <2>3, UnchangedFiles DEF FileInv
<1> QED
  BY <1>1, <1>2, <1>3

\* The reaper settles a child as it was told, after it gave its file back.
LEMMA ReapOutcomes ==
  ASSUME ManagerInv, StateInv, ReturnInv, NEW g \in Children, Reap(g)
  PROVE  ReturnInv'
<1> USE DEF ReturnInv
<1>0. /\ UNCHANGED <<opHolder, pc, op, bundle, result, ctxDone, target, termError>>
      /\ UNCHANGED <<startCancel, cancelled, closing>>
  BY DEF Reap, ReapExit, ReapRelease, ReapSettle, ReapDone, callVars, mgrVars
<1>1. CallTypes' /\ OperationInv' /\ CancelInv'
  BY <1>0 DEF CallTypes, OperationInv, CancelInv
<1>2. reaper \in [Children -> {"none", "waiting", "exited", "released", "settled", "done"}]
  BY DEF ManagerInv, ControlTypes
<1>3. CASE ReapExit(g) \/ ReapDone(g)
  <2>1. UNCHANGED <<process, status, desired, configVars>>
    BY <1>3 DEF ReapExit, ReapDone, mgrVars
  <2>2. \A h \in Children :
          reaper'[h] \in {"waiting", "exited"} <=> reaper[h] \in {"waiting", "exited"}
    BY <1>3, <1>2 DEF ReapExit, ReapDone
  <2>3. OutcomeInv' /\ HandleInv' /\ VerifiedInv'
    BY <1>0, <2>1, <2>2 DEF OutcomeInv, OutcomeOf, SettlesAs, FileInv, HandleInv, VerifiedInv,
       configVars
  <2> QED
    BY <1>1, <2>1, <2>3, UnchangedFiles DEF FileInv
<1>4. CASE ReapRelease(g)
  <2>1. UNCHANGED <<process, status, desired>> /\ reaper' = [reaper EXCEPT ![g] = "released"]
    BY <1>4 DEF ReapRelease, mgrVars
  <2>2. held' = [held EXCEPT ![g] = None] /\ Configs!ConfigsInv'
    BY <1>4, ReleaseKeeps DEF ReapRelease, FileInv
  <2>3. OutcomeInv'
    BY <1>0, <2>1 DEF OutcomeInv, OutcomeOf, SettlesAs
  <2>4. HandleInv'
    <3>1. \A c \in Callers : held'[c] = held[c]
      BY <2>2, HeldTypes, Apart
    <3>2. \A h \in Children : held'[h] # None <=> reaper'[h] \in {"waiting", "exited"}
      BY <1>2, <2>1, <2>2, HeldTypes DEF FileInv, HandleInv
    <3> QED
      BY <1>0, <3>1, <3>2 DEF FileInv, HandleInv
  <2>5. VerifiedInv'
    <3>1. process # 0 => (held'[process] # None => held'[process] = held[process])
      BY <2>2, HeldTypes DEF ManagerInv, ControlTypes
    <3> QED
      BY <1>0, <2>1, <3>1 DEF VerifiedInv
  <2> QED
    BY <1>1, <2>2, <2>3, <2>4, <2>5 DEF FileInv
<1>5. CASE ReapSettle(g)
  <2>1. /\ reaper[g] = "released" /\ reaper' = [reaper EXCEPT ![g] = "settled"]
        /\ UNCHANGED <<desired, configVars>>
    BY <1>5 DEF ReapSettle
  <2>2. process = g /\ process' = 0 /\ g # 0
    BY <1>5, <2>1, ManagerAssumption DEF ReapSettle, ManagerInv, ReaperInv, Children
  <2>3. status' = [status EXCEPT !.state = desired[g], !.pid = 0, !.healthy = FALSE]
    BY <1>5, <2>2 DEF ReapSettle
  <2>4. /\ status'.state = desired[g] /\ desired[g] \in {"failed", "stopped"}
        /\ status'.bundle = status.bundle /\ status'.artifact = status.artifact
        /\ status'.version = status.version
    BY <2>3 DEF StateInv, StatusTypes
  <2>5. OutcomeInv'
    BY <1>0, <2>1, <2>2, <2>4 DEF OutcomeInv, OutcomeOf, SettlesAs
  <2>6. HandleInv'
    BY <1>0, <1>2, <2>1 DEF FileInv, HandleInv, configVars
  <2>7. VerifiedInv'
    BY <1>0, <2>2, <2>4 DEF VerifiedInv
  <2> QED
    BY <1>1, <2>1, <2>5, <2>6, <2>7, UnchangedFiles DEF FileInv
<1> QED
  BY <1>3, <1>4, <1>5 DEF Reap

\* The inductive invariant holds: what each call was told, holds and will report is
\* consistent through every interleaving of the calls and the reapers.
THEOREM ReturnInvariant == Spec => []ReturnInv
<1>1. Init => ReturnInv
  <2> SUFFICES ASSUME Init PROVE ReturnInv
    OBVIOUS
  <2>1. CallTypes
    BY DEF Init, CallTypes
  <2>2. OperationInv
    BY DEF Init, OperationInv, Judging
  <2>3. CancelInv
    BY DEF Init, CancelInv, Starting, Unspawned, Judging, Awaiting
  <2>4. OutcomeInv
    BY ManagerAssumption DEF Init, OutcomeInv
  <2>5. HandleInv
    BY DEF Init, HandleInv, Keeping
  <2>6. VerifiedInv
    BY DEF Init, VerifiedInv, Unspawned, Keeping, Stopped
  <2>7. Configs!ConfigsInv
    <3>1. Configs!TypeOK /\ Configs!HeldFilesStay /\ Configs!CountsAreTracked
      BY DEF Init, Configs!TypeOK, Configs!HeldFilesStay, Configs!CountsAreTracked
    <3>2. ASSUME NEW d \in Bundles PROVE users[d] = Configs!Cardinality(Configs!HoldersOf(d))
      <4>1. Configs!HoldersOf(d) = {}
        BY ManagerAssumption DEF Init, Configs!HoldersOf
      <4>2. Configs!Cardinality(Configs!HoldersOf(d)) = 0
        BY <4>1, FS_EmptySet DEF Configs!Cardinality, Cardinality
      <4> QED
        BY <4>2 DEF Init, Configs!Names
    <3> QED
      BY <3>1, <3>2 DEF Configs!ConfigsInv, Configs!UsersCountHandles
  <2> QED
    BY <2>1, <2>2, <2>3, <2>4, <2>5, <2>6, <2>7 DEF ReturnInv, FileInv
<1>2. ManagerInv /\ StateInv /\ ReturnInv /\ [Next]_vars => ReturnInv'
  <2> SUFFICES ASSUME ManagerInv, StateInv, ReturnInv, [Next]_vars PROVE ReturnInv'
    OBVIOUS
  <2>1. CASE UNCHANGED vars
    <3>1. CallTypes' /\ OperationInv' /\ CancelInv' /\ OutcomeInv'
      BY <2>1 DEF vars, callVars, mgrVars, childVars, ReturnInv, CallTypes, OperationInv,
         CancelInv, OutcomeInv, OutcomeOf, SettlesAs
    <3>2. HandleInv' /\ VerifiedInv' /\ UNCHANGED configVars
      BY <2>1 DEF vars, callVars, mgrVars, childVars, configVars, ReturnInv, FileInv, HandleInv,
         VerifiedInv
    <3> QED
      BY <3>1, <3>2, UnchangedFiles DEF ReturnInv, FileInv
  <2>2. ASSUME NEW c \in Callers, Proceed(c) PROVE ReturnInv'
    BY <2>2, ProceedCallTypes, ProceedOperations, ProceedCancel, ProceedOutcome, ProceedFiles,
       ProceedVerified DEF ReturnInv, ManagerInv
  <2> QED
    BY <2>1, <2>2, OutsideOutcomes, ReapOutcomes DEF Next
<1> QED
  BY <1>1, <1>2, ManagerInvariant, StateInvariant, PTL DEF Spec

(***************************************************************************)
(* While a child is owned and "running" is reported, artifact and version  *)
(* are those verified for the reported bundle, and the child reads that    *)
(* bundle's configuration file, which nobody removed.                      *)
(***************************************************************************)
THEOREM ReportsWhatRuns == Spec => []RunningIsVerified
<1>1. ManagerInv /\ StateInv /\ ReturnInv => RunningIsVerified
  <2> SUFFICES ASSUME ManagerInv, StateInv, ReturnInv, process # 0, status.state = "running"
               PROVE  /\ status.artifact = status.bundle /\ status.version = status.bundle
                      /\ status.healthy /\ status.pid = process
                      /\ ~(reaper[process] = "waiting" /\ held[process] # status.bundle)
                      /\ child[process] # "dead" => status.bundle \in disk
    BY DEF RunningIsVerified
  <2>1. process \in Children /\ reaper[process] \in {"waiting", "exited", "released"}
    BY DEF ManagerInv, ControlTypes, ReaperInv
  <2>2. /\ status.artifact = status.bundle /\ status.version = status.bundle
        /\ status.pid = process /\ status.healthy
        /\ held[process] # None => held[process] = status.bundle
    BY DEF ReturnInv, VerifiedInv
  <2>3. held[process] # None <=> reaper[process] \in {"waiting", "exited"}
    BY <2>1 DEF ReturnInv, FileInv, HandleInv
  <2>4. child[process] # "dead" => reaper[process] = "waiting"
    BY <2>1 DEF StateInv, ReapedInv
  <2>5. held[process] # None => held[process] \in disk
    BY <2>1 DEF ReturnInv, FileInv, Configs!ConfigsInv, Configs!HeldFilesStay
  <2> QED
    BY <2>2, <2>3, <2>4, <2>5
<1> QED
  BY <1>1, ManagerInvariant, StateInvariant, ReturnInvariant, PTL

(***************************************************************************)
(* What a call returns is what its caller finds: no child after a Stop or  *)
(* Close that succeeded, "failed" after a Start that failed, "running"     *)
(* after one that succeeded unless its child is gone.                      *)
(***************************************************************************)
THEOREM CallsTellTheTruth == Spec => []ReturnsTellTheTruth
<1>1. ManagerInv /\ ReturnInv => ReturnsTellTheTruth
  <2> SUFFICES ASSUME ManagerInv, ReturnInv, NEW c \in Callers, pc[c] = "unlock", opHolder = c
               PROVE  /\ op[c] \in {"stop", "close"} /\ result[c] = "ok" =>
                           status.state = "stopped" /\ process = 0 /\ Living = {}
                      /\ op[c] = "start" /\ result[c] = "error" => status.state = "failed"
                      /\ op[c] = "start" /\ result[c] = "ok" =>
                           \/ status.state = "running"
                           \/ status.state = "failed" /\ process = 0
    BY DEF ReturnsTellTheTruth
  <2>1. OutcomeOf(c)
    BY DEF ReturnInv, OutcomeInv
  <2>2. process = 0 => Living = {}
    <3> SUFFICES ASSUME process = 0, NEW g \in Living PROVE FALSE
      OBVIOUS
    <3>1. g \in Children /\ reaper[g] = "waiting"
      BY DEF Living, ManagerInv, LivingInv
    <3>2. process = g /\ g # 0
      BY <3>1, ManagerAssumption DEF ManagerInv, ReaperInv, Children
    <3> QED
      BY <3>2
  <2> QED
    BY <2>1, <2>2 DEF OutcomeOf, SettlesAs
<1> QED
  BY <1>1, ManagerInvariant, ReturnInvariant, PTL

(***************************************************************************)
(* The configuration file of a living child is on disk under a handle of   *)
(* that child, or of the startup that is about to hand it over; all states *)
(* are of the declared types.                                              *)
(***************************************************************************)
THEOREM FilesOutliveChildren == Spec => []LivingChildrenKeepFiles
<1>1. ManagerInv /\ StateInv /\ ReturnInv => TypeOK
  BY DEF ManagerInv, ControlTypes, StateInv, StatusTypes, ReturnInv, CallTypes, FileInv,
     Configs!ConfigsInv, Configs!TypeOK, TypeOK
<1>2. ManagerInv /\ ReturnInv => LivingChildKeepsFile
  <2> SUFFICES ASSUME ManagerInv, ReturnInv, NEW g \in Living
               PROVE  \E h \in Callers \cup Children :
                         /\ held[h] # None /\ held[h] \in disk
                         /\ h = g \/ (opHolder = h /\ pc[h] = "adopt")
    BY DEF LivingChildKeepsFile
  <2>1. \A h \in Callers \cup Children : held[h] # None => held[h] \in disk
    BY DEF ReturnInv, FileInv, Configs!ConfigsInv, Configs!HeldFilesStay
  <2>2. CASE reaper[g] = "waiting"
    BY <2>1, <2>2 DEF Living, ReturnInv, FileInv, HandleInv
  <2>3. CASE opHolder \in Callers /\ pc[opHolder] = "adopt"
    <3>1. held[opHolder] = bundle[opHolder] /\ bundle[opHolder] \in Bundles
      BY <2>3 DEF ReturnInv, FileInv, HandleInv, Keeping
    <3>2. held[opHolder] # None
      BY <3>1, ManagerAssumption
    <3> QED
      BY <2>1, <2>3, <3>2
  <2> QED
    BY <2>2, <2>3 DEF ManagerInv, LivingInv
<1> QED
  BY <1>1, <1>2, ManagerInvariant, StateInvariant, ReturnInvariant, PTL DEF
     LivingChildrenKeepFiles

=============================================================================
