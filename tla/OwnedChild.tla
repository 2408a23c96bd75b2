----------------------------- MODULE OwnedChild -----------------------------
(***************************************************************************)
(* What runtime.Manager promises to its callers ("Manager owns the         *)
(* lifecycle of exactly one sing-box child process", manager.go:21): one   *)
(* child slot, the state it announces for it, and a door that closes once. *)
(* RuntimeManager is shown to implement this specification.                *)
(***************************************************************************)
EXTENDS Naturals

VARIABLES
  slot,       \* "empty", "alive", or "dead": exited and not yet reaped
  spawned,    \* children started so far
  announced,  \* the State of Manager.Status
  shut        \* no child may ever be started again

ownedVars == <<slot, spawned, announced, shut>>

Init ==
  /\ slot = "empty"
  /\ spawned = 0
  /\ announced = "stopped"
  /\ shut = FALSE

\* A start is accepted only when the predecessor is gone.
Accept ==
  /\ slot = "empty" /\ ~shut /\ announced # "starting"
  /\ announced' = "starting"
  /\ UNCHANGED <<slot, spawned, shut>>

Spawn ==
  /\ slot = "empty" /\ ~shut /\ announced = "starting"
  /\ slot' = "alive"
  /\ spawned' = spawned + 1
  /\ UNCHANGED <<announced, shut>>

Die ==
  /\ slot = "alive"
  /\ slot' = "dead"
  /\ UNCHANGED <<spawned, announced, shut>>

\* Health was seen, though the child may have died since without notice.
Publish ==
  /\ slot # "empty"
  /\ announced' = "running"
  /\ UNCHANGED <<slot, spawned, shut>>

Condemn ==
  /\ announced' = "failed"
  /\ slot # "empty" \/ announced = "starting"
  /\ UNCHANGED <<slot, spawned, shut>>

\* The slot empties only with the final state of the child in it.
Reap ==
  /\ slot = "dead"
  /\ slot' = "empty"
  /\ announced' \in {"stopped", "failed"}
  /\ UNCHANGED <<spawned, shut>>

Rest ==
  /\ slot = "empty" /\ announced # "starting"
  /\ announced' = "stopped"
  /\ UNCHANGED <<slot, spawned, shut>>

Shut ==
  /\ announced # "starting"
  /\ shut' = TRUE
  /\ announced' = announced \/ (slot = "empty" /\ announced' = "stopped")
  /\ UNCHANGED <<slot, spawned>>

Next == Accept \/ Spawn \/ Die \/ Publish \/ Condemn \/ Reap \/ Rest \/ Shut

Spec == Init /\ [][Next]_ownedVars

=============================================================================
