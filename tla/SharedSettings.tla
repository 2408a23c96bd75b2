--------------------------- MODULE SharedSettings ---------------------------
(***************************************************************************)
(* What the panel promises of its settings: one document that changes as a *)
(* whole, by a save of the panel, which revokes every session in the same  *)
(* step when it changes the credentials, or by an edit from outside of it. *)
(***************************************************************************)
EXTENDS Integers

CONSTANTS Documents, Sessions

VARIABLES value, sessions, edits
vars == <<value, sessions, edits>>

\* A save of the panel or a restored backup.
Save(d) ==
  /\ value' = d /\ edits' = edits
  /\ IF d.auth # value.auth THEN sessions' = {} ELSE sessions' \subseteq sessions

\* The command line, or an editor; the panel notices when it reads the file.
Edit(d) == value' = d /\ edits' = edits + 1 /\ sessions' = sessions

\* Logins, logouts and the removal of sessions leave the document alone.
Authenticate == sessions' \subseteq Sessions /\ UNCHANGED <<value, edits>>

Init == value \in Documents /\ sessions = {} /\ edits = 0
Next == Authenticate \/ \E d \in Documents : Save(d) \/ Edit(d)
Spec == Init /\ [][Next]_vars
=============================================================================
