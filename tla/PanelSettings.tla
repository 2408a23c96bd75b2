--------------------------- MODULE PanelSettings ----------------------------
(***************************************************************************)
(* The settings file shared by the panel, its command line and editors:    *)
(* internal/application (panel_settings*.go, panel_backup.go,              *)
(* authentication.go), internal/settings (file.go, set.go, settings.go,    *)
(* lock_unix.go) and the tables panel_settings_file_commits, auth_sessions *)
(* and configuration_file of internal/store.                               *)
(*                                                                         *)
(* A save spans a file and a transaction.  A journal beside the file names *)
(* both documents before either changes, the transaction writes the        *)
(* journal's identity, and whoever takes the file lock next restores the   *)
(* document which that mark selects.  A crash is the end of the process:   *)
(* what it wrote stays, its lock and its transaction do not.               *)
(***************************************************************************)
EXTENDS Integers, FiniteSets

CONSTANTS
  Requests,     \* requests that the panel serves at the same time
  Documents,    \* settings documents: records with auth and rest
  Broken,       \* a document that does not parse, with auth 0
  None,
  MaxSaves,     \* bound: journals written
  MaxEdits,     \* bound: edits from outside of the panel
  MaxSessions,  \* bound: logins
  MaxRevision   \* bound: saves of the configuration file

VARIABLES
  file,          \* the settings file
  pending,       \* the journal beside it
  marker,        \* panel_settings_file_commits: journal of the last commit
  configuration, \* configuration_file.revision
  sessions,      \* auth_sessions: token and credential
  writer,        \* the request whose transaction holds the database
  lock,          \* holder of the file's lock
  panel,         \* "down", "starting" or "up"
  pc, call,      \* per request: the step and the call's local variables
  answer,        \* per request: the status and value of its last call
  announced,     \* document of the last publishSettings, in force in this process
  ids, tokens,   \* journals and sessions created so far
  edits,         \* edits from outside so far
  lingering      \* history: credentials that an edit from outside replaced

databaseVars == <<marker, configuration, sessions>>
actorVars == <<lock, panel, pc, call, answer, announced>>
historyVars == <<ids, tokens, edits, lingering>>
vars == <<file, pending, databaseVars, writer, actorVars, historyVars>>

Operations == {"read", "save", "restore", "login", "check", "boot"}
Steps == {"idle", "lock", "recover", "read", "sessions", "journal",
                  "publish", "commit", "settle", "clear"}
Errors == {"none", "invalid", "conflict", "configuration", "denied", "failed"}
Statuses == {200, 401, 412, 422, 500, 503}

NoCall == [op |-> "read", before |-> None, after |-> None, error |-> "none"]
NoAnswer == [op |-> "read", status |-> 503, document |-> None, session |-> None]
Session == [token : 1 .. MaxSessions, auth : {d.auth : d \in Documents}]
Journal == [id : 1 .. MaxSaves, before : Documents, after : Documents]

TypeOK ==
  /\ file \in Documents \cup {Broken}
  /\ pending \in Journal \cup {None}
  /\ marker \in 0 .. MaxSaves /\ configuration \in 0 .. MaxRevision
  /\ sessions \subseteq Session /\ writer \in Requests \cup {None}
  /\ lock \in Requests \cup {"cli", None} /\ panel \in {"down", "starting", "up"}
  /\ pc \in [Requests -> Steps]
  /\ call \in [Requests -> [op : Operations, before : Documents \cup {None},
                            after : Documents \cup {None}, error : Errors]]
  /\ answer \in [Requests -> [op : Operations, status : Statuses,
                              document : Documents \cup {None},
                              session : 0 .. MaxSessions \cup {None}]]
  /\ announced \in Documents \cup {None}
  /\ ids \in 0 .. MaxSaves /\ tokens \in 0 .. MaxSessions /\ edits \in 0 .. MaxEdits

Init ==
  /\ file \in Documents /\ pending = None /\ marker = 0 /\ configuration = 0
  /\ sessions = {} /\ writer = None /\ lock = None /\ panel = "down"
  /\ pc = [r \in Requests |-> "idle"] /\ call = [r \in Requests |-> NoCall]
  /\ answer = [r \in Requests |-> NoAnswer] /\ announced = None
  /\ ids = 0 /\ tokens = 0 /\ edits = 0 /\ lingering = {}

-----------------------------------------------------------------------------
(* Helpers *)

Go(r, step) == pc' = [pc EXCEPT ![r] = step]

\* settings.Parse, with its validation of every field.
Parses(d) == d # Broken

\* writePanelSettingsProblem, and the answers of login and authenticated.
Status(op, error) ==
  CASE error = "none" -> 200
    [] error = "denied" -> 401
    [] error = "invalid" -> 422
    [] error \in {"conflict", "configuration"} -> 412
    [] op \in {"login", "check"} -> 503
    [] OTHER -> 500

\* publishSettings after a save; a start of the panel loads what it read.
Announce(op, error, document) ==
  announced' = IF error = "none" /\ op \in {"save", "restore", "boot"} THEN document ELSE announced

\* The deferred lock.Close() and the value that the call returns.
Finish(r, error, document, session) ==
  /\ pc' = [pc EXCEPT ![r] = "idle"] /\ call' = [call EXCEPT ![r] = NoCall]
  /\ answer' = [answer EXCEPT ![r] = [op |-> call[r].op, status |-> Status(call[r].op, error),
                                      document |-> document, session |-> session]]
  /\ lock' = IF lock = r THEN None ELSE lock
  /\ Announce(call[r].op, error, document)
  /\ panel' = CASE call[r].op # "boot" -> panel
                [] error = "none" -> "up"
                [] OTHER -> "down"

Fail(r, error) == Finish(r, error, None, None)

\* A rename reaches the disk or not, and its error may come after it did.
Written == {<<TRUE, TRUE>>, <<TRUE, FALSE>>, <<FALSE, FALSE>>}   \* <<done, ok>>

\* The document that a recovery would leave, unless the file was edited meanwhile:
\* what SharedSettings calls the value.
Effective ==
  IF pending = None \/ (pending # None /\ file \notin {pending.before, pending.after})
    THEN file
    ELSE IF marker = pending.id THEN pending.after ELSE pending.before

\* auth.Fingerprint differs for the two documents.
CredentialsChange(r) == call[r].before.auth # call[r].after.auth

-----------------------------------------------------------------------------
(* Requests of the panel *)

\* Startup opens the database before it serves: one call recovers and reads.
Boot(r) ==
  /\ panel = "down" /\ pc[r] = "idle"
  /\ panel' = "starting" /\ Go(r, "lock")
  /\ call' = [call EXCEPT ![r].op = "boot"]
  /\ UNCHANGED <<file, pending, databaseVars, writer, lock, answer, announced, historyVars>>

Begin(r, op) ==
  /\ panel = "up" /\ pc[r] = "idle"
  /\ Go(r, "lock") /\ call' = [call EXCEPT ![r].op = op]
  /\ answer' = [answer EXCEPT ![r] = NoAnswer]
  /\ UNCHANGED <<file, pending, databaseVars, writer, lock, panel, announced, historyVars>>

\* settings.Lock polls the flock until it is free or the context ends.
Lock(r) ==
  /\ pc[r] = "lock" /\ lock = None
  /\ lock' = r /\ Go(r, "recover")
  /\ UNCHANGED <<file, pending, databaseVars, writer, panel, call, answer, announced, historyVars>>

LockCancelled(r) ==
  /\ pc[r] = "lock" /\ Fail(r, "failed")
  /\ UNCHANGED <<file, pending, databaseVars, writer, historyVars>>

\* recoverSettingsFile up to the removal of the journal.  "settle" is its call
\* at the end of commitSettingsFile, with a context of its own.
Recovering(r) == pc[r] \in {"recover", "settle"}

Resume(r) ==
  IF pc[r] = "recover" THEN Go(r, "read") /\ UNCHANGED <<lock, panel, call, answer, announced>>
  ELSE IF call[r].error = "none"
    THEN Finish(r, "none", call[r].after, None)
    ELSE Fail(r, call[r].error)

NothingPending(r) ==
  /\ Recovering(r) /\ pending = None /\ Resume(r)
  /\ UNCHANGED <<file, pending, databaseVars, writer, historyVars>>

\* The file is neither document of the journal: left to the administrator.
RecoveryConflict(r) ==
  /\ Recovering(r) /\ pending # None /\ file \notin {pending.before, pending.after}
  /\ Fail(r, "failed")
  /\ UNCHANGED <<file, pending, databaseVars, writer, historyVars>>

\* Reading the mark, or replacing the file, fails: the journal stays.
RecoveryFails(r) ==
  /\ Recovering(r) /\ pending # None /\ file \in {pending.before, pending.after}
  /\ file' \in {file, Effective} /\ Fail(r, "failed")
  /\ UNCHANGED <<pending, databaseVars, writer, historyVars>>

\* Mutant: recovery completes the save without looking at the mark.
RecoverForward(r) ==
  /\ Recovering(r) /\ pending # None /\ file \in {pending.before, pending.after}
  /\ file' = pending.after
  /\ call' = [call EXCEPT ![r].before = IF pc[r] = "recover" THEN None ELSE @]
  /\ Go(r, "clear")
  /\ UNCHANGED <<pending, databaseVars, writer, lock, panel, answer, announced, historyVars>>

Recover(r) ==
  /\ Recovering(r) /\ pending # None /\ file \in {pending.before, pending.after}
  /\ file' = Effective
  /\ call' = [call EXCEPT ![r].before = IF pc[r] = "recover" THEN None ELSE @]
  /\ Go(r, "clear")
  /\ UNCHANGED <<pending, databaseVars, writer, lock, panel, answer, announced, historyVars>>

\* RemoveDurable: the journal goes, or its removal fails or is not synced.
Clear(r) ==
  /\ pc[r] = "clear"
  /\ \E w \in Written :
       /\ pending' = IF w[1] THEN None ELSE pending
       /\ IF ~w[2] THEN Fail(r, "failed")
          ELSE IF call[r].before = None
            THEN Go(r, "read") /\ UNCHANGED <<lock, panel, call, answer, announced>>
          ELSE IF call[r].error = "none" THEN Finish(r, "none", call[r].after, None)
          ELSE Fail(r, call[r].error)
  /\ UNCHANGED <<file, databaseVars, writer, historyVars>>

\* settings.Read and Parse under the lock, then what the call needs them for.
Read(r) ==
  /\ pc[r] = "read"
  /\ \/ Fail(r, "failed")
     \/ /\ Parses(file) /\ call[r].op \in {"read", "boot"} /\ Finish(r, "none", file, None)
     \/ /\ Parses(file) /\ call[r].op \in {"login", "check"}
        /\ Go(r, "sessions") /\ call' = [call EXCEPT ![r].before = file]
        /\ UNCHANGED <<lock, panel, answer, announced>>
  /\ UNCHANGED <<file, pending, databaseVars, writer, historyVars>>

\* SavePanelSettings: an invalid form, one that was loaded from another document,
\* or the next document.
ValidForm(d) == d # Broken

Prepare(r, op, expected, next) ==
  /\ pc[r] = "read" /\ Parses(file) /\ call[r].op = op
  /\ IF ~ValidForm(next) THEN Fail(r, "invalid")
     ELSE IF expected # file THEN Fail(r, "conflict")
     ELSE /\ Go(r, "journal")
          /\ call' = [call EXCEPT ![r].before = file, ![r].after = next]
          /\ UNCHANGED <<lock, panel, answer, announced>>
  /\ UNCHANGED <<file, pending, databaseVars, writer, historyVars>>

PrepareSave(r, expected, next) == Prepare(r, "save", expected, next)

\* RestorePanelBackup: the document and the configuration of a backup.
PrepareRestore(r, expected, next) == Prepare(r, "restore", expected, next)

\* The first half of commitSettingsFile.
WriteJournal(r) ==
  /\ pc[r] = "journal" /\ ids < MaxSaves
  /\ ids' = ids + 1
  /\ \E w \in Written :
       /\ pending' = IF w[1] THEN [id |-> ids', before |-> call[r].before, after |-> call[r].after]
                             ELSE pending
       /\ IF w[2] THEN Go(r, "publish") /\ UNCHANGED <<lock, panel, call, answer, announced>>
                  ELSE Fail(r, "failed")
  /\ UNCHANGED <<file, databaseVars, writer, tokens, edits, lingering>>

\* The statements of the transaction and publish, which compares and replaces
\* the file before the commit.
RollBack(r, error) ==
  /\ Go(r, "settle") /\ call' = [call EXCEPT ![r].error = error]
  /\ writer' = None /\ UNCHANGED databaseVars

Publish(r) ==
  /\ pc[r] = "publish" /\ writer = None
  /\ \/ RollBack(r, "failed") /\ file' = file
     \/ call[r].op = "restore" /\ RollBack(r, "configuration") /\ file' = file
     \/ file # call[r].before /\ RollBack(r, "conflict") /\ file' = file
     \/ file = call[r].before /\ RollBack(r, "failed") /\ file' = call[r].after
     \/ /\ file = call[r].before /\ file' = call[r].after
        /\ Go(r, "commit") /\ writer' = r /\ UNCHANGED <<databaseVars, call>>
  /\ UNCHANGED <<pending, lock, panel, answer, announced, historyVars>>

\* Mutant: the sessions of the old credentials survive the save.
CommittedKeepsSessions(r) ==
  /\ marker' = pending.id /\ sessions' = sessions
  /\ configuration' = IF call[r].op = "restore" THEN configuration + 1 ELSE configuration
  /\ lingering' = IF CredentialsChange(r) THEN {} ELSE lingering

\* The transaction's effects become visible together.
Committed(r) ==
  /\ marker' = pending.id
  /\ sessions' = IF CredentialsChange(r) THEN {} ELSE sessions
  /\ IF call[r].op = "restore"
       THEN configuration < MaxRevision /\ configuration' = configuration + 1
       ELSE configuration' = configuration
  /\ lingering' = IF CredentialsChange(r) THEN {} ELSE lingering

\* Mutant: the error of the commit is not looked at.
CommitUnchecked(r) ==
  /\ pc[r] = "commit" /\ Go(r, "settle") /\ writer' = None
  /\ \/ Committed(r) \/ UNCHANGED <<databaseVars, lingering>>
  /\ UNCHANGED <<file, pending, lock, panel, call, answer, announced, ids, tokens, edits>>

\* tx.Commit succeeds, fails, or fails after it took effect.
Commit(r) ==
  /\ pc[r] = "commit" /\ Go(r, "settle") /\ writer' = None
  /\ \/ Committed(r) /\ call' = call
     \/ Committed(r) /\ call' = [call EXCEPT ![r].error = "failed"]
     \/ /\ call' = [call EXCEPT ![r].error = "failed"]
        /\ UNCHANGED <<databaseVars, lingering>>
  /\ UNCHANGED <<file, pending, lock, panel, answer, announced, ids, tokens, edits>>

-----------------------------------------------------------------------------
(* Sessions *)

Stale(auth) == {s \in sessions : s.auth # auth}

\* ReconcileAuthSessions deletes the sessions of other credentials (and expired
\* ones), then the session is replaced or looked up.
Login(r, password, previous) ==
  /\ pc[r] = "sessions" /\ call[r].op = "login" /\ writer = None
  /\ LET auth == call[r].before.auth
     IN IF password # auth
          THEN Fail(r, "denied") /\ UNCHANGED <<sessions, tokens>>
          ELSE \/ /\ sessions' \in {sessions, sessions \ Stale(auth)}
                  /\ Fail(r, "failed") /\ UNCHANGED tokens
               \/ /\ tokens < MaxSessions /\ tokens' = tokens + 1
                  /\ sessions' = {s \in sessions \ Stale(auth) : s.token # previous}
                                   \cup {[token |-> tokens', auth |-> auth]}
                  /\ Finish(r, "none", call[r].before, tokens')
  /\ UNCHANGED <<file, pending, marker, configuration, writer, ids, edits, lingering>>

CheckSession(r, token) ==
  /\ pc[r] = "sessions" /\ call[r].op = "check" /\ writer = None
  /\ \/ sessions' \in {sessions, sessions \ Stale(call[r].before.auth)} /\ Fail(r, "failed")
     \/ /\ sessions' = sessions \ Stale(call[r].before.auth)
        /\ IF \E s \in sessions' : s.token = token
             THEN Finish(r, "none", call[r].before, token)
             ELSE Fail(r, "denied")
  /\ UNCHANGED <<file, pending, marker, configuration, writer, historyVars>>

\* Logout takes no lock; the other removal is a session past its lifetime.
Logout(token) ==
  /\ panel = "up" /\ writer = None
  /\ sessions' = {s \in sessions : s.token # token} /\ sessions' # sessions
  /\ UNCHANGED <<file, pending, marker, configuration, writer, actorVars, historyVars>>

\* PUT of the configuration file, which a backup restores together with settings.
SaveConfiguration ==
  /\ panel = "up" /\ writer = None /\ configuration < MaxRevision
  /\ configuration' = configuration + 1
  /\ UNCHANGED <<file, pending, marker, sessions, writer, actorVars, historyVars>>

-----------------------------------------------------------------------------
(* Outside of the panel *)

CliLock ==
  /\ lock = None /\ edits < MaxEdits /\ lock' = "cli"
  /\ UNCHANGED <<file, pending, databaseVars, writer, panel, pc, call, answer, announced, historyVars>>

\* A writer of the command line is refused while a journal is pending.
Edited(d) ==
  /\ file' = d /\ edits' = edits + 1
  /\ lingering' = lingering \cup {Effective.auth}

CliWrite(d) ==
  /\ lock = "cli" /\ lock' = None /\ edits < MaxEdits /\ pending = None
  /\ Edited(d)
  /\ UNCHANGED <<pending, databaseVars, writer, panel, pc, call, answer, announced, ids, tokens>>

\* config set FIELD merges into the document it reads; the result is validated.
CliSet(d) == Parses(file) /\ Parses(d) /\ CliWrite(d)

\* config set --file validates the new document only.
CliReplace(d) == Parses(d) /\ CliWrite(d)

\* config init --force writes the defaults with new credentials.
CliInitialize(d) == Parses(d) /\ d.auth # file.auth /\ CliWrite(d)

\* A pending journal, a failed validation or write, the end of the context.
CliGivesUp ==
  /\ lock = "cli" /\ lock' = None
  /\ UNCHANGED <<file, pending, databaseVars, writer, panel, pc, call, answer, announced, historyVars>>

\* An editor knows nothing of the lock.  It does not write the very bytes that a
\* save in progress is about, which the comparisons could not tell from the save.
InFlight == {call[r].before : r \in Requests} \cup {call[r].after : r \in Requests}
              \cup (IF pending = None THEN {} ELSE {pending.before, pending.after})

HandEdit(d) ==
  /\ edits < MaxEdits /\ d \notin InFlight
  /\ Edited(d)
  /\ UNCHANGED <<pending, databaseVars, writer, actorVars, ids, tokens>>

\* The panel's process ends: its lock is free, its transaction rolled back.
Crash ==
  /\ panel # "down" /\ panel' = "down"
  /\ writer' = None /\ lock' = IF lock = "cli" THEN "cli" ELSE None
  /\ pc' = [r \in Requests |-> "idle"] /\ call' = [r \in Requests |-> NoCall]
  /\ answer' = [r \in Requests |-> NoAnswer] /\ announced' = None
  /\ UNCHANGED <<file, pending, databaseVars, historyVars>>

-----------------------------------------------------------------------------

Serve(r) ==
  \/ \E op \in Operations \ {"boot"} : Begin(r, op)
  \/ Boot(r) \/ Lock(r) \/ LockCancelled(r)
  \/ NothingPending(r) \/ RecoveryConflict(r) \/ RecoveryFails(r) \/ Recover(r) \/ Clear(r)
  \/ Read(r) \/ \E d, e \in Documents \cup {Broken} : PrepareSave(r, e, d) \/ PrepareRestore(r, e, d)
  \/ WriteJournal(r) \/ Publish(r) \/ Commit(r)
  \/ \E p \in {d.auth : d \in Documents}, t \in 0 .. tokens : Login(r, p, t)
  \/ \E t \in 1 .. tokens : CheckSession(r, t)

Outside ==
  \/ \E t \in 1 .. tokens : Logout(t)
  \/ SaveConfiguration
  \/ CliLock \/ CliGivesUp
  \/ \E d \in Documents : CliSet(d) \/ CliReplace(d) \/ CliInitialize(d)
  \/ \E d \in Documents \cup {Broken} : HandEdit(d)
  \/ Crash

Next == Outside \/ \E r \in Requests : Serve(r)
Spec == Init /\ [][Next]_vars

-----------------------------------------------------------------------------
(* Properties *)

\* No session outlives a change of the credentials by the panel: one that is on
\* record belongs to the current credentials or to some that an edit replaced,
\* which the next authentication removes.
SessionsAreCurrent ==
  \A s \in sessions : s.auth \in lingering \cup {Effective.auth}

\* A call that reports success tells the truth at that moment: a read returns the
\* effective document with no save left pending, a save is in force (unless an
\* editor came after it) and committed, and a session that is accepted is of the credentials just read.
Returns(r) == pc[r] # "idle" /\ pc'[r] = "idle" /\ answer'[r].status = 200
AnswersAreTrue ==
  [][\A r \in Requests : panel' # "down" /\ Returns(r) =>
       /\ answer'[r].op \in {"read", "boot", "save", "restore"} =>
            pending' = None /\ (file' = answer'[r].document \/ edits > 0)
       /\ answer'[r].op \in {"save", "restore"} => marker' = ids'
       /\ answer'[r].op \in {"login", "check"} =>
            \E s \in sessions' : /\ s.token = answer'[r].session
                                 /\ s.auth = answer'[r].document.auth]_vars
=============================================================================
