--------------------------- MODULE SystemService ---------------------------
(***************************************************************************)
(* The panel as a system service: internal/systemd, with cli/systemd.go    *)
(* and the templates of systemd/.                                          *)
(*                                                                         *)
(* Root installs, controls and uninstalls one unit. Its files are the unit *)
(* itself, a sysusers declaration of the account it runs under and a       *)
(* tmpfiles declaration; unit and tmpfiles name the data directory. A      *)
(* command is a sequence of steps that write files, run systemctl, change  *)
(* owners and accounts; any of them may fail or be the last. Meanwhile the *)
(* data directory is edited in the settings, files are edited by hand,     *)
(* and services start and stop.                                            *)
(***************************************************************************)
EXTENDS Integers, FiniteSets

CONSTANTS
  Dirs,              \* data directories
  DefaultDir,        \* the one of the packaged unit, kept by StateDirectory=
  Unusable,          \* those a system service must not use (below /home, ...)
  NoDir,
  Settings,          \* the directory of setting.json
  MaxEdits           \* bound on what is changed by hand: files, the account, settings

VARIABLES
  files,             \* managed files by their role
  loaded,            \* the unit as systemd has read it
  enabled,           \* the enablement link
  active,            \* the directory the service runs in
  manual,            \* ... and the one of a panel started by hand as the account
  account, group,    \* the dedicated user and group
  owner,             \* of the settings and data directories
  configured,        \* data_dir; NoDir without setting.json
  location,          \* setting.json.location: established directory, pending move
  cmd,               \* the command at work
  edits

serviceVars == <<files, loaded, enabled, active, manual, account, group, owner, configured, location, cmd>>
systemd == <<loaded, enabled, active>>
identity == <<account, group>>
data == <<owner, configured, location>>

Roles == {"unit", "sysusers", "tmpfiles"}
Paths == Dirs \cup {Settings}

\* What a managed file holds: what is generated for a directory, an edited
\* form of it that keeps the mark, something unmarked, or nothing.
File(kind, dir) == [kind |-> kind, dir |-> dir]
Missing == File("missing", NoDir)
Foreign == File("foreign", NoDir)
Contents == {Missing, Foreign} \cup [kind : {"generated", "edited"}, dir : Dirs \cup {NoDir}]
Managed(file) == file.kind \in {"generated", "edited"}

\* renderUnit and installFiles
InstallFiles(dir) == [r \in Roles |-> File("generated", IF r = "sysusers" THEN NoDir ELSE dir)]

\* The settings path that can be read from a unit (parseUnitFileSettingsPath).
NamesSettings(unit) == Managed(unit)

NoLocation == [dir |-> NoDir, move |-> NoDir]
NoAccount == [user |-> FALSE, group |-> FALSE]

Steps == {"idle", "preflight", "stop", "move", "resources", "unit", "sysusers", "tmpfiles", "account", "ownSettings",
          "ownData", "reload", "enable", "prepare", "installed", "systemctl",
          "disable", "recheck", "protect", "chown", "groupdel", "remove"}
Idle == [op |-> "none", step |-> "idle", force |-> FALSE, flag |-> FALSE, dir |-> NoDir, installing |-> FALSE,
         files |-> [r \in Roles |-> Missing], replaced |-> {}, account |-> NoAccount, paths |-> {}]

TypeOK ==
  /\ files \in [Roles -> Contents] /\ loaded \in Contents /\ enabled \in BOOLEAN
  /\ active \in Dirs \cup {NoDir} /\ manual \in Dirs \cup {NoDir}
  /\ account \in {"none", "ours", "customized"} /\ group \in BOOLEAN
  /\ owner \in [Paths -> {"absent", "root", "service", "gone"}]
  /\ configured \in Dirs \cup {NoDir} /\ location \in [dir : Dirs \cup {NoDir}, move : Dirs \cup {NoDir}]
  /\ cmd \in [op : {"none", "install", "uninstall", "start", "stop", "restart"}, step : Steps, force : BOOLEAN,
              flag : BOOLEAN, dir : Dirs \cup {NoDir}, installing : BOOLEAN, files : [Roles -> Contents],
              replaced : SUBSET Roles, account : [user : BOOLEAN, group : BOOLEAN], paths : SUBSET Paths]

Init ==
  /\ files = [r \in Roles |-> Missing] /\ loaded = Missing /\ enabled = FALSE
  /\ active = NoDir /\ manual = NoDir /\ account = "none" /\ group = FALSE
  /\ owner = [p \in Paths |-> "absent"] /\ configured = NoDir /\ location = NoLocation
  /\ cmd = Idle /\ edits = 0

-----------------------------------------------------------------------------
(* What the commands read *)

Exists(p) == owner[p] # "absent"
Stopped == active = NoDir                                       \* unitStopped
\* queryStatus: systemd reads a unit it has not loaded; NeedDaemonReload
\* when the file has changed since.
Fragment == IF loaded = Missing THEN files["unit"] ELSE loaded
NeedDaemonReload == Fragment # files["unit"]
\* Status.ValidateSettingsPath for the system's settings.
ValidateSettingsPath == ~NeedDaemonReload /\ (Fragment = Missing \/ NamesSettings(files["unit"]))

\* inspectSystemAccount: the name alone does not make it the installer's.
InspectSystemAccount == account # "customized"
Account == [user |-> account = "ours", group |-> group]

\* preflightInstall and preflightUninstall
PreflightInstall(dir, force) ==
  force \/ \A r \in Roles : files[r] \in {Missing, InstallFiles(dir)[r]}
PreflightUninstall(force) == force \/ \A r \in Roles : files[r] = Missing \/ Managed(files[r])

\* resolveInstallSettings: the configured directory, or, without settings, the
\* one on record, the one the unit names, or the default.
ResolveInstallSettings(hint) ==
  IF configured # NoDir THEN configured
  ELSE IF location.dir # NoDir THEN location.dir
  ELSE IF hint # NoDir THEN hint ELSE DefaultDir
SettingsResolve(hint) ==
  /\ configured = NoDir => location.move = NoDir
  /\ hint # NoDir => hint = ResolveInstallSettings(hint)

\* validateInstallPaths
ValidateInstallPaths(dir) == dir \notin Unusable

\* Files: nothing is installed and nothing enabled.
NothingInstalled == files = [r \in Roles |-> Missing] /\ ~enabled

\* requireAccountIdle: no process has the account's credentials.
RequireAccountIdle == {active, manual} = {NoDir}

\* retainedAccountPaths: everything of the installation that may be owned by
\* the account and stays.
RetainedAccountPaths ==
  {p \in {Settings, DefaultDir, configured, location.dir, location.move, files["unit"].dir} \ {NoDir} : Exists(p)}

-----------------------------------------------------------------------------
(* Commands, failures, and systemd itself *)

Go(step) == cmd' = [cmd EXCEPT !.step = step]
Return == cmd' = Idle

\* What systemd and the panel need to run in the directory of a unit: the
\* account, its working directory and write access to settings and data;
\* inside its sandbox the panel cannot move data.
Runs(unit) ==
  /\ Managed(unit) /\ account # "none" /\ configured = unit.dir
  /\ owner[Settings] = "service"
  /\ owner[unit.dir] = "service" \/ unit.dir = DefaultDir
  /\ location \in {NoLocation, [dir |-> configured, move |-> NoDir]}
\* The locks on the settings and on the retained directories keep panels out.
Locked == cmd.step \in {"chown", "groupdel"}

\* systemctl start: a panel that can run establishes its directory.
StartUnit(unit) ==
  /\ loaded' = unit
  /\ IF active # NoDir THEN UNCHANGED <<active, owner, location>>
     ELSE IF Runs(unit) /\ ~Locked /\ manual = NoDir
       THEN /\ active' = configured /\ location' = [dir |-> configured, move |-> NoDir]
            /\ owner' = [owner EXCEPT ![configured] = "service"]
       ELSE UNCHANGED <<active, location, owner>>

\* A command fails where it is or is interrupted; nothing is rolled back.
Fail == cmd.step # "idle" /\ Return /\ UNCHANGED <<files, systemd, manual, identity, data, edits>>

\* newSystemInstallCommand (flag: --now) takes the directory from the settings.
InstallCommand(force, now) ==
  /\ cmd = Idle
  /\ cmd' = [Idle EXCEPT !.op = "install", !.step = "preflight", !.force = force, !.flag = now,
                         !.installing = TRUE, !.dir = configured]
  /\ UNCHANGED <<files, systemd, manual, identity, data, edits>>
\* newSystemUninstallCommand (flag: --keep-user)
UninstallCommand(force, keepUser) ==
  /\ cmd = Idle
  /\ cmd' = [Idle EXCEPT !.op = "uninstall", !.step = "preflight", !.force = force, !.flag = keepUser]
  /\ UNCHANGED <<files, systemd, manual, identity, data, edits>>
\* newSystemControlCommand
ControlCommand(op) ==
  /\ cmd = Idle
  /\ cmd' = [Idle EXCEPT !.op = op, !.step = "prepare"]
  /\ UNCHANGED <<files, systemd, manual, identity, data, edits>>

-----------------------------------------------------------------------------
(* Install *)

\* Everything that can be refused is refused before the first change.
Preflight ==
  /\ cmd.installing /\ cmd.step = "preflight" /\ SettingsResolve(cmd.dir)
  /\ LET dir == ResolveInstallSettings(cmd.dir) IN
       /\ ValidateInstallPaths(dir) /\ PreflightInstall(dir, cmd.force) /\ InspectSystemAccount
       /\ cmd' = [cmd EXCEPT !.dir = dir, !.step =
                    IF location # NoLocation /\ location # [dir |-> dir, move |-> NoDir] THEN "move" ELSE "resources"]
  /\ UNCHANGED <<files, systemd, manual, identity, data, edits>>

\* PrepareDataLocation (module DataMove): the copy belongs to root, then the
\* source is removed and the record written. No panel runs in the source.
BeginMove ==
  /\ cmd.step = "move" /\ {active, manual} = {NoDir} /\ location.move = NoDir
  /\ configured \notin {NoDir, location.dir} /\ Exists(location.dir)
  /\ location' = [location EXCEPT !.move = configured]
  /\ owner' = [owner EXCEPT ![configured] = "root"]
  /\ UNCHANGED <<files, systemd, manual, identity, configured, cmd, edits>>
FinishMove ==
  /\ cmd.step = "move" /\ {active, manual} = {NoDir} /\ location.move # NoDir /\ location.move = configured
  /\ owner' = [owner EXCEPT ![location.dir] = "absent", ![configured] = "root"]
  /\ location' = [dir |-> configured, move |-> NoDir]
  /\ IF configured = cmd.dir THEN Go("resources") ELSE Return
  /\ UNCHANGED <<files, systemd, manual, identity, configured, edits>>

\* EnsureFile creates missing settings, never replaces them.
EnsureFile(dir) == configured' = IF configured = NoDir THEN dir ELSE configured
\* prepareResources: missing settings and a missing directory are created.
PrepareResources ==
  /\ cmd.step = "resources" /\ EnsureFile(cmd.dir) /\ configured' = cmd.dir
  /\ owner' = [p \in Paths |-> IF \/ p \in {Settings, cmd.dir} /\ ~Exists(p)
                                  \/ p = Settings /\ configured = NoDir
                                 THEN "root" ELSE owner[p]]
  /\ Go(IF cmd.installing THEN "unit" ELSE "account")
  /\ UNCHANGED <<files, systemd, manual, identity, location, edits>>

\* installFile: an atomic replacement, whatever is there by now.
InstallFile(r, next) ==
  /\ cmd.step = r
  /\ files' = [files EXCEPT ![r] = InstallFiles(cmd.dir)[r]] /\ Go(next)
  /\ UNCHANGED <<systemd, manual, identity, data, edits>>

\* prepareSystemOwnership: systemd-sysusers creates the account as declared,
\* systemd-tmpfiles and chown give it the settings, and then the data.
RunSysusers ==
  /\ cmd.step = "account" /\ InspectSystemAccount /\ files["sysusers"] # Missing
  /\ account' = (IF account = "none" /\ files["sysusers"].kind # "generated" THEN "customized" ELSE "ours")
  /\ group' = TRUE /\ Go("ownSettings")
  /\ UNCHANGED <<files, systemd, manual, data, edits>>
OwnSettings ==
  /\ cmd.step = "ownSettings" /\ account # "none" /\ configured # NoDir
  /\ owner' = [owner EXCEPT ![Settings] = "service"] /\ Go("ownData")
  /\ UNCHANGED <<files, systemd, manual, identity, configured, location, edits>>
OwnData ==
  /\ cmd.step = "ownData" /\ account # "none" /\ Exists(cmd.dir)
  /\ owner' = [owner EXCEPT ![cmd.dir] = "service"] /\ Go(IF cmd.installing THEN "reload" ELSE "systemctl")
  /\ UNCHANGED <<files, systemd, manual, identity, configured, location, edits>>

DaemonReload ==
  /\ cmd.step = "reload"
  /\ loaded' = files["unit"] /\ Go("enable")
  /\ UNCHANGED <<files, enabled, active, manual, identity, data, edits>>

\* systemctl enable, with --now for an install that asks for it. Start and
\* restart go on to prepareInstalledResources.
Enable ==
  /\ cmd.step = "enable" /\ files["unit"] # Missing /\ enabled' = TRUE
  /\ IF cmd.op = "install" THEN Return ELSE cmd' = [cmd EXCEPT !.step = "installed", !.installing = FALSE]
  /\ IF cmd.op = "install" /\ cmd.flag THEN StartUnit(Fragment) ELSE UNCHANGED <<loaded, active, owner, location>>
  /\ UNCHANGED <<files, manual, identity, configured, edits>>

-----------------------------------------------------------------------------
(* Start, stop and restart *)

\* managedFiles: the settings path is known from the unit, or when only the
\* other files are left.
KnowsSettings ==
  \/ NamesSettings(files["unit"])
  \/ files["unit"] = Missing /\ (Managed(files["sysusers"]) \/ Managed(files["tmpfiles"]))

\* prepareDataMove: a relocation that is due is done by stopping the service
\* and installing it anew, if its files are exactly the generated ones.
MoveIsDue ==
  /\ cmd.op # "stop" /\ KnowsSettings /\ location # NoLocation /\ configured # NoDir
  /\ location # [dir |-> configured, move |-> NoDir]
PrepareDataMove ==
  /\ cmd.step = "prepare"
  /\ IF ~MoveIsDue
       THEN Go(IF cmd.op = "stop" THEN "systemctl" ELSE "installed") /\ UNCHANGED active
       ELSE /\ NamesSettings(files["unit"]) /\ ~NeedDaemonReload
            /\ cmd.op = "start" => Stopped
            /\ PreflightInstall(location.dir, FALSE) /\ ValidateInstallPaths(configured)
            /\ active' = NoDir
            /\ cmd' = [cmd EXCEPT !.step = "preflight", !.installing = TRUE, !.force = TRUE, !.dir = configured]
  /\ UNCHANGED <<files, loaded, enabled, manual, identity, data, edits>>

\* prepareInstalledResources: what a generated unit needs and has lost.
PrepareInstalledResources ==
  /\ cmd.step = "installed"
  /\ LET hint == IF configured = NoDir THEN files["unit"].dir ELSE NoDir
         dir == ResolveInstallSettings(hint) IN
       IF ~Managed(files["unit"]) THEN Go("systemctl")
       ELSE /\ SettingsResolve(hint)
            /\ IF configured # NoDir /\ Exists(dir) THEN Go("systemctl")
               ELSE /\ ~NeedDaemonReload /\ ValidateInstallPaths(dir) /\ PreflightInstall(dir, FALSE)
                    /\ cmd' = [cmd EXCEPT !.step = "resources", !.dir = dir]
  /\ UNCHANGED <<files, systemd, manual, identity, data, edits>>

\* systemctl start, stop or restart
Systemctl ==
  /\ cmd.step = "systemctl" /\ Return
  /\ IF cmd.op = "stop" THEN active' = NoDir /\ UNCHANGED <<loaded, location, owner>>
     ELSE IF cmd.op = "restart" /\ active # NoDir
       THEN IF Runs(Fragment) THEN UNCHANGED <<loaded, active, location, owner>>
            ELSE active' = NoDir /\ UNCHANGED <<loaded, location, owner>>
     ELSE StartUnit(Fragment)
  /\ UNCHANGED <<files, enabled, manual, identity, configured, edits>>

-----------------------------------------------------------------------------
(* Uninstall *)

\* preflightAccountRemoval: which account is to be removed.
AccountToRemove == IF cmd.flag \/ files["sysusers"] = Missing THEN NoAccount ELSE Account
PreflightAccountRemoval ==
  \/ cmd.flag \/ files["sysusers"] = Missing
  \/ files["sysusers"] = InstallFiles(NoDir)["sysusers"] /\ InspectSystemAccount

\* Everything is inspected and remembered before the first change.
PreflightRemoval ==
  /\ cmd.op = "uninstall" /\ cmd.step = "preflight"
  /\ PreflightUninstall(cmd.force) /\ PreflightAccountRemoval
  /\ AccountToRemove # NoAccount => ValidateSettingsPath /\ (files["unit"] # Missing => NamesSettings(files["unit"]))
  /\ IF NothingInstalled /\ loaded = Missing /\ Stopped THEN Return
     ELSE cmd' = [cmd EXCEPT !.step = "stop", !.files = files, !.replaced = {}, !.account = AccountToRemove]
  /\ UNCHANGED <<files, systemd, manual, identity, data, edits>>

StopService ==
  /\ cmd.step = "stop"
  /\ ~Stopped /\ cmd.account # NoAccount => ValidateSettingsPath
  /\ active' = NoDir /\ Go("disable")
  /\ UNCHANGED <<files, loaded, enabled, manual, identity, data, edits>>

\* systemctl disable; it reloads when an account is to be removed.
Disable ==
  /\ cmd.step = "disable" /\ Go("recheck") /\ enabled' = FALSE
  /\ loaded' = IF cmd.account # NoAccount /\ (files["unit"] # Missing \/ enabled) THEN files["unit"] ELSE loaded
  /\ UNCHANGED <<files, active, manual, identity, data, edits>>

\* The files must still be those inspected, in identity and content.
RecheckFiles ==
  /\ cmd.step = "recheck"
  /\ \A r \in Roles : cmd.files[r] # Missing => files[r] = cmd.files[r] /\ r \notin cmd.replaced
  /\ Go(IF cmd.account = NoAccount THEN "remove" ELSE "protect")
  /\ UNCHANGED <<files, systemd, manual, identity, data, edits>>

\* Mutant: nothing is looked at again before the removal begins.
ProtectUnlocked ==
  /\ cmd.step = "protect" /\ InspectSystemAccount /\ Account = cmd.account
  /\ cmd' = [cmd EXCEPT !.step = "chown", !.paths = RetainedAccountPaths]
  /\ UNCHANGED <<files, systemd, manual, identity, data, edits>>

\* removeSystemAccount up to its first change: same account, service still
\* stopped, retained directories locked, no process of the account
\* (requireAccountIdle).
Protect ==
  /\ cmd.step = "protect" /\ InspectSystemAccount /\ Account = cmd.account
  /\ ValidateSettingsPath
  /\ files["unit"] # Missing => NamesSettings(files["unit"])
  /\ Stopped /\ RequireAccountIdle
  /\ cmd' = [cmd EXCEPT !.step = "chown", !.paths = RetainedAccountPaths]
  /\ UNCHANGED <<files, systemd, manual, identity, data, edits>>

\* chown --from the account to root, path by path.
TransferToRoot(p) ==
  /\ cmd.step = "chown" /\ p \in cmd.paths
  /\ owner' = [owner EXCEPT ![p] = IF @ = "service" THEN "root" ELSE @]
  /\ cmd' = [cmd EXCEPT !.paths = @ \ {p}]
  /\ UNCHANGED <<files, systemd, manual, identity, configured, location, edits>>

\* userdel may take the group along; what the account still owned is nobody's.
RemoveUser ==
  /\ cmd.step = "chown" /\ cmd.paths = {}
  /\ IF cmd.account.user
       THEN /\ account' = "none" /\ group' \in {FALSE, group}
            /\ owner' = [p \in Paths |-> IF owner[p] = "service" THEN "gone" ELSE owner[p]]
       ELSE UNCHANGED <<account, group, owner>>
  /\ Go("groupdel")
  /\ UNCHANGED <<files, systemd, manual, configured, location, edits>>
RemoveGroup ==
  /\ cmd.step = "groupdel" /\ account # "customized"
  /\ group' = FALSE /\ Go("remove")
  /\ UNCHANGED <<files, systemd, manual, account, data, edits>>

\* The inspected files, one by one in their order; a replaced one stays.
RemoveFile(r) ==
  /\ cmd.step = "remove" /\ cmd.files[r] # Missing
  /\ files[r] = Missing \/ r \notin cmd.replaced
  /\ r = "sysusers" => cmd.files["unit"] = Missing
  /\ r = "tmpfiles" => cmd.files["unit"] = Missing /\ cmd.files["sysusers"] = Missing
  /\ files' = [files EXCEPT ![r] = Missing] /\ cmd' = [cmd EXCEPT !.files[r] = Missing]
  /\ UNCHANGED <<systemd, manual, identity, data, edits>>
Forget ==
  /\ cmd.step = "remove" /\ \A r \in Roles : cmd.files[r] = Missing
  /\ loaded' = (IF active = NoDir THEN files["unit"] ELSE loaded) /\ Return
  /\ UNCHANGED <<files, enabled, active, manual, identity, data, edits>>

-----------------------------------------------------------------------------
(* The environment *)

\* Boot, or systemctl by hand; the service exits; a panel is started by hand
\* as the account and ends.
ServiceStarts ==
  /\ Fragment # Missing /\ Stopped /\ StartUnit(Fragment)
  /\ UNCHANGED <<files, enabled, manual, identity, configured, cmd, edits>>
ServiceExits ==
  /\ ~Stopped /\ active' = NoDir
  /\ UNCHANGED <<files, loaded, enabled, manual, identity, data, cmd, edits>>
ManualStart ==
  /\ manual = NoDir /\ Stopped /\ ~Locked /\ account # "none" /\ configured # NoDir
  /\ owner[Settings] = "service" /\ owner[configured] = "service"
  /\ location \in {NoLocation, [dir |-> configured, move |-> NoDir]}
  /\ manual' = configured /\ location' = [dir |-> configured, move |-> NoDir]
  /\ UNCHANGED <<files, systemd, identity, owner, configured, cmd, edits>>
ManualExit ==
  /\ manual # NoDir /\ manual' = NoDir
  /\ UNCHANGED <<files, systemd, identity, data, cmd, edits>>

\* data_dir is edited, or the settings are deleted, or a data directory is.
EditDataDir(d) ==
  /\ edits < MaxEdits /\ edits' = edits + 1 /\ configured # NoDir /\ d # configured /\ configured' = d
  /\ UNCHANGED <<files, systemd, manual, identity, owner, location, cmd>>
DeleteData(d) ==
  /\ edits < MaxEdits /\ edits' = edits + 1 /\ d \notin {active, manual}
  /\ owner' = [owner EXCEPT ![d] = "absent"]
  /\ UNCHANGED <<files, systemd, manual, identity, configured, location, cmd>>

\* By hand: a file is edited in place or replaced, the account customized.
EditFile(r, content) ==
  /\ edits < MaxEdits /\ edits' = edits + 1 /\ content # files[r]
  /\ content.kind = "edited" => Managed(files[r])
  /\ files' = [files EXCEPT ![r] = content]
  /\ \E inPlace \in BOOLEAN :
       /\ inPlace => Missing \notin {content, files[r]}
       /\ cmd' = IF inPlace \/ cmd.op # "uninstall" THEN cmd ELSE [cmd EXCEPT !.replaced = @ \cup {r}]
  /\ UNCHANGED <<systemd, manual, identity, data>>
CustomizeAccount ==
  /\ edits < MaxEdits /\ edits' = edits + 1 /\ account = "ours" /\ account' = "customized"
  /\ UNCHANGED <<files, systemd, manual, group, data, cmd>>

Next ==
  \/ \E force, flag \in BOOLEAN : InstallCommand(force, flag) \/ UninstallCommand(force, flag)
  \/ \E op \in {"start", "stop", "restart"} : ControlCommand(op)
  \/ Fail \/ Preflight \/ BeginMove \/ FinishMove \/ PrepareResources
  \/ InstallFile("unit", "sysusers") \/ InstallFile("sysusers", "tmpfiles") \/ InstallFile("tmpfiles", "account")
  \/ RunSysusers \/ OwnSettings \/ OwnData \/ DaemonReload \/ Enable
  \/ PrepareDataMove \/ PrepareInstalledResources \/ Systemctl
  \/ PreflightRemoval \/ StopService \/ Disable \/ RecheckFiles \/ Protect \/ RemoveUser \/ RemoveGroup \/ Forget
  \/ \E p \in Paths : TransferToRoot(p)
  \/ \E r \in Roles : RemoveFile(r)
  \/ ServiceStarts \/ ServiceExits \/ ManualStart \/ ManualExit
  \/ \E d \in Dirs : EditDataDir(d) \/ DeleteData(d)
  \/ EditDataDir(NoDir)
  \/ \E r \in Roles : EditFile(r, Foreign) \/ EditFile(r, Missing) \/ EditFile(r, File("edited", files[r].dir))
  \/ CustomizeAccount

Spec == Init /\ [][Next]_serviceVars

-----------------------------------------------------------------------------
(* Properties *)

\* A service that runs, started by systemd or by hand, never loses its
\* account, and what it writes to is never owned by nobody: removal waits
\* for it to stop and locks it out (removeSystemAccount), and every path that
\* was given to the account is given back first (retainedAccountPaths),
\* whichever of the files, the settings and the record still names it.
AccountLeavesNothingBehind ==
  /\ {active, manual} # {NoDir} => account # "none"
  /\ \A p \in {Settings, location.dir, location.move} \ {NoDir} : owner[p] # "gone"

\* What docs/guides/configuration-and-runtime.md says of relocation, that it
\* "can be retried after the cause is corrected": when start or restart finds
\* the data where the settings name it and goes on to systemctl, the generated
\* unit that it starts can run there.
RelocationCanBeRetried ==
  (/\ cmd.step = "systemctl" /\ cmd.op \in {"start", "restart"}
   /\ ~NeedDaemonReload /\ enabled /\ account = "ours" /\ manual = NoDir /\ owner[Settings] = "service"
   /\ configured # NoDir /\ location = [dir |-> configured, move |-> NoDir] /\ Exists(configured)
   /\ \E d \in Dirs : files = InstallFiles(d)) => Runs(Fragment)
=============================================================================
