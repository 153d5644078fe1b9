------------------------------ MODULE Control ------------------------------
(***************************************************************************)
(* The service as its user sees it: commands (-s install, start, ...) run  *)
(* beside the service's process, which the operating system's service      *)
(* manager starts, stops and restarts (internal/cmd: cmd.go, config.go,    *)
(* default.go, osservice.go, service_linux.go, service_darwin.go).         *)
(*                                                                         *)
(* The life of the service's process from program.Start on is Lifecycle.   *)
(* What the processes share is the configuration file, here one of:        *)
(*   absent, empty and partial (created by install, not yet written to the *)
(*   end), default (written to its end), user (the user's own), old (the   *)
(*   user's own, of an older schema version, which a start migrates).      *)
(* The migration itself is Migrator; here are its read and its write, by   *)
(* which it meets the user and the installations.                          *)
(* The service manager is external: installed tells whether it has a       *)
(* definition of the service, and job what it does about its process.      *)
(***************************************************************************)
EXTENDS Lifecycle

CONSTANTS
  Ctls,     \* the terminals from which commands are run
  Systems   \* the service managers: a subset of {"systemd", "launchd"}

ASSUME SystemsAssumption == Systems \subseteq {"systemd", "launchd"}

Actions == {"install", "uninstall", "start", "stop", "restart", "status"}
Files   == {"absent", "empty", "partial", "default", "user", "old"}
Latest  == {"default", "user"}
Whole   == Latest \cup {"old"}

VARIABLES
  system,     \* service.ChosenSystem
  file,       \* the configuration file
  blame,      \* what the user knows of the file: whether an installation failed
              \* that had created it, or the user has removed it
  edited,     \* whether the user has changed it since the migrator read it
  ctl,        \* each command: its step and its action
  installed,  \* whether the service manager has the service
  job,        \* what the manager does: runs the process, stops it, waits...
  stage       \* the service's process: none, before, in the steps of or after
              \* handleConfig

service == <<pc, state, services, server, done, handler, left, errs>>
config  == <<file, blame, edited>>
manager == <<installed, job, stage>>
allVars == <<service, config, manager, system, ctl>>

Idle == [pc |-> "idle", action |-> "none"]

ControlInit ==
  /\ Init
  /\ system \in Systems
  /\ file = "absent"
  /\ blame = "none"
  /\ edited = FALSE
  /\ ctl = [c \in Ctls |-> Idle]
  /\ installed = FALSE
  /\ job = "inactive"
  /\ stage = "off"

----------------------------------------------------------------------------
(* A command *)

\* Main is run with -s a.  Only install has to do with the configuration.
CtlRun(c, a) ==
  /\ ctl[c].pc = "idle"
  /\ ctl' = [ctl EXCEPT ![c] =
               [pc |-> IF a = "install" THEN "create" ELSE "control",
                action |-> a]]
  /\ UNCHANGED <<service, config, manager, system>>

\* The command c is at step p and goes on to step q.
Goto(c, p, q) == ctl[c].pc = p /\ ctl' = [ctl EXCEPT ![c].pc = q]

\* It is at step p and the process exits.
ExitAt(c, p) ==
  /\ ctl[c].pc = p
  /\ ctl' = [ctl EXCEPT ![c] = Idle]

\* The executable is in the wrong place, or the file cannot be created.
InstallFails(c) ==
  /\ ExitAt(c, "create")
  /\ UNCHANGED <<service, config, manager, system>>

\* OpenFile with O_CREATE and O_EXCL makes a file, which is empty.
CreateFile(c) ==
  /\ file = "absent"
  /\ Goto(c, "create", "defaults")
  /\ file' = "empty"
  /\ blame' = "none"
  /\ UNCHANGED <<service, edited, manager, system>>

\* Mutant of FileExists: O_TRUNC in place of O_EXCL.
FileExistsTruncates(c) ==
  /\ file # "absent"
  /\ Goto(c, "create", "defaults")
  /\ file' = "empty"
  /\ UNCHANGED <<service, blame, edited, manager, system>>

\* There is a file, whatever it contains: it is used, and there is no error.
FileExists(c) ==
  /\ file # "absent"
  /\ Goto(c, "create", "control")
  /\ UNCHANGED <<service, config, manager, system>>

\* c has created the file and not yet written it.
Creating(c) == ctl[c].pc \in {"defaults", "encode"}

\* What c writes to the file it has created, unless the migrator's rename has
\* put a complete one in its place: then c writes to a file without a name.
Written(contents) == IF file \in Whole THEN file ELSE contents

\* c ends and leaves the file as it is.
Left(c) == IF Creating(c) /\ file \notin Whole THEN "broken" ELSE blame

\* newDefaultConfig fails, for it needs the addresses of the machine.
NewDefaultConfigFails(c) ==
  /\ ExitAt(c, "defaults")
  /\ blame' = Left(c)
  /\ UNCHANGED <<service, file, edited, manager, system>>

\* newDefaultConfig returns and its encoding has been written in part.
NewDefaultConfig(c) ==
  /\ Goto(c, "defaults", "encode")
  /\ file' = Written("partial")
  /\ UNCHANGED <<service, blame, edited, manager, system>>

\* Mutant of EncodeFails: the error is only printed.
EncodeFailsPrints(c) ==
  /\ Goto(c, "encode", "control")
  /\ UNCHANGED <<service, config, manager, system>>

\* Encode cannot write the rest.
EncodeFails(c) ==
  /\ ExitAt(c, "encode")
  /\ blame' = Left(c)
  /\ UNCHANGED <<service, file, edited, manager, system>>

\* Encode has written everything; the deferred Close may fail all the same.
Encode(c) ==
  /\ Goto(c, "encode", "control") \/ ExitAt(c, "encode")
  /\ file' = Written("default")
  /\ UNCHANGED <<service, blame, edited, manager, system>>

\* The command is killed.
CtlKilled(c) ==
  /\ ctl[c].pc # "idle"
  /\ ExitAt(c, ctl[c].pc)
  /\ blame' = Left(c)
  /\ UNCHANGED <<service, file, edited, manager, system>>

----------------------------------------------------------------------------
(* control, and the service manager's side of it *)

\* osservice.New or the manager's command fails.
ControlFails(c) ==
  /\ ExitAt(c, "control")
  /\ UNCHANGED <<service, config, manager, system>>

\* svc.Install fails if the service is installed.
CtlInstall(c) ==
  /\ ctl[c].action = "install"
  /\ ExitAt(c, "control")
  /\ installed' = TRUE
  /\ UNCHANGED <<service, config, job, stage, system>>

\* svc.Uninstall, which leaves the process alone.
CtlUninstall(c) ==
  /\ ctl[c].action = "uninstall"
  /\ ExitAt(c, "control")
  /\ installed' = FALSE
  /\ UNCHANGED <<service, config, job, stage, system>>

\* svc.Start: while the service is being stopped it is started again after.
CtlStart(c) ==
  /\ ctl[c].action = "start"
  /\ installed
  /\ ExitAt(c, "control")
  /\ IF job \in {"inactive", "failed", "waiting"}
     THEN job' = "running" /\ stage' = "conf"
     ELSE job' = (IF job = "stopping" THEN "restarting" ELSE job) /\ UNCHANGED stage
  /\ UNCHANGED <<service, config, installed, system>>

\* svc.Stop and svc.Restart wait for the process to end, if there is one.
CtlStop(c) ==
  /\ ctl[c].action \in {"stop", "restart"}
  /\ installed
  /\ stage # "off"
  /\ Goto(c, "control", "wait")
  /\ job' = IF ctl[c].action = "stop" THEN "stopping" ELSE "restarting"
  /\ UNCHANGED <<service, config, installed, stage, system>>

CtlStopNone(c) ==
  /\ ctl[c].action \in {"stop", "restart"}
  /\ installed
  /\ stage = "off"
  /\ ExitAt(c, "control")
  /\ IF ctl[c].action = "stop"
     THEN job' = "inactive" /\ UNCHANGED stage
     ELSE job' = "running" /\ stage' = "conf"
  /\ UNCHANGED <<service, config, installed, system>>

----------------------------------------------------------------------------
(* -s status *)

\* What systemctl show says.
Show ==
  [load   |-> IF installed THEN "loaded" ELSE "not-found",
   active |-> CASE job = "running"                      -> "active"
                [] job = "waiting"                      -> "activating"
                [] job \in {"stopping", "restarting"}   -> "deactivating"
                [] OTHER                                -> job,
   sub    |-> IF job = "waiting" THEN "auto-restart" ELSE job]

\* Mutant of StatusFromState: whatever is not active has stopped.
StatusFromStateStopped(u) ==
  CASE u.load = "not-found"     -> "error"
    [] u.active = "active"      -> "running"
    [] u.sub = "auto-restart"   -> "restart on fail"
    [] OTHER                    -> "stopped"

\* statusFromState, in the words of controlStatus; the cases exclude each other
\* or are tried in this order.
StatusFromState(u) ==
  CASE u.load = "not-found"                              -> "error"
    [] u.load # "not-found" /\ u.active = "active"       -> "running"
    [] u.load # "not-found" /\ u.active = "inactive"     -> "stopped"
    [] u.load # "not-found" /\ u.sub = "auto-restart"    -> "restart on fail"
    [] OTHER                                             -> "error"

\* systemdService.Status.
SystemdStatus == StatusFromState(Show)

\* The rest of darwinService.Status, once isInstalled has found the file of the
\* service: launchctl fails when the job is not loaded, and may fail for any other
\* reason (failed), which is a status all the same; else its output has a process
\* ID or not (parseLaunchctlList).
LaunchctlList(failed) ==
  IF failed \/ job \in {"inactive", "failed"} THEN "stopped"
  ELSE IF stage # "off" THEN "running"
  ELSE "restart on fail"

\* What controlStatus may print at the moment.  A systemctl that fails is an
\* error, and so is output that cannot be read.
Statuses ==
  {"error"} \cup IF system = "systemd" THEN {SystemdStatus}
                 ELSE {LaunchctlList(failed) : failed \in BOOLEAN}

\* controlStatus prints the status of the moment; only the exit code of the
\* command tells an error from the others.
CtlStatus(c) ==
  /\ ctl[c].action = "status"
  /\ system = "systemd" \/ ~installed
  /\ ExitAt(c, "control")
  /\ UNCHANGED <<service, config, manager, system>>

\* darwinService.isInstalled, and launchctl list after it.
IsInstalled(c) ==
  /\ system = "launchd"
  /\ installed
  /\ ctl[c].action = "status"
  /\ Goto(c, "control", "list")
  /\ UNCHANGED <<service, config, manager, system>>

CtlList(c) ==
  /\ ExitAt(c, "list")
  /\ UNCHANGED <<service, config, manager, system>>

----------------------------------------------------------------------------
(* The service's process *)

\* handleConfig runs the migrator, which does nothing if there is no file, or one
\* of the latest version.
NoMigration ==
  /\ stage = "conf"
  /\ file \in Latest \cup {"absent"}
  /\ stage' = "parse"
  /\ UNCHANGED <<service, config, installed, job, system, ctl>>

\* Mutant of Upgrade: the version is not compared with the target.
UpgradeAny ==
  /\ stage = "conf"
  /\ file \in Whole
  /\ stage' = "migrate"
  /\ edited' = FALSE
  /\ UNCHANGED <<service, file, blame, installed, job, system, ctl>>

\* The migrator has read a file of an older version and upgraded it in memory.
Upgrade ==
  /\ stage = "conf"
  /\ file = "old"
  /\ stage' = "migrate"
  /\ edited' = FALSE
  /\ UNCHANGED <<service, file, blame, installed, job, system, ctl>>

\* writeMigrated has made the backup of what was read, and renames the result to
\* the file's name, whatever has that name by now.
WriteMigrated ==
  /\ stage = "migrate"
  /\ stage' = "parse"
  /\ file' = "user"
  /\ blame' = "none"
  /\ edited' = FALSE
  /\ UNCHANGED <<service, installed, job, system, ctl>>

\* parseConfig reads the file once more, and Validate accepts it.  Neither looks
\* at schema_version: what was put in the file's place since, of an older version
\* or a part of a default one, may pass as well.
ReadConfig ==
  /\ stage = "parse"
  /\ file \notin {"absent", "empty"}
  /\ stage' = "up"
  /\ UNCHANGED <<service, config, installed, job, system, ctl>>

\* Lifecycle begins anew.
Reset ==
  /\ pc' = "debug"
  /\ state' = [s \in Services |-> "none"]
  /\ services' = <<>>
  /\ server' = "none"
  /\ done' = FALSE
  /\ handler' = "none"
  /\ left' = 0
  /\ errs' = FALSE

\* The process has ended, and clean tells how: the manager restarts it, unless
\* it was to stop, and tells the commands that wait for it.
Ended(clean) ==
  /\ Reset
  /\ job' = CASE job = "running"    -> "waiting"
              [] job = "restarting" -> "running"
              [] OTHER              -> IF clean THEN "inactive" ELSE "failed"
  /\ stage' = IF job = "restarting" THEN "conf" ELSE "off"
  /\ ctl' = [c \in Ctls |-> IF ctl[c].pc = "wait"
                            THEN Idle ELSE ctl[c]]
  /\ edited' = FALSE
  /\ UNCHANGED <<file, blame, installed, system>>

\* handleConfig fails, for what the file contains or because it cannot be read,
\* backed up or written, and check ends the process.  A write that fails leaves
\* the file as it was.
ConfigFails ==
  /\ stage \in {"conf", "migrate", "parse"}
  /\ Ended(FALSE)

ProcessEnds ==
  /\ stage = "up"
  /\ ~Alive
  /\ Ended(pc = "exited")

\* The process is killed from outside.
ProcessKilled ==
  /\ stage # "off"
  /\ Alive
  /\ Ended(FALSE)

\* The manager's signal ends a process that does not expect it yet: Run asks for
\* signals once program.Start has returned.
SignalKills ==
  /\ job \in {"stopping", "restarting"}
  /\ stage # "off"
  /\ pc \in {"debug", "resolvers", "upstreams", "dns", "handle"}
  /\ Ended(TRUE)

SignalStops ==
  /\ job \in {"stopping", "restarting"}
  /\ stage = "up"
  /\ Stop
  /\ UNCHANGED <<config, manager, system, ctl>>

\* The manager starts a process in place of one that ended.
AutoRestart ==
  /\ job = "waiting"
  /\ job' = "running"
  /\ stage' = "conf"
  /\ UNCHANGED <<service, config, installed, system, ctl>>

\* The process takes a step of its own.
Proceeds ==
  /\ stage = "up"
  /\ Start \/ Server \/ RecvErr \/ Exit \/ Handle
  /\ UNCHANGED <<config, manager, system, ctl>>

----------------------------------------------------------------------------
(* The user and the file.  The user does not touch it during an installation. *)

UserWrites ==
  /\ \A c \in Ctls : ~Creating(c)
  /\ file' \in {"user", "old"}
  /\ blame' = "none"
  /\ edited' = (stage = "migrate")
  /\ UNCHANGED <<service, manager, system, ctl>>

UserRemoves ==
  /\ \A c \in Ctls : ~Creating(c)
  /\ file # "absent"
  /\ file' = "absent"
  /\ blame' = "removed"
  /\ edited' = (stage = "migrate")
  /\ UNCHANGED <<service, manager, system, ctl>>

----------------------------------------------------------------------------

Install(c) ==
  \/ InstallFails(c) \/ CreateFile(c) \/ FileExists(c)
  \/ NewDefaultConfigFails(c) \/ NewDefaultConfig(c) \/ EncodeFails(c) \/ Encode(c)

Status(c) == CtlStatus(c) \/ IsInstalled(c) \/ CtlList(c)

Command(c) ==
  \/ Install(c) \/ Status(c)
  \/ ControlFails(c) \/ CtlInstall(c) \/ CtlUninstall(c) \/ CtlStart(c)
  \/ CtlStop(c) \/ CtlStopNone(c)

HandleConfig == NoMigration \/ Upgrade \/ WriteMigrated \/ ReadConfig

Process == HandleConfig \/ ConfigFails \/ ProcessEnds \/ Proceeds

Signal == SignalKills \/ SignalStops

ControlNext ==
  \/ \E c \in Ctls : Command(c) \/ CtlKilled(c) \/ \E a \in Actions : CtlRun(c, a)
  \/ Process \/ Signal \/ ProcessKilled \/ AutoRestart
  \/ UserWrites \/ UserRemoves

ControlSpec == ControlInit /\ [][ControlNext]_allVars

\* The process proceeds, and so does the delivery of its signal, one of them at a
\* time: every Shutdown returns, for those that wait give up when their context
\* ends.  Nothing is assumed of the commands.
ControlFairSpec ==
  /\ ControlSpec
  /\ WF_allVars(\/ Signal \/ ProcessEnds
                \/ /\ stage = "up" /\ (Handle \/ RecvErr \/ Exit)
                   /\ UNCHANGED <<config, manager, system, ctl>>)

----------------------------------------------------------------------------
(* Properties *)

\* Type invariant of the commands and of the service's process.
ControlTypeOK ==
  /\ TypeOK
  /\ system \in Systems
  /\ file \in Files
  /\ blame \in {"none", "broken", "removed"}
  /\ edited \in BOOLEAN
  /\ ctl \in [Ctls -> [pc : {"idle", "create", "defaults", "encode", "control",
                             "wait", "list"},
                       action : Actions \cup {"none"}]]
  /\ installed \in BOOLEAN
  /\ job \in {"inactive", "running", "stopping", "restarting", "waiting", "failed"}
  /\ stage \in {"off", "conf", "migrate", "parse", "up"}

\* An installed service has a configuration that is written to its end, unless
\* an installation that had created the file has failed visibly or is still at
\* it (the file is created first: default.go:267), or the user has removed it.
\* However many installations there are, and wherever they are killed, a file
\* with less than its contents never comes from those that succeeded.  It does not
\* say that such a file is noticed: the next installation takes it for the user's.
InstalledConfigured ==
  blame = "none" /\ (\A c \in Ctls : ~Creating(c)) =>
    file \in Whole \/ (file = "absent" /\ ~installed)

\* A configuration that is complete, the user's or a default one, is changed by
\* no command: "If the file at path already exists, it does nothing"
\* (default.go:260-261), even if it appears while another command installs.  The
\* service's process changes it in a migration only (config.go:99), and then it
\* is the older one that the migrator has read that is replaced by its upgraded
\* form, unless the user has changed the file in between: the migrator does not
\* look again, and what the user wrote then is lost.
ConfigKept ==
  [][(file \in Whole /\ file' # file) =>
       \/ UserWrites \/ UserRemoves
       \/ WriteMigrated /\ (file = "old" \/ edited)]_allVars

\* At no moment would -s status say "running" of a service that has no process,
\* or "restart on fail" of one that the manager will not restart; nor, where the
\* status is systemd's, "stopped" of one that has a process, although that may
\* take its time to shut down.  With launchd "stopped" says no more than that
\* launchctl has failed, for whatever reason (service_darwin.go:125-127), so it
\* may be said of a service that runs.
StatusTruthful ==
  \A status \in Statuses :
    /\ status = "running" => stage # "off"
    /\ status = "stopped" /\ system = "systemd" => stage = "off"
    /\ status = "restart on fail" => stage = "off" /\ job = "waiting"

\* The commands stop and restart return, whichever services fail to shut down: the
\* handler answers on errCh, unless a Shutdown panics (servicehandler.go:50), which
\* is not modelled, and the process ends.
StopReturns == \A c \in Ctls : ctl[c].pc = "wait" ~> ctl[c].pc # "wait"
=============================================================================
