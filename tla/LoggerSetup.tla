---------------------------- MODULE LoggerSetup ----------------------------
(***************************************************************************)
(* The loggers of one process, from parseLogEnvs to closeLogs              *)
(* (internal/cmd: cmd.go, env.go, log.go, program.go).  The process logs   *)
(* to what the environment says until it has a configuration, and then to  *)
(* what that says, unless the environment overrides it: the first logger   *)
(* is used on or replaced, and closed or not, depending on all of them.    *)
(*                                                                         *)
(* An output is "syslog", "stderr" (standard output is treated alike) or   *)
(* "file", and "" where there is none.  The system logger is the one of    *)
(* SyslogDarwin, whose processes make opening, writing and closing it      *)
(* steps that may fail or block.  Formats and timestamps are left out.     *)
(***************************************************************************)
EXTENDS SyslogDarwin

ASSUME LoggersAssumption == Loggers = {"env", "conf"} /\ "main" \in Writers

Outputs == {"syslog", "stderr", "file"}

Confs == [output : Outputs, verbose : BOOLEAN]

ASSUME NoConfAssumption == None \notin Confs

VARIABLES
  opts,    \* opts.verbose
  envs,    \* logEnvs
  conf,    \* conf.Log, or None
  main,    \* the main goroutine
  logger,  \* l: its output, whose the output is, and its level
  files    \* the log files that the loggers have opened

settings == <<opts, envs, conf>>
logVars  == <<settings, main, logger, files, sysVars>>

\* parseLogEnvs: what cannot be parsed counts as unset.
ParseLogEnvs(output, verbose) ==
  [output  |-> IF output = "relative" THEN "" ELSE output,
   verbose |-> CASE verbose = "1" -> "true"
                 [] verbose = "0" -> "false"
                 [] OTHER         -> "unset"]

Init ==
  /\ opts \in BOOLEAN
  /\ \E o \in Outputs \cup {"", "relative"}, v \in {"", "x", "0", "1"} :
       envs = ParseLogEnvs(o, v)
  /\ conf = None
  /\ main = "env"
  /\ logger = [out |-> "none", of |-> "env", level |-> "info"]
  /\ files = [l \in Loggers |-> "none"]
  /\ SyslogInit

\* cmp.Or.
Or(s, t) == IF s # "" THEN s ELSE t

Level(verbose) == IF verbose THEN "debug" ELSE "info"

Asked == opts \/ envs.verbose = "true"

----------------------------------------------------------------------------
(* newLogger, for the logger l *)

\* The logger writes to out from now on, and the main goroutine goes on to next.
Use(l, out, level, next) ==
  /\ logger' = [out |-> out, of |-> l, level |-> level]
  /\ main' = next

\* outputFromStr: a file is opened, or standard error is used in its place.
NewLogger(l, out, level, next) ==
  /\ out # "syslog"
  /\ \/ /\ out = "file"
        /\ files' = [files EXCEPT ![l] = "open"]
        /\ Use(l, "file", level, next)
     \/ Use(l, "stderr", level, next) /\ UNCHANGED files
  /\ UNCHANGED sysVars

\* newSystemLogger begins, and the main goroutine waits for it at wait.
NewSystem(l, out, level, wait) ==
  /\ out = "syslog"
  /\ NewSystemLogger(l)
  /\ logger' = [out |-> "none", of |-> l, level |-> level]
  /\ main' = wait
  /\ UNCHANGED files

\* It has returned.
SystemMade(l, wait, next) ==
  /\ main = wait
  /\ sys[l].pc \in {"open", "failed"}
  /\ Use(l, IF sys[l].pc = "open" THEN "syslog" ELSE "stderr", logger.level, next)
  /\ UNCHANGED <<settings, files, sysVars>>

----------------------------------------------------------------------------
(* Main, up to the logger of the configuration *)

NewEnvLogger ==
  /\ main = "env"
  /\ \/ NewLogger("env", Or(envs.output, "syslog"), Level(Asked), "conf")
     \/ NewSystem("env", Or(envs.output, "syslog"), Level(Asked), "envsys")
  /\ UNCHANGED settings

EnvSystemMade == SystemMade("env", "envsys", "conf")

\* Mutant of UsePrev: the verbosity of the configuration is not compared.
UsePrevQuiet(c) == c.output = "syslog"

\* closeEnv: whether the logger of the environment is used on.
UsePrev(c) ==
  c.output = "syslog" /\ (~c.verbose \/ opts \/ envs.verbose # "unset")

\* main is in handleServiceConfig, with no record half written, and it returns.
ConfigRead(c) ==
  /\ main = "conf"
  /\ writer["main"].pc = "idle"
  /\ conf' = c
  /\ UNCHANGED <<opts, envs>>

\* There is a service action or an error: newConfigLogger returns what it got.
NoConfig ==
  /\ ConfigRead(None)
  /\ main' = "run"
  /\ UNCHANGED <<logger, files, sysVars>>

\* Mutant of UseEnvLogger: the handler is closed before it is compared.
UseEnvLoggerCloses(c) ==
  /\ ConfigRead(c)
  /\ envs.output = ""
  /\ UsePrev(c)
  /\ IF logger.out = "syslog" THEN CloseBegin("env") ELSE UNCHANGED sysVars
  /\ main' = "run"
  /\ UNCHANGED <<logger, files>>

\* The output is unset in the environment and the logger is used on.
UseEnvLogger(c) ==
  /\ ConfigRead(c)
  /\ envs.output = ""
  /\ UsePrev(c)
  /\ main' = "run"
  /\ UNCHANGED <<logger, files, sysVars>>

\* It is closed, if it is a system logger, and another one is made.
CloseEnvLogger(c) ==
  /\ ConfigRead(c)
  /\ envs.output = ""
  /\ ~UsePrev(c)
  /\ IF logger.out = "syslog"
     THEN CloseBegin("env") /\ main' = "close"
     ELSE main' = "new" /\ UNCHANGED sysVars
  /\ UNCHANGED <<logger, files>>

EnvLoggerClosed ==
  /\ main = "close"
  /\ sys["env"].pc = "closed"
  /\ main' = "new"
  /\ UNCHANGED <<settings, logger, files, sysVars>>

\* The environment's file is used on, with the level of overridenLogConf.
UseEnvFile(c) ==
  /\ ConfigRead(c)
  /\ envs.output # ""
  /\ logger.out = "file"
  /\ Use("env", "file", Level(Asked \/ c.verbose), "run")
  /\ UNCHANGED <<files, sysVars>>

\* Otherwise the environment's logger is left as it is, a system logger too.
LeaveEnvLogger(c) ==
  /\ ConfigRead(c)
  /\ envs.output # ""
  /\ logger.out # "file"
  /\ main' = "new"
  /\ UNCHANGED <<logger, files, sysVars>>

\* newLogger, with the values of overridenLogConf.
NewConfigLogger ==
  LET level == Level(Asked \/ conf.verbose)
      out   == Or(envs.output, conf.output)
  IN
  /\ main = "new"
  /\ NewLogger("conf", out, level, "run") \/ NewSystem("conf", out, level, "confsys")
  /\ UNCHANGED settings

ConfSystemMade == SystemMade("conf", "confsys", "run")

----------------------------------------------------------------------------
(* Logging, and the end of the process *)

\* SyslogHandler.Enabled.
Enabled(i) == logger.level = "debug" \/ Severities[i] # "debug"

\* main logs while it handles the configuration (the migrator does) and in run;
\* the services' goroutines in run and, when they are left running by a failed
\* Start, until the process has ended.
Log(w, i) ==
  /\ main \in IF w = "main" THEN {"conf", "run"} ELSE {"run", "closing"}
  /\ logger.out = "syslog"
  /\ Enabled(i)
  /\ WriteBegin(w, logger.of, i)
  /\ UNCHANGED <<settings, main, logger, files>>

\* closeLogs, from check, after control or at the end of Main: the file and the
\* handler, if it can be closed.
CloseLogs ==
  /\ main = "run"
  /\ writer["main"].pc = "idle"
  /\ files' = IF logger.out = "file" THEN [files EXCEPT ![logger.of] = "closed"]
              ELSE files
  /\ IF logger.out = "syslog"
     THEN CloseBegin(logger.of) /\ main' = "closing"
     ELSE main' = "done" /\ UNCHANGED sysVars
  /\ UNCHANGED <<settings, logger>>

LogsClosed ==
  /\ main = "closing"
  /\ sys[logger.of].pc = "closed"
  /\ main' = "done"
  /\ UNCHANGED <<settings, logger, files, sysVars>>

----------------------------------------------------------------------------

\* A step of the system loggers, the writers and the logger processes, until
\* the process has ended.
Beside(A) == A /\ main # "done" /\ UNCHANGED <<settings, main, logger, files>>

Setup ==
  \/ NewEnvLogger \/ EnvSystemMade
  \/ NoConfig
  \/ \E c \in Confs :
       UseEnvLogger(c) \/ CloseEnvLogger(c) \/ UseEnvFile(c) \/ LeaveEnvLogger(c)
  \/ EnvLoggerClosed
  \/ NewConfigLogger \/ ConfSystemMade

Next ==
  \/ Setup
  \/ \E w \in Writers, i \in Idx : Log(w, i)
  \/ CloseLogs \/ LogsClosed
  \/ \E l \in Loggers : Beside(Syslog(l))
  \/ \E w \in Writers : Beside(WriteStep(w))
  \/ \E l \in Loggers, i \in Idx : Beside(ProcExits(l, i)) \/ Beside(ProcDies(l, i))

Spec == Init /\ [][Next]_logVars

(***************************************************************************)
(* The main goroutine goes on, except that nobody has to end the process,  *)
(* and logs only so much before it has its configuration (hence SF); a     *)
(* logger process whose stdin is closed exits.  A writer or a close that   *)
(* waits for a mutex gets it although others take it: Go's mutexes hand    *)
(* over to whoever has waited for a millisecond.                           *)
(***************************************************************************)
FairSpec ==
  /\ Spec
  /\ SF_logVars(Setup)
  /\ WF_logVars(LogsClosed)
  /\ \A l \in Loggers :
       /\ WF_logVars(Beside(Syslog(l)))
       /\ SF_logVars(Beside(CloseStdin(l)))
       /\ \A i \in Idx : WF_logVars(Beside(ProcExits(l, i)))
  /\ \A w \in Writers :
       WF_logVars(Beside(Write(w))) /\ SF_logVars(Beside(WriteLock(w)))

----------------------------------------------------------------------------
(* Properties *)

\* Type invariant of the loggers' setup and of the system loggers.
TypeOK ==
  /\ opts \in BOOLEAN
  /\ envs \in [output : Outputs \cup {""}, verbose : {"true", "false", "unset"}]
  /\ conf \in Confs \cup {None}
  /\ main \in {"env", "envsys", "conf", "close", "new", "confsys", "run", "closing",
               "done"}
  /\ logger \in [out : Outputs \cup {"none"}, of : Loggers, level : {"debug", "info"}]
  /\ files \in [Loggers -> {"none", "open", "closed"}]
  /\ SyslogTypeOK

\* Whatever the environment and the configuration say, and whichever output
\* cannot be opened, records go to an output that is open until closeLogs.
LoggerUsable ==
  main \in {"conf", "run"} =>
    /\ logger.out = "syslog" => sys[logger.of].pc = "open"
    /\ logger.out = "file" => files[logger.of] = "open"

\* A system logger that could not be made, or was closed, has left no process
\* behind; and when the process ends, its files and system loggers are closed
\* ("closeLogs closes the log files and syslog handler, if there are any",
\* program.go:96).  The one that is not is the environment's when LOG_OUTPUT is
\* syslog and there is a configuration: newConfigLogger opens a second one.
NothingLeft ==
  /\ \A l \in Loggers : sys[l].pc \in {"failed", "closed"} =>
       \A i \in Idx : proc[l][i] \in {"none", "exited"}
  /\ main = "done" =>
       /\ \A l \in Loggers : files[l] # "open"
       /\ \A l \in Loggers : sys[l].pc = "open" =>
            l = "env" /\ envs.output = "syslog" /\ conf # None

\* The process logs debug records exactly if -v, VERBOSE or the configuration
\* asks for them, whether or not the first logger is used on.  This says nothing
\* of VERBOSE=0 with "verbose: true", where it depends on the output: closeEnv
\* takes the variable for an override (log.go:261), overridenLogConf does not.
LevelAsAsked ==
  LET verbose == conf # None /\ conf.verbose IN
  main = "run" /\ (opts \/ envs.verbose # "false" \/ ~verbose) =>
    (logger.level = "debug" <=> Asked \/ verbose)

\* As long as no logger process dies, every record is written and the process
\* gets its loggers and gets rid of them.  With a dead process the second record
\* blocks its writer for good, with the mutex that closeLogs needs.
NoStuckLogs ==
  [](deaths = 0) =>
    /\ main # "run" ~> main \in {"run", "done"}
    /\ \A w \in Writers : writer[w].pc # "idle" ~> writer[w].pc = "idle" \/ main = "done"
=============================================================================
