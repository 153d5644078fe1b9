---------------------------- MODULE SyslogDarwin ----------------------------
(***************************************************************************)
(* The system loggers of macOS (internal/agdcslog/syslog_darwin.go): one   *)
(* /usr/bin/logger process for each severity, each behind a mutex and a    *)
(* pipe without a buffer.                                                  *)
(*                                                                         *)
(* A logger process with its pipe is in one of these states:               *)
(*   none     nil, it has not been created                                 *)
(*   running  the process reads what is written                            *)
(*   dead     the process has died, which the goroutine of os/exec that    *)
(*            copies the pipe to it will notice with the next message      *)
(*   deaf     that goroutine has ended and nobody reads the pipe           *)
(*   eof      stdin is closed                                              *)
(*   exited   and the process has ended                                    *)
(***************************************************************************)
EXTENDS Naturals, Sequences

CONSTANTS
  Loggers,     \* the system loggers the program may open
  Severities,  \* the sequence of severities: debug, info, warning, error
  Writers,     \* the goroutines that log
  MaxDeaths,   \* bound: how many logger processes may die
  None

ASSUME SyslogAssumption ==
  /\ Severities \in Seq(STRING) \ {<<>>}
  /\ MaxDeaths \in Nat
  /\ None \notin Loggers \cup Writers \cup {"close"}
  /\ "close" \notin Writers

Idx == 1..Len(Severities)

VARIABLES
  sys,     \* each systemLogger: its step, the process it is at, the error so far
  proc,    \* the processes of each
  mu,      \* osProcess.mu: the writer that holds it, "close" or None
  writer,  \* each writer: its step, and the logger and process it writes to
  deaths

sysVars == <<sys, proc, mu, writer, deaths>>

SyslogInit ==
  /\ sys = [l \in Loggers |-> [pc |-> "none", at |-> 1, err |-> FALSE]]
  /\ proc = [l \in Loggers |-> [i \in Idx |-> "none"]]
  /\ mu = [l \in Loggers |-> [i \in Idx |-> None]]
  /\ writer = [w \in Writers |-> [pc |-> "idle", log |-> None, at |-> 1]]
  /\ deaths = 0

----------------------------------------------------------------------------
(* newSystemLoggerWithCommandConstructor *)

\* The constructor is called.
NewSystemLogger(l) ==
  /\ sys[l].pc = "none"
  /\ sys' = [sys EXCEPT ![l].pc = "new"]
  /\ UNCHANGED <<proc, mu, writer, deaths>>

\* Mutant of Created: an error is returned at once.
CreatedReturns(l, err) ==
  IF sys[l].at < Len(Severities) THEN [pc |-> "new", at |-> sys[l].at + 1, err |-> err]
  ELSE [pc |-> IF err THEN "failed" ELSE "open", at |-> 1, err |-> err]

\* What follows a call of newOSProcess: the next one, whatever it returned, and
\* after the last Close if there was an error.
Created(l, err) ==
  IF sys[l].at < Len(Severities) THEN [pc |-> "new", at |-> sys[l].at + 1, err |-> err]
  ELSE [pc |-> IF err THEN "closing" ELSE "open", at |-> 1, err |-> err]

NewOSProcess(l) ==
  /\ sys[l].pc = "new"
  /\ proc' = [proc EXCEPT ![l][sys[l].at] = "running"]
  /\ sys' = [sys EXCEPT ![l] = Created(l, @.err)]
  /\ UNCHANGED <<mu, writer, deaths>>

NewOSProcessFails(l) ==
  /\ sys[l].pc = "new"
  /\ sys' = [sys EXCEPT ![l] = Created(l, TRUE)]
  /\ UNCHANGED <<proc, mu, writer, deaths>>

----------------------------------------------------------------------------
(* Close *)

\* Close is called.
CloseBegin(l) ==
  /\ sys' = [sys EXCEPT ![l] = [pc |-> "closing", at |-> 1, err |-> FALSE]]
  /\ UNCHANGED <<proc, mu, writer, deaths>>

\* The loop goes on behind the process it was at.
Closed(l) ==
  IF sys[l].at < Len(Severities) THEN [sys[l] EXCEPT !.at = @ + 1]
  ELSE [pc |-> IF sys[l].err THEN "failed" ELSE "closed", at |-> 1, err |-> FALSE]

CloseSkip(l) ==
  /\ sys[l].pc = "closing"
  /\ proc[l][sys[l].at] = "none"
  /\ sys' = [sys EXCEPT ![l] = Closed(l)]
  /\ UNCHANGED <<proc, mu, writer, deaths>>

\* Mutant of CloseStdin: the command is waited for with its stdin open.
CloseStdinForgets(l) ==
  /\ sys[l].pc = "closing"
  /\ proc[l][sys[l].at] # "none"
  /\ mu[l][sys[l].at] = None
  /\ mu' = [mu EXCEPT ![l][sys[l].at] = "close"]
  /\ UNCHANGED <<sys, proc, writer, deaths>>

\* close takes mu and closes stdin.
CloseStdin(l) ==
  /\ sys[l].pc = "closing"
  /\ proc[l][sys[l].at] # "none"
  /\ mu[l][sys[l].at] = None
  /\ mu' = [mu EXCEPT ![l][sys[l].at] = "close"]
  /\ proc' = [proc EXCEPT ![l][sys[l].at] = IF @ = "exited" THEN @ ELSE "eof"]
  /\ UNCHANGED <<sys, writer, deaths>>

\* cmd.Wait returns, and mu is released.
CloseWait(l) ==
  /\ sys[l].pc = "closing"
  /\ mu[l][sys[l].at] = "close"
  /\ proc[l][sys[l].at] = "exited"
  /\ mu' = [mu EXCEPT ![l][sys[l].at] = None]
  /\ sys' = [sys EXCEPT ![l] = Closed(l)]
  /\ UNCHANGED <<proc, writer, deaths>>

----------------------------------------------------------------------------
(* write *)

\* SyslogHandler.Handle calls the method of the record's severity.
WriteBegin(w, l, i) ==
  /\ writer[w].pc = "idle"
  /\ writer' = [writer EXCEPT ![w] = [pc |-> "lock", log |-> l, at |-> i]]
  /\ UNCHANGED <<sys, proc, mu, deaths>>

WriteLock(w) ==
  LET l == writer[w].log  i == writer[w].at IN
  /\ writer[w].pc = "lock"
  /\ mu[l][i] = None
  /\ mu' = [mu EXCEPT ![l][i] = w]
  /\ writer' = [writer EXCEPT ![w].pc = "write"]
  /\ UNCHANGED <<sys, proc, deaths>>

\* The message is read, if only by a goroutine that cannot pass it on, or the
\* pipe is closed and write fails.  With nobody to read it write does not return.
Write(w) ==
  LET l == writer[w].log  i == writer[w].at IN
  /\ writer[w].pc = "write"
  /\ proc[l][i] # "deaf"
  /\ proc' = [proc EXCEPT ![l][i] = IF @ = "dead" THEN "deaf" ELSE @]
  /\ mu' = [mu EXCEPT ![l][i] = None]
  /\ writer' = [writer EXCEPT ![w] = [pc |-> "idle", log |-> None, at |-> 1]]
  /\ UNCHANGED <<sys, deaths>>

----------------------------------------------------------------------------
(* The logger processes *)

\* The process has read everything there was and exits.
ProcExits(l, i) ==
  /\ proc[l][i] = "eof"
  /\ proc' = [proc EXCEPT ![l][i] = "exited"]
  /\ UNCHANGED <<sys, mu, writer, deaths>>

\* The process dies.
ProcDies(l, i) ==
  /\ deaths < MaxDeaths
  /\ proc[l][i] = "running"
  /\ proc' = [proc EXCEPT ![l][i] = "dead"]
  /\ deaths' = deaths + 1
  /\ UNCHANGED <<sys, mu, writer>>

----------------------------------------------------------------------------

Syslog(l) ==
  \/ NewOSProcess(l) \/ NewOSProcessFails(l)
  \/ CloseSkip(l) \/ CloseStdin(l) \/ CloseWait(l)

WriteStep(w) == WriteLock(w) \/ Write(w)

SyslogTypeOK ==
  /\ sys \in [Loggers -> [pc : {"none", "new", "open", "closing", "closed", "failed"},
                          at : Idx, err : BOOLEAN]]
  /\ proc \in [Loggers -> [Idx -> {"none", "running", "dead", "deaf", "eof",
                                   "exited"}]]
  /\ mu \in [Loggers -> [Idx -> Writers \cup {"close", None}]]
  /\ writer \in [Writers -> [pc : {"idle", "lock", "write"},
                             log : Loggers \cup {None}, at : Idx]]
  /\ deaths \in 0..MaxDeaths
=============================================================================
