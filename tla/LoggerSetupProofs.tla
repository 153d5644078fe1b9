------------------------- MODULE LoggerSetupProofs -------------------------
(***************************************************************************)
(* Proofs about LoggerSetup and SyslogDarwin, for every set of writers,    *)
(* every sequence of severities and any number of deaths.                  *)
(*                                                                         *)
(* LogInv follows the ownership of the outputs through the setup: an open  *)
(* file belongs to the logger in use; a system logger that is open or      *)
(* being made belongs to it too, or is the environment's that was left     *)
(* open; a Close has dealt with the processes before the one it is at.     *)
(***************************************************************************)
EXTENDS LoggerSetup, TLAPS

----------------------------------------------------------------------------
(* The inductive invariant *)

Gone(l, i) == proc[l][i] \in {"none", "exited"}

\* Close has dealt with the processes before the one it is at, and when it has
\* returned with all of them.
CloseInv ==
  \A l \in Loggers :
    /\ sys[l].pc = "closing" => \A i \in Idx : i < sys[l].at => Gone(l, i)
    /\ sys[l].pc \in {"failed", "closed"} => \A i \in Idx : Gone(l, i)

\* A writer is idle or knows its logger.
WritersInv == \A w \in Writers : writer[w].pc # "idle" => writer[w].log \in Loggers

\* The environment's logger comes first.  It logs to the system only if the
\* environment says so or says nothing, and to a file only if it names one.
EnvInv ==
  /\ main \in {"env", "envsys", "conf"} => logger.of = "env" /\ conf = None
  /\ main = "envsys" \/ (main = "conf" /\ logger.out = "syslog") => envs.output \in {"", "syslog"}
  /\ main = "conf" /\ logger.out = "file" => envs.output # ""
  /\ main \in {"close", "new", "confsys"} => conf # None

\* An open file is the output in use.
FilesInv ==
  \A l \in Loggers : files[l] = "open" =>
    main \in {"conf", "run"} /\ logger.out = "file" /\ logger.of = l

\* The logger l is the environment's, left open for a second one.
LeftOpen(l) ==
  /\ l = "env" /\ envs.output = "syslog" /\ conf # None
  /\ main \in {"new", "confsys", "run", "closing", "done"}

\* A system logger that is open or being made is the one in use, or left open.
OpenInv ==
  \A l \in Loggers :
    /\ sys[l].pc = "new" => <<main, l>> \in {<<"envsys", "env">>, <<"confsys", "conf">>}
    /\ sys[l].pc = "open" =>
         \/ <<main, l>> \in {<<"envsys", "env">>, <<"confsys", "conf">>}
         \/ main \in {"conf", "run"} /\ logger.out = "syslog" /\ logger.of = l
         \/ LeftOpen(l)

\* The level is the one asked for by what has been read so far.
LevelInv ==
  /\ main \in {"envsys", "conf"} => logger.level = Level(Asked)
  /\ main = "confsys" => logger.level = Level(Asked \/ conf.verbose)
  /\ LevelAsAsked

LogInv ==
  /\ TypeOK
  /\ WritersInv
  /\ CloseInv
  /\ EnvInv
  /\ FilesInv
  /\ OpenInv
  /\ LoggerUsable
  /\ LevelInv
----------------------------------------------------------------------------
(* The system loggers: steps that main takes no part in *)

\* What the main goroutine sees of such a step: an open logger stays open, and
\* one that becomes open was being made.
SysFrame ==
  \A l \in Loggers :
    /\ sys[l].pc = "open" => sys'[l].pc = "open"
    /\ sys'[l].pc = "open" => sys[l].pc \in {"open", "new"}
    /\ sys'[l].pc = "new" => sys[l].pc = "new"

\* The severities are numbered from 1.
LEMMA IdxBounds ==
  /\ Len(Severities) \in Nat /\ Len(Severities) >= 1 /\ 1 \in Idx
  /\ \A i \in Idx : i \in Nat /\ 1 <= i /\ i <= Len(Severities)
  /\ \A i \in Idx : i < Len(Severities) => i + 1 \in Idx
<1>1. Len(Severities) \in Nat /\ Len(Severities) # 0
  BY SyslogAssumption
<1> QED BY <1>1 DEF Idx

\* The setup is not concerned.
LEMMA BesideStep ==
  ASSUME LogInv, UNCHANGED <<settings, main, logger, files>>,
         SyslogTypeOK', WritersInv', CloseInv', SysFrame
  PROVE  LogInv'
<1> USE DEF LogInv
<1>1. UNCHANGED <<opts, envs, conf, main, logger, files>>
  BY DEF settings
<1>2. TypeOK'
  BY <1>1 DEF TypeOK
<1>3. EnvInv' /\ FilesInv'
  BY <1>1 DEF EnvInv, FilesInv
<1>4. OpenInv'
  BY <1>1 DEF OpenInv, LeftOpen, SysFrame
<1>5. LoggerUsable'
  BY <1>1 DEF LoggerUsable, SysFrame, TypeOK
<1>6. LevelInv'
  BY <1>1 DEF LevelInv, LevelAsAsked, Level, Asked
<1> QED BY <1>2, <1>3, <1>4, <1>5, <1>6

\* A call of newOSProcess returns.
LEMMA NewProcessStep ==
  ASSUME SyslogTypeOK, WritersInv, CloseInv, NEW l \in Loggers, NewOSProcess(l) \/ NewOSProcessFails(l)
  PROVE  SyslogTypeOK' /\ WritersInv' /\ CloseInv' /\ SysFrame
<1>1. PICK e \in BOOLEAN : sys' = [sys EXCEPT ![l] = Created(l, e)]
  <2>1. CASE NewOSProcess(l)
    BY <2>1 DEF NewOSProcess, Created, SyslogTypeOK
  <2>2. CASE NewOSProcessFails(l)
    BY <2>2 DEF NewOSProcessFails
  <2> QED BY <2>1, <2>2
<1>2. /\ sys[l].pc = "new" /\ UNCHANGED <<mu, writer, deaths>>
      /\ \A k \in Loggers \ {l} : proc'[k] = proc[k]
      /\ proc' \in [Loggers -> [Idx -> {"none", "running", "dead", "deaf", "eof", "exited"}]]
  <2>1. PICK n \in Idx : n = sys[l].at
    BY DEF SyslogTypeOK
  <2>2. CASE NewOSProcess(l)
    <3>1. /\ sys[l].pc = "new" /\ UNCHANGED <<mu, writer, deaths>>
          /\ proc' = [proc EXCEPT ![l][n] = "running"]
      BY <2>1, <2>2 DEF NewOSProcess
    <3>2. /\ \A k \in Loggers \ {l} : proc'[k] = proc[k]
          /\ proc' \in [Loggers -> [Idx -> {"none", "running", "dead", "deaf", "eof", "exited"}]]
      BY <3>1 DEF SyslogTypeOK
    <3> QED BY <3>1, <3>2
  <2>3. CASE NewOSProcessFails(l)
    BY <2>3 DEF NewOSProcessFails, SyslogTypeOK
  <2> QED BY <2>2, <2>3
<1>3. PICK r \in [pc : {"new", "open", "closing"}, at : Idx, err : BOOLEAN] :
        /\ r = Created(l, e)
        /\ r.pc = "closing" => r.at = 1
  <2>1. PICK n \in Idx : n = sys[l].at
    BY DEF SyslogTypeOK
  <2>2. CASE n < Len(Severities)
    <3>1. PICK k \in Idx : k = n + 1
      BY <2>2, IdxBounds
    <3>2. Created(l, e) = [pc |-> "new", at |-> k, err |-> e]
      BY <2>1, <2>2, <3>1 DEF Created
    <3> QED BY <3>2
  <2>3. CASE ~(n < Len(Severities))
    <3>1. PICK s \in {"closing", "open"} : s = IF e THEN "closing" ELSE "open"
      OBVIOUS
    <3>2. Created(l, e) = [pc |-> s, at |-> 1, err |-> e]
      BY <2>1, <2>3, <3>1 DEF Created
    <3> QED BY <3>2, IdxBounds
  <2> QED BY <2>2, <2>3
<1>4. sys'[l] = r /\ \A k \in Loggers \ {l} : sys'[k] = sys[k]
  BY <1>1, <1>3 DEF SyslogTypeOK
<1>5. SyslogTypeOK'
  BY <1>1, <1>2, <1>3 DEF SyslogTypeOK
<1>6. CloseInv'
  BY <1>2, <1>3, <1>4, IdxBounds DEF CloseInv, Gone
<1> QED BY <1>2, <1>3, <1>4, <1>5, <1>6 DEF WritersInv, SysFrame

\* Close goes on behind a process that was not created or has ended.
LEMMA ClosedNext ==
  ASSUME SyslogTypeOK, WritersInv, CloseInv, NEW l \in Loggers, sys[l].pc = "closing", Gone(l, sys[l].at),
         sys' = [sys EXCEPT ![l] = Closed(l)], UNCHANGED <<proc, writer>>
  PROVE  /\ sys' \in [Loggers -> [pc : {"none", "new", "open", "closing", "closed", "failed"},
                                  at : Idx, err : BOOLEAN]]
         /\ WritersInv' /\ CloseInv' /\ SysFrame
<1>1. PICK n \in Idx : n = sys[l].at
  BY DEF SyslogTypeOK
<1>2. \A i \in Idx : i <= n => Gone(l, i)
  BY <1>1, IdxBounds DEF CloseInv
<1>3. PICK r \in [pc : {"closing", "closed", "failed"}, at : Idx, err : BOOLEAN] :
        /\ r = Closed(l)
        /\ r.pc = "closing" => \A i \in Idx : i < r.at => Gone(l, i)
        /\ r.pc # "closing" => \A i \in Idx : Gone(l, i)
  <2>1. CASE n < Len(Severities)
    <3>1. n + 1 \in Idx
      BY <2>1, IdxBounds
    <3>2. PICK m \in Idx : m = n + 1
      BY <3>1
    <3>3. Closed(l) = [sys[l] EXCEPT !.at = m]
      BY <1>1, <2>1, <3>2 DEF Closed
    <3>4. sys[l] \in [pc : {"closing"}, at : Idx, err : BOOLEAN]
      BY DEF SyslogTypeOK
    <3>5. PICK q : q = [sys[l] EXCEPT !.at = m]
      OBVIOUS
    <3>6. q \in [pc : {"closing"}, at : Idx, err : BOOLEAN] /\ q.at = m
      BY ONLY <3>4, <3>5, m \in Idx
    <3>7. \A i \in Idx : i < m => Gone(l, i)
      BY <1>2, <3>2, IdxBounds
    <3> QED BY <3>3, <3>5, <3>6, <3>7
  <2>2. CASE ~(n < Len(Severities))
    <3>1. \A i \in Idx : Gone(l, i)
      BY <1>2, <2>2, IdxBounds
    <3>2. PICK s \in {"failed", "closed"} : s = IF sys[l].err THEN "failed" ELSE "closed"
      OBVIOUS
    <3>3. Closed(l) = [pc |-> s, at |-> 1, err |-> FALSE]
      BY <1>1, <2>2, <3>2 DEF Closed
    <3>4. PICK q : q = [pc |-> s, at |-> 1, err |-> FALSE]
      OBVIOUS
    <3>5. /\ q \in [pc : {"closing", "closed", "failed"}, at : Idx, err : BOOLEAN]
          /\ q.pc # "closing"
      BY <3>4, IdxBounds
    <3> QED BY <3>1, <3>3, <3>4, <3>5
  <2> QED BY <2>1, <2>2
<1>4. sys'[l] = r /\ \A k \in Loggers \ {l} : sys'[k] = sys[k]
  BY <1>3 DEF SyslogTypeOK
<1>5. CloseInv'
  BY <1>3, <1>4 DEF CloseInv, Gone
<1>6. sys' \in [Loggers -> [pc : {"none", "new", "open", "closing", "closed", "failed"},
                            at : Idx, err : BOOLEAN]]
  BY <1>3 DEF SyslogTypeOK
<1> QED BY <1>3, <1>4, <1>5, <1>6 DEF WritersInv, SysFrame

\* The states of the processes change; none comes back to life.
LEMMA ProcsStep ==
  ASSUME SyslogTypeOK, WritersInv, CloseInv, UNCHANGED sys, NEW l \in Loggers, NEW i \in Idx,
         NEW v \in {"none", "running", "dead", "deaf", "eof", "exited"},
         proc' = [proc EXCEPT ![l][i] = v],
         Gone(l, i) => v = proc[l][i]
  PROVE  /\ proc' \in [Loggers -> [Idx -> {"none", "running", "dead", "deaf", "eof", "exited"}]]
         /\ CloseInv' /\ SysFrame
<1>1. /\ proc' \in [Loggers -> [Idx -> {"none", "running", "dead", "deaf", "eof", "exited"}]]
      /\ proc'[l][i] = v
      /\ \A k \in Loggers, j \in Idx : <<k, j>> # <<l, i>> => proc'[k][j] = proc[k][j]
  BY DEF SyslogTypeOK
<1>2. \A k \in Loggers, j \in Idx : Gone(k, j) => Gone(k, j)'
  BY <1>1 DEF Gone
<1>3. CloseInv'
  BY <1>2 DEF CloseInv
<1> QED BY <1>1, <1>3 DEF SysFrame

\* Close.
LEMMA CloseStep ==
  ASSUME SyslogTypeOK, WritersInv, CloseInv, NEW l \in Loggers, CloseSkip(l) \/ CloseStdin(l) \/ CloseWait(l)
  PROVE  SyslogTypeOK' /\ WritersInv' /\ CloseInv' /\ SysFrame
<1>1. PICK n \in Idx : n = sys[l].at
  BY DEF SyslogTypeOK
<1>2. CASE CloseSkip(l)
  <2>1. Gone(l, sys[l].at)
    BY <1>2 DEF CloseSkip, Gone
  <2>2. /\ sys[l].pc = "closing" /\ sys' = [sys EXCEPT ![l] = Closed(l)]
        /\ UNCHANGED <<proc, writer, mu, deaths>>
    BY <1>2 DEF CloseSkip
  <2> QED BY <2>1, <2>2, ClosedNext DEF SyslogTypeOK
<1>3. CASE CloseStdin(l)
  <2>1. PICK v \in {"eof", "exited"} : v = IF proc[l][n] = "exited" THEN "exited" ELSE "eof"
    OBVIOUS
  <2>2. /\ proc[l][n] # "none" /\ UNCHANGED <<sys, writer, deaths>>
        /\ mu' = [mu EXCEPT ![l][n] = "close"]
        /\ proc' = [proc EXCEPT ![l][n] = v]
    BY <1>1, <1>3, <2>1 DEF CloseStdin
  <2>3. Gone(l, n) => v = proc[l][n]
    BY <2>1, <2>2 DEF Gone
  <2>4. mu' \in [Loggers -> [Idx -> Writers \cup {"close", None}]]
    BY <2>2 DEF SyslogTypeOK
  <2> QED BY <2>2, <2>3, <2>4, ProcsStep DEF SyslogTypeOK, WritersInv
<1>4. CASE CloseWait(l)
  <2>1. Gone(l, sys[l].at)
    BY <1>4 DEF CloseWait, Gone
  <2>2. /\ sys[l].pc = "closing" /\ sys' = [sys EXCEPT ![l] = Closed(l)]
        /\ UNCHANGED <<proc, writer, deaths>>
        /\ mu' = [mu EXCEPT ![l][n] = None]
    BY <1>1, <1>4 DEF CloseWait
  <2>3. mu' \in [Loggers -> [Idx -> Writers \cup {"close", None}]]
    BY <2>2 DEF SyslogTypeOK
  <2> QED BY <2>1, <2>2, <2>3, ClosedNext DEF SyslogTypeOK
<1> QED BY <1>2, <1>3, <1>4

\* A writer takes the mutex and writes.
LEMMA WritingStep ==
  ASSUME SyslogTypeOK, WritersInv, CloseInv, NEW w \in Writers, WriteStep(w)
  PROVE  SyslogTypeOK' /\ WritersInv' /\ CloseInv' /\ SysFrame
<1>1. PICK l \in Loggers, i \in Idx : l = writer[w].log /\ i = writer[w].at
  BY DEF WriteStep, WriteLock, Write, WritersInv, SyslogTypeOK
<1>2. CASE WriteLock(w)
  <2>1. /\ UNCHANGED <<sys, proc, deaths>>
        /\ mu' = [mu EXCEPT ![l][i] = w]
        /\ writer' = [writer EXCEPT ![w].pc = "write"]
        /\ writer[w].pc = "lock"
    BY <1>1, <1>2 DEF WriteLock
  <2>2. mu' \in [Loggers -> [Idx -> Writers \cup {"close", None}]]
    BY <2>1 DEF SyslogTypeOK
  <2>3. /\ writer' \in [Writers -> [pc : {"idle", "lock", "write"},
                                    log : Loggers \cup {None}, at : Idx]]
        /\ WritersInv'
    BY <2>1 DEF SyslogTypeOK, WritersInv
  <2> QED BY <2>1, <2>2, <2>3 DEF SyslogTypeOK, CloseInv, Gone, SysFrame
<1>3. CASE Write(w)
  <2>1. PICK v \in {"none", "running", "dead", "deaf", "eof", "exited"} :
          v = IF proc[l][i] = "dead" THEN "deaf" ELSE proc[l][i]
    BY DEF SyslogTypeOK
  <2>2. /\ UNCHANGED <<sys, deaths>>
        /\ proc' = [proc EXCEPT ![l][i] = v]
        /\ mu' = [mu EXCEPT ![l][i] = None]
        /\ writer' = [writer EXCEPT ![w] = [pc |-> "idle", log |-> None, at |-> 1]]
    BY <1>1, <1>3, <2>1 DEF Write
  <2>3. Gone(l, i) => v = proc[l][i]
    BY <2>1 DEF Gone
  <2>4. mu' \in [Loggers -> [Idx -> Writers \cup {"close", None}]]
    BY <2>2 DEF SyslogTypeOK
  <2>5. /\ writer' \in [Writers -> [pc : {"idle", "lock", "write"},
                                    log : Loggers \cup {None}, at : Idx]]
        /\ WritersInv'
    BY <2>2, IdxBounds DEF SyslogTypeOK, WritersInv
  <2>6. /\ proc' \in [Loggers -> [Idx -> {"none", "running", "dead", "deaf", "eof", "exited"}]]
        /\ CloseInv' /\ SysFrame
    BY <2>2, <2>3, ProcsStep
  <2> QED BY <2>2, <2>4, <2>5, <2>6 DEF SyslogTypeOK
<1> QED BY <1>2, <1>3 DEF WriteStep

\* A logger process ends.
LEMMA ProcEndsStep ==
  ASSUME SyslogTypeOK, WritersInv, CloseInv, NEW l \in Loggers, NEW i \in Idx, ProcExits(l, i) \/ ProcDies(l, i)
  PROVE  SyslogTypeOK' /\ WritersInv' /\ CloseInv' /\ SysFrame
<1>1. /\ UNCHANGED <<sys, mu, writer>> /\ ~Gone(l, i) /\ deaths' \in 0..MaxDeaths
      /\ proc' = [proc EXCEPT ![l][i] = "exited"] \/ proc' = [proc EXCEPT ![l][i] = "dead"]
  BY SyslogAssumption DEF ProcExits, ProcDies, Gone, SyslogTypeOK
<1>2. /\ proc' \in [Loggers -> [Idx -> {"none", "running", "dead", "deaf", "eof", "exited"}]]
      /\ CloseInv' /\ SysFrame
  BY <1>1, ProcsStep
<1> QED BY <1>1, <1>2 DEF SyslogTypeOK, WritersInv
----------------------------------------------------------------------------
(* The main goroutine's calls of the system loggers *)

\* It makes none.
LEMMA NoSysCall ==
  ASSUME LogInv, UNCHANGED sysVars
  PROVE  SyslogTypeOK' /\ WritersInv' /\ CloseInv' /\ UNCHANGED sys
<1>1. UNCHANGED <<sys, proc, mu, writer, deaths>>
  BY DEF sysVars
<1> QED BY <1>1 DEF LogInv, TypeOK, SyslogTypeOK, WritersInv, CloseInv, Gone

\* newSystemLogger, or Close, is called for l.
LEMMA SysCall ==
  ASSUME LogInv, NEW l \in Loggers, NewSystemLogger(l) \/ CloseBegin(l)
  PROVE  /\ SyslogTypeOK' /\ WritersInv' /\ CloseInv'
         /\ \A k \in Loggers \ {l} : sys'[k] = sys[k]
         /\ NewSystemLogger(l) => sys'[l].pc = "new"
         /\ CloseBegin(l) => sys'[l].pc = "closing"
<1>1. UNCHANGED <<proc, mu, writer, deaths>>
  BY DEF NewSystemLogger, CloseBegin
<1>2. SyslogTypeOK
  BY DEF LogInv, TypeOK
<1>3. /\ sys' \in [Loggers -> [pc : {"none", "new", "open", "closing", "closed", "failed"},
                               at : Idx, err : BOOLEAN]]
      /\ \A k \in Loggers \ {l} : sys'[k] = sys[k]
      /\ NewSystemLogger(l) => sys'[l].pc = "new"
      /\ CloseBegin(l) => sys'[l].pc = "closing" /\ sys'[l].at = 1
  <2>1. CASE NewSystemLogger(l)
    <3>1. sys' = [sys EXCEPT ![l].pc = "new"] /\ ~CloseBegin(l)
      BY <1>2, <2>1 DEF NewSystemLogger, CloseBegin, SyslogTypeOK
    <3>4. PICK q : q = [sys[l] EXCEPT !.pc = "new"]
      OBVIOUS
    <3>5. q \in [pc : {"none", "new", "open", "closing", "closed", "failed"},
                 at : Idx, err : BOOLEAN]
      <4>1. sys[l].at \in Idx /\ sys[l].err \in BOOLEAN
        BY <1>2 DEF SyslogTypeOK
      <4>2. q = [pc |-> "new", at |-> sys[l].at, err |-> sys[l].err]
        BY <1>2, <3>4 DEF SyslogTypeOK
      <4> QED BY <4>1, <4>2
    <3>2. sys' \in [Loggers -> [pc : {"none", "new", "open", "closing", "closed", "failed"},
                                at : Idx, err : BOOLEAN]]
      <4>1. sys' = [sys EXCEPT ![l] = q]
        BY <3>1, <3>4
      <4> QED BY <1>2, <3>5, <4>1 DEF SyslogTypeOK
    <3>3. sys'[l].pc = "new" /\ \A k \in Loggers \ {l} : sys'[k] = sys[k]
      BY <1>2, <3>1 DEF SyslogTypeOK
    <3> QED BY <3>1, <3>2, <3>3
  <2>2. CASE CloseBegin(l)
    <3>1. PICK q : q = [pc |-> "closing", at |-> 1, err |-> FALSE]
      OBVIOUS
    <3>2. /\ q \in [pc : {"none", "new", "open", "closing", "closed", "failed"},
                    at : Idx, err : BOOLEAN]
          /\ q.pc = "closing" /\ q.at = 1
      BY <3>1, IdxBounds
    <3>3. sys' = [sys EXCEPT ![l] = q]
      BY <2>2, <3>1 DEF CloseBegin
    <3>4. sys'[l] = q
      BY <1>2, <3>3 DEF SyslogTypeOK
    <3>5. ~NewSystemLogger(l)
      <4>1. NewSystemLogger(l) => sys'[l].pc = "new"
        BY <1>2 DEF NewSystemLogger, SyslogTypeOK
      <4> QED BY <3>2, <3>4, <4>1
    <3> QED BY <1>2, <3>2, <3>3, <3>4, <3>5 DEF SyslogTypeOK
  <2> QED BY <2>1, <2>2
<1>4. SyslogTypeOK' /\ WritersInv'
  BY <1>1, <1>2, <1>3 DEF SyslogTypeOK, WritersInv, LogInv
<1>5. CloseInv'
  BY <1>1, <1>3, IdxBounds DEF CloseInv, Gone, LogInv
<1> QED BY <1>3, <1>4, <1>5

----------------------------------------------------------------------------
(* The main goroutine *)

\* A level is one of two.
LEMMA LevelType == \A v : Level(v) \in {"debug", "info"}
  BY DEF Level

LoggerType == [out : Outputs \cup {"none"}, of : Loggers, level : {"debug", "info"}]

\* The logger is l's, with level v, and writes to standard error or to the file
\* that has been opened.
LoggerMade(l, v) ==
  /\ logger' \in LoggerType /\ logger'.of = l /\ logger'.level = v
  /\ files' \in [Loggers -> {"none", "open", "closed"}]
  /\ \A k \in Loggers \ {l} : files'[k] = files[k]
  /\ \/ logger'.out = "file" /\ files'[l] = "open"
     \/ logger'.out = "stderr" /\ files'[l] = files[l]

\* newLogger without a system logger returns.
LEMMA NewLoggerMakes ==
  ASSUME LogInv, NEW l \in Loggers, NEW v \in {"debug", "info"}, NEW out, NEW next,
         NewLogger(l, out, v, next)
  PROVE  LoggerMade(l, v) /\ UNCHANGED sysVars /\ main' = next
<1>1. files \in [Loggers -> {"none", "open", "closed"}]
  BY DEF LogInv, TypeOK
<1>2. CASE files' = [files EXCEPT ![l] = "open"] /\ Use(l, "file", v, next)
  <2>1. logger' = [out |-> "file", of |-> l, level |-> v] /\ main' = next
    BY <1>2 DEF Use
  <2>2. logger' \in LoggerType /\ logger'.of = l /\ logger'.level = v /\ logger'.out = "file"
    BY <2>1 DEF LoggerType, Outputs
  <2>3. UNCHANGED sysVars
    BY DEF NewLogger
  <2> QED BY <1>1, <1>2, <2>1, <2>2, <2>3 DEF LoggerMade
<1>3. CASE UNCHANGED files /\ Use(l, "stderr", v, next)
  <2>1. logger' = [out |-> "stderr", of |-> l, level |-> v] /\ main' = next
    BY <1>3 DEF Use
  <2>2. logger' \in LoggerType /\ logger'.of = l /\ logger'.level = v /\ logger'.out = "stderr"
    BY <2>1 DEF LoggerType, Outputs
  <2>3. UNCHANGED sysVars
    BY DEF NewLogger
  <2> QED BY <1>1, <1>3, <2>1, <2>2, <2>3 DEF LoggerMade
<1> QED BY <1>2, <1>3 DEF NewLogger

\* The logger of the environment is made.
LEMMA NewEnvLoggerStep ==
  ASSUME LogInv, NewEnvLogger
  PROVE  LogInv'
<1>1. UNCHANGED <<opts, envs, conf>> /\ main = "env"
  BY DEF NewEnvLogger, settings
<1>2. PICK out : out = Or(envs.output, "syslog")
  OBVIOUS
<1>3. PICK v \in {"debug", "info"} : v = Level(Asked)
  BY LevelType
<1>4. v = Level(Asked)'
  BY <1>1, <1>3 DEF Level, Asked
<1>5. conf = None /\ (\A l \in Loggers : files[l] # "open" /\ sys[l].pc \notin {"new", "open"})
  BY <1>1 DEF LogInv, EnvInv, FilesInv, OpenInv, LeftOpen
<1>6. "env" \in Loggers
  BY LoggersAssumption
<1>7. CASE NewLogger("env", out, v, "conf")
  <2>1. /\ UNCHANGED sysVars /\ main' = "conf"
        /\ LoggerMade("env", v)
    BY <1>6, <1>7, NewLoggerMakes
  <2>2. envs.output # ""
    BY <1>2, <1>7 DEF NewLogger, Or
  <2>3. SyslogTypeOK' /\ WritersInv' /\ CloseInv' /\ UNCHANGED sys
    BY <2>1, NoSysCall
  <2>4. TypeOK'
    BY <1>1, <2>1, <2>3 DEF LogInv, TypeOK, LoggerMade, LoggerType
  <2>5. EnvInv' /\ FilesInv' /\ OpenInv' /\ LoggerUsable'
    BY <1>1, <1>5, <1>6, <2>2, <2>1, <2>3
       DEF EnvInv, FilesInv, OpenInv, LoggerUsable, LoggerMade
  <2>6. LevelInv'
    BY <1>4, <2>1 DEF LevelInv, LevelAsAsked, LoggerMade
  <2> QED BY <2>3, <2>4, <2>5, <2>6 DEF LogInv
<1>8. CASE NewSystem("env", out, v, "envsys")
  <2>1. /\ NewSystemLogger("env") /\ out = "syslog" /\ main' = "envsys" /\ files' = files
        /\ logger' = [out |-> "none", of |-> "env", level |-> v]
    BY <1>8 DEF NewSystem
  <2>2. /\ SyslogTypeOK' /\ WritersInv' /\ CloseInv'
        /\ \A k \in Loggers \ {"env"} : sys'[k] = sys[k]
        /\ sys'["env"].pc = "new"
    BY <1>6, <2>1, SysCall
  <2>3. TypeOK'
    BY <1>1, <1>6, <2>1, <2>2 DEF LogInv, TypeOK, Outputs
  <2>4. envs.output \in {"", "syslog"}
    BY <1>2, <2>1 DEF Or
  <2>5. EnvInv' /\ FilesInv' /\ LoggerUsable'
    BY <1>1, <1>5, <2>1, <2>4 DEF EnvInv, FilesInv, LoggerUsable
  <2>6. OpenInv'
    BY <1>5, <2>1, <2>2 DEF OpenInv
  <2>7. LevelInv'
    BY <1>4, <2>1 DEF LevelInv, LevelAsAsked
  <2> QED BY <2>2, <2>3, <2>5, <2>6, <2>7 DEF LogInv
<1> QED BY <1>2, <1>3, <1>7, <1>8 DEF NewEnvLogger, NewLogger, NewSystem, Use
\* newSystemLogger has returned, for the logger of the environment or of the
\* configuration.
LEMMA SystemMadeStep ==
  ASSUME LogInv, EnvSystemMade \/ ConfSystemMade
  PROVE  LogInv'
<1>1. PICK l \in Loggers, next \in {"conf", "run"} :
        \/ l = "env" /\ main = "envsys" /\ next = "conf" /\ SystemMade(l, "envsys", next)
        \/ l = "conf" /\ main = "confsys" /\ next = "run" /\ SystemMade(l, "confsys", next)
  BY LoggersAssumption DEF EnvSystemMade, ConfSystemMade, SystemMade
<1>2. PICK o \in {"syslog", "stderr"} : o = IF sys[l].pc = "open" THEN "syslog" ELSE "stderr"
  OBVIOUS
<1>3. PICK v \in {"debug", "info"} : v = logger.level
  BY DEF LogInv, TypeOK
<1>4. /\ UNCHANGED <<opts, envs, conf, files, sysVars>> /\ main' = next
      /\ sys[l].pc \in {"open", "failed"}
      /\ logger' = [out |-> o, of |-> l, level |-> v]
  BY <1>1, <1>2, <1>3 DEF SystemMade, Use, settings
<1>5. /\ logger' \in LoggerType /\ logger'.of = l /\ logger'.level = v /\ logger'.out = o
  BY <1>4 DEF LoggerType, Outputs
<1>6. SyslogTypeOK' /\ WritersInv' /\ CloseInv' /\ UNCHANGED sys
  BY <1>4, NoSysCall
<1>7. TypeOK'
  BY <1>4, <1>5, <1>6 DEF LogInv, TypeOK, LoggerType
<1>8. EnvInv'
  BY <1>1, <1>4, <1>5 DEF LogInv, EnvInv
<1>9. FilesInv' /\ LoggerUsable'
  BY <1>1, <1>2, <1>4, <1>5, <1>6 DEF LogInv, FilesInv, LoggerUsable
<1>10. OpenInv'
  BY <1>1, <1>2, <1>4, <1>5, <1>6 DEF LogInv, OpenInv, LeftOpen
<1>11. LevelInv'
  <2>1. CASE next = "conf"
    <3>1. v = Level(Asked)
      BY <1>1, <1>3, <2>1 DEF LogInv, LevelInv
    <3> QED BY <1>4, <1>5, <2>1, <3>1 DEF LevelInv, LevelAsAsked, Level, Asked
  <2>2. CASE next = "run"
    <3>1. v = Level(Asked \/ conf.verbose) /\ conf # None
      BY <1>1, <1>3, <2>2 DEF LogInv, LevelInv, EnvInv
    <3>2. LevelAsAsked'
      BY <1>4, <1>5, <3>1 DEF LevelAsAsked, Level, Asked
    <3> QED BY <1>4, <2>2, <3>2 DEF LevelInv
  <2> QED BY <2>1, <2>2
<1> QED BY <1>6, <1>7, <1>8, <1>9, <1>10, <1>11 DEF LogInv

\* The logger of the environment is used on.
LEMMA UseEnvStep ==
  ASSUME LogInv, NEW c \in Confs \cup {None},
         (NoConfig /\ c = None) \/ (c \in Confs /\ UseEnvLogger(c))
  PROVE  LogInv'
<1>1. /\ main = "conf" /\ main' = "run" /\ conf' = c
      /\ UNCHANGED <<opts, envs, logger, files, sysVars>>
      /\ c # None => c \in Confs /\ UsePrev(c)
  BY DEF NoConfig, UseEnvLogger, ConfigRead
<1>2. SyslogTypeOK' /\ WritersInv' /\ CloseInv' /\ UNCHANGED sys
  BY <1>1, NoSysCall
<1>3. TypeOK'
  BY <1>1, <1>2 DEF LogInv, TypeOK
<1>4. EnvInv' /\ FilesInv' /\ LoggerUsable'
  BY <1>1, <1>2 DEF LogInv, EnvInv, FilesInv, LoggerUsable
<1>5. OpenInv'
  BY <1>1, <1>2 DEF LogInv, OpenInv, LeftOpen
<1>6. LevelInv'
  <2>1. logger.level = Level(Asked) /\ opts \in BOOLEAN
    BY <1>1 DEF LogInv, LevelInv, TypeOK
  <2>2. CASE c = None
    BY <1>1, <2>1, <2>2 DEF LevelInv, LevelAsAsked, Level, Asked
  <2>3. CASE c # None
    <3>1. c.verbose => opts \/ envs.verbose # "unset"
      BY <1>1, <2>3 DEF UsePrev
    <3>2. envs.verbose \in {"true", "false", "unset"}
      BY DEF LogInv, TypeOK
    <3> QED BY <1>1, <2>1, <2>3, <3>1, <3>2 DEF LevelInv, LevelAsAsked, Level, Asked
  <2> QED BY <2>2, <2>3
<1> QED BY <1>2, <1>3, <1>4, <1>5, <1>6 DEF LogInv

\* The environment's file is used on, with another level.
LEMMA UseEnvFileStep ==
  ASSUME LogInv, NEW c \in Confs, UseEnvFile(c)
  PROVE  LogInv'
<1>1. PICK v \in {"debug", "info"} : v = Level(Asked \/ c.verbose)
  BY LevelType
<1>2. /\ main = "conf" /\ main' = "run" /\ conf' = c /\ logger.out = "file"
      /\ UNCHANGED <<opts, envs, files, sysVars>>
      /\ logger' = [out |-> "file", of |-> "env", level |-> v]
  BY <1>1 DEF UseEnvFile, ConfigRead, Use
<1>3. /\ logger' \in LoggerType /\ logger'.of = "env" /\ logger'.level = v /\ logger'.out = "file"
  BY <1>2, LoggersAssumption DEF LoggerType, Outputs
<1>4. SyslogTypeOK' /\ WritersInv' /\ CloseInv' /\ UNCHANGED sys
  BY <1>2, NoSysCall
<1>5. TypeOK'
  BY <1>2, <1>3, <1>4 DEF LogInv, TypeOK, LoggerType
<1>6. logger.of = "env"
  BY <1>2 DEF LogInv, EnvInv
<1>7. EnvInv' /\ FilesInv' /\ LoggerUsable'
  BY <1>2, <1>3, <1>6 DEF LogInv, EnvInv, FilesInv, LoggerUsable
<1>8. OpenInv'
  BY <1>2, <1>3, <1>4 DEF LogInv, OpenInv, LeftOpen
<1>9. LevelInv'
  BY <1>1, <1>2, <1>3, NoConfAssumption DEF LevelInv, LevelAsAsked, Level, Asked
<1> QED BY <1>4, <1>5, <1>7, <1>8, <1>9 DEF LogInv

\* The logger of the environment is closed, or left as it is, for another one.
LEMMA ReplaceEnvStep ==
  ASSUME LogInv, NEW c \in Confs, CloseEnvLogger(c) \/ LeaveEnvLogger(c)
  PROVE  LogInv'
<1>1. /\ main = "conf" /\ main' \in {"close", "new"} /\ conf' = c
      /\ UNCHANGED <<opts, envs, logger, files>>
      /\ CloseEnvLogger(c) => envs.output = ""
      /\ LeaveEnvLogger(c) => envs.output # "" /\ logger.out # "file" /\ main' = "new"
  BY DEF CloseEnvLogger, LeaveEnvLogger, ConfigRead
<1>2. "env" \in Loggers /\ logger.of = "env" /\ c # None
  BY <1>1, LoggersAssumption, NoConfAssumption DEF LogInv, EnvInv
<1>3. /\ SyslogTypeOK' /\ WritersInv' /\ CloseInv'
      /\ \/ sys' = sys /\ main' = "new" /\ (logger.out = "syslog" => envs.output = "syslog")
         \/ /\ \A k \in Loggers \ {"env"} : sys'[k] = sys[k]
            /\ sys'["env"].pc = "closing"
  <2>1. CASE CloseEnvLogger(c) /\ logger.out = "syslog"
    BY <1>2, <2>1, SysCall DEF CloseEnvLogger
  <2>2. CASE CloseEnvLogger(c) /\ logger.out # "syslog"
    BY <2>2, NoSysCall DEF CloseEnvLogger
  <2>3. CASE LeaveEnvLogger(c)
    <3>1. UNCHANGED sysVars
      BY <2>3 DEF LeaveEnvLogger
    <3>2. logger.out = "syslog" => envs.output = "syslog"
      BY <1>1, <2>3 DEF LogInv, EnvInv
    <3> QED BY <1>1, <2>3, <3>1, <3>2, NoSysCall
  <2> QED BY <2>1, <2>2, <2>3
<1>4. TypeOK'
  BY <1>1, <1>3 DEF LogInv, TypeOK
<1>5. logger.out # "file"
  <2>1. CASE CloseEnvLogger(c)
    BY <1>1, <2>1 DEF LogInv, EnvInv
  <2> QED BY <1>1, <2>1
<1>6. EnvInv' /\ FilesInv' /\ LoggerUsable'
  BY <1>1, <1>2, <1>5 DEF LogInv, EnvInv, FilesInv, LoggerUsable
<1>7. OpenInv'
  BY <1>1, <1>2, <1>3 DEF LogInv, OpenInv, LeftOpen
<1>8. LevelInv'
  BY <1>1 DEF LevelInv, LevelAsAsked
<1> QED BY <1>3, <1>4, <1>6, <1>7, <1>8 DEF LogInv
\* Close has returned.
LEMMA EnvLoggerClosedStep ==
  ASSUME LogInv, EnvLoggerClosed
  PROVE  LogInv'
<1>1. /\ main = "close" /\ main' = "new" /\ UNCHANGED <<opts, envs, conf, logger, files, sysVars>>
  BY DEF EnvLoggerClosed, settings
<1>2. SyslogTypeOK' /\ WritersInv' /\ CloseInv' /\ UNCHANGED sys
  BY <1>1, NoSysCall
<1>3. TypeOK'
  BY <1>1, <1>2 DEF LogInv, TypeOK
<1>4. EnvInv' /\ FilesInv' /\ LoggerUsable'
  BY <1>1 DEF LogInv, EnvInv, FilesInv, LoggerUsable
<1>5. OpenInv'
  BY <1>1, <1>2 DEF LogInv, OpenInv, LeftOpen
<1>6. LevelInv'
  BY <1>1 DEF LevelInv, LevelAsAsked
<1> QED BY <1>2, <1>3, <1>4, <1>5, <1>6 DEF LogInv

\* The logger of the configuration is made.
LEMMA NewConfigLoggerStep ==
  ASSUME LogInv, NewConfigLogger
  PROVE  LogInv'
<1>1. UNCHANGED <<opts, envs, conf>> /\ main = "new" /\ conf # None
  BY DEF NewConfigLogger, settings, LogInv, EnvInv
<1>2. PICK out : out = Or(envs.output, conf.output)
  OBVIOUS
<1>3. PICK v \in {"debug", "info"} : v = Level(Asked \/ conf.verbose)
  BY LevelType
<1>4. \A l \in Loggers : /\ files[l] # "open" /\ sys[l].pc # "new"
                         /\ sys[l].pc = "open" => l = "env" /\ envs.output = "syslog"
  BY <1>1 DEF LogInv, FilesInv, OpenInv, LeftOpen
<1>5. "conf" \in Loggers
  BY LoggersAssumption
<1>6. CASE NewLogger("conf", out, v, "run")
  <2>1. UNCHANGED sysVars /\ main' = "run" /\ LoggerMade("conf", v)
    BY <1>5, <1>6, NewLoggerMakes
  <2>2. SyslogTypeOK' /\ WritersInv' /\ CloseInv' /\ UNCHANGED sys
    BY <2>1, NoSysCall
  <2>3. TypeOK'
    BY <1>1, <2>1, <2>2 DEF LogInv, TypeOK, LoggerMade, LoggerType
  <2>4. EnvInv' /\ FilesInv' /\ LoggerUsable'
    BY <1>1, <1>4, <1>5, <2>1 DEF EnvInv, FilesInv, LoggerUsable, LoggerMade
  <2>5. OpenInv'
    BY <1>1, <1>4, <2>1, <2>2 DEF OpenInv, LeftOpen
  <2>6. LevelInv'
    BY <1>1, <1>3, <2>1 DEF LevelInv, LevelAsAsked, LoggerMade, Level, Asked
  <2> QED BY <2>2, <2>3, <2>4, <2>5, <2>6 DEF LogInv
<1>7. CASE NewSystem("conf", out, v, "confsys")
  <2>1. /\ NewSystemLogger("conf") /\ main' = "confsys" /\ files' = files
        /\ logger' = [out |-> "none", of |-> "conf", level |-> v]
    BY <1>7 DEF NewSystem
  <2>2. /\ SyslogTypeOK' /\ WritersInv' /\ CloseInv'
        /\ \A k \in Loggers \ {"conf"} : sys'[k] = sys[k]
        /\ sys'["conf"].pc = "new"
    BY <1>5, <2>1, SysCall
  <2>3. logger' \in LoggerType /\ logger'.level = v
    BY <1>5, <2>1 DEF LoggerType
  <2>4. TypeOK'
    BY <1>1, <2>1, <2>2, <2>3 DEF LogInv, TypeOK, LoggerType
  <2>5. EnvInv' /\ FilesInv' /\ LoggerUsable'
    BY <1>1, <1>4, <2>1 DEF EnvInv, FilesInv, LoggerUsable
  <2>6. OpenInv'
    BY <1>1, <1>4, <2>1, <2>2 DEF OpenInv, LeftOpen
  <2>7. LevelInv'
    BY <1>1, <1>3, <2>1, <2>3 DEF LevelInv, LevelAsAsked, Level, Asked
  <2> QED BY <2>2, <2>4, <2>5, <2>6, <2>7 DEF LogInv
<1> QED BY <1>2, <1>3, <1>6, <1>7 DEF NewConfigLogger, NewLogger, NewSystem, Use

\* A record is handed to the system logger.
LEMMA LogStep ==
  ASSUME LogInv, NEW w \in Writers, NEW i \in Idx, Log(w, i)
  PROVE  LogInv'
<1>1. PICK l \in Loggers : l = logger.of
  BY DEF LogInv, TypeOK
<1>2. /\ UNCHANGED <<settings, main, logger, files>> /\ UNCHANGED <<sys, proc, mu, deaths>>
      /\ writer' = [writer EXCEPT ![w] = [pc |-> "lock", log |-> l, at |-> i]]
  BY <1>1 DEF Log, WriteBegin
<1>3. SyslogTypeOK' /\ WritersInv'
  BY <1>2 DEF LogInv, TypeOK, SyslogTypeOK, WritersInv
<1>4. CloseInv' /\ SysFrame
  BY <1>2 DEF LogInv, CloseInv, Gone, SysFrame
<1> QED BY <1>2, <1>3, <1>4, BesideStep

\* closeLogs is called.
LEMMA CloseLogsStep ==
  ASSUME LogInv, CloseLogs
  PROVE  LogInv'
<1>1. PICK l \in Loggers : l = logger.of
  BY DEF LogInv, TypeOK
<1>2. /\ main = "run" /\ main' \in {"closing", "done"}
      /\ UNCHANGED <<opts, envs, conf, logger>>
      /\ files' = IF logger.out = "file" THEN [files EXCEPT ![l] = "closed"] ELSE files
  BY <1>1 DEF CloseLogs, settings
<1>3. /\ files' \in [Loggers -> {"none", "open", "closed"}]
      /\ \A k \in Loggers : files'[k] # "open"
  <2>1. CASE logger.out = "file"
    BY <1>1, <1>2, <2>1 DEF LogInv, TypeOK, FilesInv
  <2>2. CASE logger.out # "file"
    BY <1>2, <2>2 DEF LogInv, TypeOK, FilesInv
  <2> QED BY <2>1, <2>2
<1>4. /\ SyslogTypeOK' /\ WritersInv' /\ CloseInv'
      /\ \A k \in Loggers \ {l} : sys'[k] = sys[k]
      /\ IF logger.out = "syslog" THEN sys'[l].pc = "closing" ELSE sys'[l] = sys[l]
  <2>1. CASE logger.out = "syslog"
    <3>1. CloseBegin(l)
      BY <1>1, <2>1 DEF CloseLogs, CloseBegin
    <3> QED BY <2>1, <3>1, SysCall
  <2>2. CASE logger.out # "syslog"
    BY <2>2, NoSysCall DEF CloseLogs
  <2> QED BY <2>1, <2>2
<1>5. TypeOK'
  BY <1>2, <1>3, <1>4 DEF LogInv, TypeOK
<1>6. EnvInv' /\ FilesInv' /\ LoggerUsable'
  BY <1>2, <1>3 DEF EnvInv, FilesInv, LoggerUsable
<1>7. OpenInv'
  BY <1>1, <1>2, <1>4 DEF LogInv, OpenInv, LeftOpen
<1>8. LevelInv'
  BY <1>2 DEF LevelInv, LevelAsAsked
<1> QED BY <1>4, <1>5, <1>6, <1>7, <1>8 DEF LogInv

\* The process ends.
LEMMA LogsClosedStep ==
  ASSUME LogInv, LogsClosed
  PROVE  LogInv'
<1>1. /\ main = "closing" /\ main' = "done" /\ UNCHANGED <<opts, envs, conf, logger, files, sysVars>>
  BY DEF LogsClosed, settings
<1>2. SyslogTypeOK' /\ WritersInv' /\ CloseInv' /\ UNCHANGED sys
  BY <1>1, NoSysCall
<1>3. TypeOK'
  BY <1>1, <1>2 DEF LogInv, TypeOK
<1>4. EnvInv' /\ FilesInv' /\ LoggerUsable'
  BY <1>1 DEF LogInv, EnvInv, FilesInv, LoggerUsable
<1>5. OpenInv'
  BY <1>1, <1>2 DEF LogInv, OpenInv, LeftOpen
<1>6. LevelInv'
  BY <1>1 DEF LevelInv, LevelAsAsked
<1> QED BY <1>2, <1>3, <1>4, <1>5, <1>6 DEF LogInv

----------------------------------------------------------------------------
(* The invariant *)

\* At the beginning nothing has been opened.
LEMMA LogStarts ==
  ASSUME Init
  PROVE  LogInv
<1> USE DEF Init
<1>1. envs \in [output : Outputs \cup {""}, verbose : {"true", "false", "unset"}]
  <2>1. PICK o \in Outputs \cup {"", "relative"}, v \in {"", "x", "0", "1"} :
          envs = ParseLogEnvs(o, v)
    OBVIOUS
  <2>2. PICK p \in Outputs \cup {""} : p = IF o = "relative" THEN "" ELSE o
    OBVIOUS
  <2>3. PICK q \in {"true", "false", "unset"} :
          q = CASE v = "1" -> "true" [] v = "0" -> "false" [] OTHER -> "unset"
    OBVIOUS
  <2>4. envs = [output |-> p, verbose |-> q]
    BY <2>1, <2>2, <2>3 DEF ParseLogEnvs
  <2> QED BY <2>4
<1>2. SyslogTypeOK
  <2>1. PICK q \in [pc : {"none"}, at : Idx, err : BOOLEAN] :
          q = [pc |-> "none", at |-> 1, err |-> FALSE]
    BY IdxBounds
  <2>2. sys \in [Loggers -> [pc : {"none", "new", "open", "closing", "closed", "failed"},
                             at : Idx, err : BOOLEAN]]
    BY <2>1 DEF SyslogInit
  <2>3. proc \in [Loggers -> [Idx -> {"none", "running", "dead", "deaf", "eof", "exited"}]]
    BY DEF SyslogInit
  <2>4. mu \in [Loggers -> [Idx -> Writers \cup {"close", None}]]
    BY DEF SyslogInit
  <2>5. writer \in [Writers -> [pc : {"idle", "lock", "write"},
                                log : Loggers \cup {None}, at : Idx]]
    BY IdxBounds DEF SyslogInit
  <2>6. deaths \in 0..MaxDeaths
    <3>1. deaths = 0 /\ MaxDeaths \in Nat
      BY SyslogAssumption DEF SyslogInit
    <3> QED BY ONLY <3>1
  <2> QED BY <2>2, <2>3, <2>4, <2>5, <2>6 DEF SyslogTypeOK
<1>3. TypeOK
  <2>1. logger \in LoggerType
    BY LoggersAssumption DEF LoggerType
  <2>2. files \in [Loggers -> {"none", "open", "closed"}]
    OBVIOUS
  <2> QED BY <1>1, <1>2, <2>1, <2>2 DEF TypeOK, LoggerType
<1>4. WritersInv /\ CloseInv
  BY DEF SyslogInit, WritersInv, CloseInv
<1>5. EnvInv /\ FilesInv /\ LoggerUsable
  BY DEF EnvInv, FilesInv, LoggerUsable
<1>6. OpenInv
  BY DEF OpenInv, SyslogInit
<1>7. LevelInv
  BY DEF LevelInv, LevelAsAsked
<1> QED BY <1>3, <1>4, <1>5, <1>6, <1>7 DEF LogInv

\* Every step keeps the invariant.
LEMMA LogInvStep ==
  ASSUME LogInv, [Next]_logVars
  PROVE  LogInv'
<1>1. CASE UNCHANGED logVars
  <2>1. UNCHANGED <<settings, main, logger, files>> /\ UNCHANGED sysVars
    BY <1>1 DEF logVars
  <2>2. SyslogTypeOK' /\ WritersInv' /\ CloseInv' /\ UNCHANGED sys
    BY <2>1, NoSysCall
  <2> QED BY <2>1, <2>2, BesideStep DEF SysFrame
<1>2. CASE Setup
  <2>1. CASE NoConfig
    BY <2>1, UseEnvStep
  <2>2. ASSUME NEW c \in Confs,
               UseEnvLogger(c) \/ CloseEnvLogger(c) \/ UseEnvFile(c) \/ LeaveEnvLogger(c)
        PROVE  LogInv'
    BY <2>2, UseEnvStep, UseEnvFileStep, ReplaceEnvStep
  <2> QED BY <1>2, <2>1, <2>2, NewEnvLoggerStep, SystemMadeStep, EnvLoggerClosedStep,
             NewConfigLoggerStep DEF Setup
<1>3. ASSUME NEW w \in Writers, NEW i \in Idx, Log(w, i) PROVE LogInv'
  BY <1>3, LogStep
<1>4. CASE CloseLogs \/ LogsClosed
  BY <1>4, CloseLogsStep, LogsClosedStep
<1>5. SyslogTypeOK /\ WritersInv /\ CloseInv
  BY DEF LogInv, TypeOK
<1>6. ASSUME NEW l \in Loggers, Beside(Syslog(l)) PROVE LogInv'
  BY <1>5, <1>6, NewProcessStep, CloseStep, BesideStep DEF Beside, Syslog
<1>7. ASSUME NEW w \in Writers, Beside(WriteStep(w)) PROVE LogInv'
  BY <1>5, <1>7, WritingStep, BesideStep DEF Beside
<1>8. ASSUME NEW l \in Loggers, NEW i \in Idx, Beside(ProcExits(l, i)) \/ Beside(ProcDies(l, i))
      PROVE  LogInv'
  BY <1>5, <1>8, ProcEndsStep, BesideStep DEF Beside
<1> QED BY <1>1, <1>2, <1>3, <1>4, <1>6, <1>7, <1>8 DEF Next

\* The invariant holds in every state.
THEOREM LoggerInvariant == Spec => []LogInv
  BY LogStarts, LogInvStep, PTL DEF Spec

----------------------------------------------------------------------------
(* What it says of the loggers *)

\* Every state is of its type.
THEOREM LoggerTyped == Spec => []TypeOK
<1>1. LogInv => TypeOK
  BY DEF LogInv
<1> QED BY <1>1, LoggerInvariant, PTL

\* From the first record to closeLogs the output in use is open: newConfigLogger
\* closes no logger that is used on, whatever it was told and could not open.
THEOREM OutputOpen == Spec => []LoggerUsable
<1>1. LogInv => LoggerUsable
  BY DEF LogInv
<1> QED BY <1>1, LoggerInvariant, PTL

\* A Close leaves no process behind, however its processes have ended, and
\* closeLogs no file and no system logger but the one newConfigLogger has left.
THEOREM AllClosed == Spec => []NothingLeft
<1>1. ASSUME LogInv PROVE NothingLeft
  <2>1. \A l \in Loggers : sys[l].pc \in {"failed", "closed"} =>
          \A i \in Idx : proc[l][i] \in {"none", "exited"}
    BY <1>1 DEF LogInv, CloseInv, Gone
  <2>2. main = "done" => /\ \A l \in Loggers : files[l] # "open"
                         /\ \A l \in Loggers : sys[l].pc = "open" => LeftOpen(l)
    BY <1>1 DEF LogInv, FilesInv, OpenInv
  <2> QED BY <2>1, <2>2 DEF NothingLeft, LeftOpen
<1> QED BY <1>1, LoggerInvariant, PTL

\* The level in use is what -v, VERBOSE and the configuration ask for together,
\* whichever of the paths of newConfigLogger has been taken.
THEOREM LevelRight == Spec => []LevelAsAsked
<1>1. LogInv => LevelAsAsked
  BY DEF LogInv, LevelInv
<1> QED BY <1>1, LoggerInvariant, PTL

----------------------------------------------------------------------------
(* The mutexes of the logger processes *)

\* A writer that writes has the mutex of its process, whoever has it writes or
\* closes that process, and only a death leaves a process that reads no more.
LockInv ==
  /\ \A w \in Writers : writer[w].pc = "write" => mu[writer[w].log][writer[w].at] = w
  /\ \A l \in Loggers, i \in Idx :
       /\ mu[l][i] \in Writers =>
            LET w == writer[mu[l][i]] IN w.pc = "write" /\ w.log = l /\ w.at = i
       /\ mu[l][i] = "close" =>
            sys[l].pc = "closing" /\ sys[l].at = i /\ proc[l][i] \in {"eof", "exited"}
       /\ proc[l][i] \in {"dead", "deaf"} => deaths # 0

\* Steps that leave the mutexes and the writers alone.
LEMMA LocksKept ==
  ASSUME LockInv, UNCHANGED <<mu, writer>>,
         \A l \in Loggers, i \in Idx :
           /\ mu[l][i] = "close" =>
                sys'[l].pc = "closing" /\ sys'[l].at = i /\ proc'[l][i] \in {"eof", "exited"}
           /\ proc'[l][i] \in {"dead", "deaf"} => deaths' # 0
  PROVE  LockInv'
  BY DEF LockInv

\* The main goroutine's steps: it never closes a system logger twice.
LEMMA LocksMain ==
  ASSUME LogInv, LockInv,
         Setup \/ CloseLogs \/ LogsClosed \/ UNCHANGED logVars
  PROVE  LockInv'
<1>1. \/ UNCHANGED sysVars
      \/ \E l \in Loggers : NewSystemLogger(l)
      \/ \E l \in Loggers : CloseBegin(l) /\ sys[l].pc = "open"
  <2>1. CASE \E c \in Confs : CloseEnvLogger(c)
    <3>1. logger.of = "env"
      BY <2>1 DEF CloseEnvLogger, ConfigRead, LogInv, EnvInv
    <3> QED BY <2>1, <3>1, LoggersAssumption DEF CloseEnvLogger, ConfigRead, LogInv, LoggerUsable
  <2>2. CASE CloseLogs
    <3>1. logger.of \in Loggers
      BY DEF LogInv, TypeOK
    <3> QED BY <2>2, <3>1 DEF CloseLogs, LogInv, LoggerUsable
  <2>3. CASE NewEnvLogger \/ NewConfigLogger
    BY <2>3, LoggersAssumption DEF NewEnvLogger, NewConfigLogger, NewLogger, NewSystem
  <2>4. CASE \/ EnvSystemMade \/ NoConfig \/ EnvLoggerClosed \/ ConfSystemMade \/ LogsClosed
             \/ \E c \in Confs : UseEnvLogger(c) \/ UseEnvFile(c) \/ LeaveEnvLogger(c)
    BY <2>4 DEF EnvSystemMade, ConfSystemMade, SystemMade, NoConfig, EnvLoggerClosed, LogsClosed,
                UseEnvLogger, UseEnvFile, LeaveEnvLogger
  <2>5. CASE UNCHANGED logVars
    BY <2>5 DEF logVars
  <2> QED BY <2>1, <2>2, <2>3, <2>4, <2>5 DEF Setup
<1>2. CASE UNCHANGED sysVars
  BY <1>2, LocksKept DEF sysVars, LockInv
<1>3. ASSUME NEW l \in Loggers,
             NewSystemLogger(l) \/ (CloseBegin(l) /\ sys[l].pc = "open")
      PROVE  LockInv'
  <2>1. UNCHANGED <<proc, mu, writer, deaths>> /\ sys[l].pc # "closing"
    BY <1>3 DEF NewSystemLogger, CloseBegin
  <2>2. \A k \in Loggers \ {l} : sys'[k] = sys[k]
    BY <1>3 DEF NewSystemLogger, CloseBegin, LogInv, TypeOK, SyslogTypeOK
  <2> QED BY <2>1, <2>2, LocksKept DEF LockInv
<1> QED BY <1>1, <1>2, <1>3

\* The constructor, Close and the ends of processes.
LEMMA LocksSyslog ==
  ASSUME LogInv, LockInv, NEW l \in Loggers,
         Syslog(l) \/ \E i \in Idx : ProcExits(l, i) \/ ProcDies(l, i)
  PROVE  LockInv'
<1>1. SyslogTypeOK
  BY DEF LogInv, TypeOK
<1>2. PICK n \in Idx : n = sys[l].at
  BY <1>1 DEF SyslogTypeOK
<1>3. CASE NewOSProcess(l) \/ NewOSProcessFails(l) \/ CloseSkip(l)
  <2>1. /\ UNCHANGED <<mu, writer, deaths>> /\ \A i \in Idx : mu[l][i] # "close"
    BY <1>2, <1>3 DEF NewOSProcess, NewOSProcessFails, CloseSkip, LockInv
  <2>2. \A k \in Loggers \ {l} : sys'[k] = sys[k] /\ proc'[k] = proc[k]
    BY <1>1, <1>3 DEF NewOSProcess, NewOSProcessFails, CloseSkip, SyslogTypeOK
  <2>3. \A i \in Idx : proc'[l][i] \in {proc[l][i], "running"}
    <3>1. proc' = [proc EXCEPT ![l][n] = "running"] \/ proc' = proc
      BY <1>2, <1>3 DEF NewOSProcess, NewOSProcessFails, CloseSkip
    <3> QED BY <1>1, <3>1 DEF SyslogTypeOK
  <2> QED BY <2>1, <2>2, <2>3, LocksKept DEF LockInv
<1>4. CASE CloseStdin(l)
  <2>1. /\ sys[l].pc = "closing" /\ mu[l][n] = None /\ UNCHANGED <<sys, writer, deaths>>
        /\ mu' = [mu EXCEPT ![l][n] = "close"]
        /\ proc' = [proc EXCEPT ![l][n] = IF @ = "exited" THEN @ ELSE "eof"]
    BY <1>2, <1>4 DEF CloseStdin
  <2>2. /\ mu'[l][n] = "close" /\ proc'[l][n] \in {"eof", "exited"}
        /\ \A k \in Loggers, i \in Idx : <<k, i>> # <<l, n>> =>
             mu'[k][i] = mu[k][i] /\ proc'[k][i] = proc[k][i]
    BY <1>1, <2>1 DEF SyslogTypeOK
  <2>3. None \notin Writers /\ "close" \notin Writers
    BY SyslogAssumption
  <2>4. \A w \in Writers : writer[w].pc = "write" =>
          writer[w].log \in Loggers /\ writer[w].at \in Idx
    BY <1>1 DEF LogInv, WritersInv, SyslogTypeOK
  <2>5. \A w \in Writers : writer'[w].pc = "write" =>
          mu'[writer'[w].log][writer'[w].at] = w
    BY <2>1, <2>2, <2>3, <2>4 DEF LockInv
  <2>6. /\ mu'[l][n] \notin Writers /\ sys'[l].pc = "closing" /\ sys'[l].at = n
        /\ proc'[l][n] \notin {"dead", "deaf"}
    BY <1>2, <2>1, <2>2, <2>3
  <2>7. ASSUME NEW k \in Loggers, NEW i \in Idx
        PROVE  /\ mu'[k][i] \in Writers =>
                    LET w == writer'[mu'[k][i]] IN w.pc = "write" /\ w.log = k /\ w.at = i
               /\ mu'[k][i] = "close" =>
                    /\ sys'[k].pc = "closing" /\ sys'[k].at = i
                    /\ proc'[k][i] \in {"eof", "exited"}
               /\ proc'[k][i] \in {"dead", "deaf"} => deaths' # 0
    <3>1. CASE k = l /\ i = n
      BY <2>2, <2>6, <3>1
    <3>2. CASE ~(k = l /\ i = n)
      <4>1. mu'[k][i] = mu[k][i] /\ proc'[k][i] = proc[k][i]
        BY <2>2, <3>2
      <4> QED BY <2>1, <4>1 DEF LockInv
    <3> QED BY <3>1, <3>2
  <2> QED BY <2>5, <2>7 DEF LockInv
<1>5. CASE CloseWait(l)
  <2>1. /\ sys[l].pc = "closing" /\ mu[l][n] = "close" /\ UNCHANGED <<proc, writer, deaths>>
        /\ mu' = [mu EXCEPT ![l][n] = None]
        /\ \A k \in Loggers \ {l} : sys'[k] = sys[k]
    BY <1>1, <1>2, <1>5 DEF CloseWait, SyslogTypeOK
  <2>2. /\ mu'[l][n] = None
        /\ \A k \in Loggers, i \in Idx : <<k, i>> # <<l, n>> => mu'[k][i] = mu[k][i]
    BY <1>1, <2>1 DEF SyslogTypeOK
  <2>3. None \notin Writers \cup {"close"} /\ "close" \notin Writers
    BY SyslogAssumption
  <2>4. \A w \in Writers : writer[w].pc = "write" =>
          writer[w].log \in Loggers /\ writer[w].at \in Idx
    BY <1>1 DEF LogInv, WritersInv, SyslogTypeOK
  <2>5. \A i \in Idx : mu'[l][i] # "close"
    BY <1>2, <2>2, <2>3 DEF LockInv
  <2> QED BY <2>1, <2>2, <2>3, <2>4, <2>5 DEF LockInv
<1>6. ASSUME NEW i \in Idx, ProcExits(l, i) PROVE LockInv'
  <2>1. /\ UNCHANGED <<sys, mu, writer, deaths>> /\ proc'[l][i] = "exited"
        /\ \A k \in Loggers, j \in Idx : <<k, j>> # <<l, i>> => proc'[k][j] = proc[k][j]
    BY <1>1, <1>6 DEF ProcExits, SyslogTypeOK
  <2> QED BY <2>1, LocksKept DEF LockInv
<1>7. ASSUME NEW i \in Idx, ProcDies(l, i) PROVE LockInv'
  <2>1. /\ UNCHANGED <<sys, mu, writer>> /\ proc[l][i] = "running" /\ deaths' # 0
        /\ \A k \in Loggers, j \in Idx : <<k, j>> # <<l, i>> => proc'[k][j] = proc[k][j]
    BY <1>1, <1>7 DEF ProcDies, SyslogTypeOK
  <2> QED BY <2>1, LocksKept DEF LockInv
<1> QED BY <1>3, <1>4, <1>5, <1>6, <1>7 DEF Syslog

\* The writers.
LEMMA LocksWriters ==
  ASSUME LogInv, LockInv, NEW w \in Writers, WriteStep(w) \/ \E i \in Idx : Log(w, i)
  PROVE  LockInv'
<1>1. SyslogTypeOK
  BY DEF LogInv, TypeOK
<1>2. \A v \in Writers : writer[v].pc = "write" => writer[v].log \in Loggers /\ writer[v].at \in Idx
  BY <1>1 DEF LogInv, WritersInv, SyslogTypeOK
<1>3. None \notin Writers \cup {"close"} /\ "close" \notin Writers
  BY SyslogAssumption
<1>4. ASSUME NEW i \in Idx, Log(w, i) PROVE LockInv'
  <2>1. /\ UNCHANGED <<sys, proc, mu, deaths>> /\ writer[w].pc = "idle" /\ writer'[w].pc = "lock"
        /\ \A v \in Writers \ {w} : writer'[v] = writer[v]
    BY <1>1, <1>4 DEF Log, WriteBegin, SyslogTypeOK
  <2>2. \A l \in Loggers, j \in Idx : mu[l][j] # w
    BY <2>1 DEF LockInv
  <2> QED BY <2>1, <2>2 DEF LockInv
<1>5. ASSUME WriteLock(w) PROVE LockInv'
  <2>1. PICK l \in Loggers, i \in Idx : l = writer[w].log /\ i = writer[w].at
    BY <1>1, <1>5 DEF WriteLock, LogInv, WritersInv, SyslogTypeOK
  <2>2. /\ UNCHANGED <<sys, proc, deaths>> /\ mu[l][i] = None /\ writer[w].pc = "lock"
        /\ mu' = [mu EXCEPT ![l][i] = w] /\ writer' = [writer EXCEPT ![w].pc = "write"]
    BY <1>5, <2>1 DEF WriteLock
  <2>3. /\ mu'[l][i] = w
        /\ \A k \in Loggers, j \in Idx : <<k, j>> # <<l, i>> => mu'[k][j] = mu[k][j]
    BY <1>1, <2>2 DEF SyslogTypeOK
  <2>4. /\ writer'[w].pc = "write" /\ writer'[w].log = l /\ writer'[w].at = i
        /\ \A v \in Writers \ {w} : writer'[v] = writer[v]
    BY <1>1, <2>1, <2>2 DEF SyslogTypeOK
  <2>5. \A k \in Loggers, j \in Idx : mu[k][j] # w
    BY <2>2 DEF LockInv
  <2> QED BY <1>2, <1>3, <2>2, <2>3, <2>4, <2>5 DEF LockInv
<1>6. ASSUME Write(w) PROVE LockInv'
  <2>1. PICK l \in Loggers, i \in Idx : l = writer[w].log /\ i = writer[w].at
    BY <1>1, <1>6 DEF Write, LogInv, WritersInv, SyslogTypeOK
  <2>2. /\ UNCHANGED <<sys, deaths>> /\ mu[l][i] = w /\ mu' = [mu EXCEPT ![l][i] = None]
        /\ writer' = [writer EXCEPT ![w] = [pc |-> "idle", log |-> None, at |-> 1]]
        /\ proc' = [proc EXCEPT ![l][i] = IF @ = "dead" THEN "deaf" ELSE @]
    BY <1>6, <2>1 DEF Write, LockInv
  <2>3. /\ mu'[l][i] = None
        /\ \A k \in Loggers, j \in Idx : <<k, j>> # <<l, i>> => mu'[k][j] = mu[k][j]
    BY <1>1, <2>2 DEF SyslogTypeOK
  <2>4. writer'[w].pc = "idle" /\ \A v \in Writers \ {w} : writer'[v] = writer[v]
    BY <1>1, <2>2 DEF SyslogTypeOK
  <2>5. \A k \in Loggers, j \in Idx :
          \/ proc'[k][j] = proc[k][j]
          \/ proc[k][j] = "dead" /\ proc'[k][j] = "deaf"
    BY <1>1, <2>2 DEF SyslogTypeOK
  <2>6. \A k \in Loggers, j \in Idx : mu[k][j] = w => k = l /\ j = i
    BY <2>1 DEF LockInv
  <2> QED BY <1>2, <1>3, <2>2, <2>3, <2>4, <2>5, <2>6 DEF LockInv
<1> QED BY <1>4, <1>5, <1>6 DEF WriteStep

\* Whoever has the mutex of a logger process gives it back: it is in a write that
\* returns, if no logger process has died, or in a Close that waits for a process
\* whose stdin is closed.
HoldersProceed ==
  \A l \in Loggers, i \in Idx : mu[l][i] # None =>
    \/ \E w \in Writers : /\ mu[l][i] = w
                          /\ writer[w].pc = "write" /\ writer[w].log = l /\ writer[w].at = i
                          /\ proc[l][i] = "deaf" => deaths # 0
    \/ /\ mu[l][i] = "close"
       /\ sys[l].pc = "closing" /\ sys[l].at = i /\ proc[l][i] \in {"eof", "exited"}

\* With any number of writers nobody keeps a mutex that others, closeLogs among
\* them, wait for, unless a logger process has died (osProcess.write and close).
THEOREM LoggersNotStuck == Spec => []HoldersProceed
<1>1. Init => LockInv
  <2> SUFFICES ASSUME Init PROVE LockInv
    OBVIOUS
  <2>1. \A w \in Writers : writer[w].pc = "idle"
    BY DEF Init, SyslogInit
  <2>2. \A l \in Loggers, i \in Idx : mu[l][i] = None /\ proc[l][i] = "none"
    BY DEF Init, SyslogInit
  <2> QED BY <2>1, <2>2, SyslogAssumption DEF LockInv
<1>2. LogInv /\ LockInv /\ [Next]_logVars => LockInv'
  <2> SUFFICES ASSUME LogInv, LockInv, [Next]_logVars PROVE LockInv'
    OBVIOUS
  <2>1. CASE Setup \/ CloseLogs \/ LogsClosed \/ UNCHANGED logVars
    BY <2>1, LocksMain
  <2>2. ASSUME NEW l \in Loggers,
               \/ Beside(Syslog(l))
               \/ \E i \in Idx : Beside(ProcExits(l, i)) \/ Beside(ProcDies(l, i))
        PROVE  LockInv'
    BY <2>2, LocksSyslog DEF Beside
  <2>3. ASSUME NEW w \in Writers, Beside(WriteStep(w)) \/ \E i \in Idx : Log(w, i) PROVE LockInv'
    BY <2>3, LocksWriters DEF Beside
  <2> QED BY <2>1, <2>2, <2>3 DEF Next
<1>3. ASSUME LogInv, LockInv PROVE HoldersProceed
  <2>1. mu \in [Loggers -> [Idx -> Writers \cup {"close", None}]]
    BY <1>3 DEF LogInv, TypeOK, SyslogTypeOK
  <2>2. ASSUME NEW l \in Loggers, NEW i \in Idx, mu[l][i] # None
        PROVE  mu[l][i] \in Writers \/ mu[l][i] = "close"
    BY <2>1, <2>2
  <2>3. ASSUME NEW l \in Loggers, NEW i \in Idx, mu[l][i] \in Writers
        PROVE  \E w \in Writers : /\ mu[l][i] = w
                                  /\ writer[w].pc = "write" /\ writer[w].log = l /\ writer[w].at = i
                                  /\ proc[l][i] = "deaf" => deaths # 0
    BY <1>3, <2>3 DEF LockInv
  <2>4. ASSUME NEW l \in Loggers, NEW i \in Idx, mu[l][i] = "close"
        PROVE  sys[l].pc = "closing" /\ sys[l].at = i /\ proc[l][i] \in {"eof", "exited"}
    BY <1>3, <2>4 DEF LockInv
  <2> QED BY <2>2, <2>3, <2>4 DEF HoldersProceed
<1> QED BY <1>1, <1>2, <1>3, LoggerInvariant, PTL DEF Spec
=============================================================================
