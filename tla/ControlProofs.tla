--------------------------- MODULE ControlProofs ---------------------------
(***************************************************************************)
(* Proofs about Lifecycle and Control, for any number of terminals and     *)
(* either service manager.                                                 *)
(*                                                                         *)
(* LifeInv is the invariant of the service's process: the services are     *)
(* listed in the order of their dependencies, and the handler's loop       *)
(* divides the list into what is still up and what is down.  ControlInv    *)
(* adds what the commands and the manager keep: one installation at most   *)
(* writes the file, the migrator replaces what it has read, and the job    *)
(* the manager has fits the process.                                       *)
(* StopInv is about commands that wait for the process to end.             *)
(***************************************************************************)
EXTENDS Control, TLAPS

----------------------------------------------------------------------------
(* The service's process *)

Listed(s) == \E i \in 1..Len(services) : services[i] = s

\* A service is listed once, and exactly if it has been started.
ListOfStarted ==
  /\ \A s \in Services : Listed(s) <=> state[s] # "none"
  /\ \A i, j \in 1..Len(services) : services[i] = services[j] => i = j

\* What a service depends on is listed before it.
Ordered ==
  \A i \in 1..Len(services) :
    /\ services[i] = "dnssvc" => \E j \in 1..i - 1 : services[j] = "storage"
    /\ services[i] = "storage" => \E j \in 1..i - 1 : services[j] = "bootstrap"

\* Start has come as far as pc says.
StartedSoFar ==
  /\ pc = "debug" => state["debugsvc"] = "none"
  /\ pc \in {"debug", "resolvers"} => state["bootstrap"] = "none"
  /\ pc \in {"debug", "resolvers", "upstreams"} => state["storage"] = "none"
  /\ pc \in {"debug", "resolvers", "upstreams", "dns"} => state["dnssvc"] = "none"
  /\ pc = "upstreams" => Listed("bootstrap")
  /\ pc = "dns" => Listed("storage")

\* The handler's loop goes through the list from its end.
LoopInv ==
  /\ handler \in {"none", "wait"} =>
       \A i \in 1..Len(services) : state[services[i]] = "up"
  /\ handler \in {"shutdown", "call"} =>
       \A i \in 1..Len(services) :
         /\ i < left => state[services[i]] = "up"
         /\ i > left => state[services[i]] = "down"
  /\ handler = "shutdown" /\ left > 0 => state[services[left]] = "up"
  /\ handler = "call" => left > 0 /\ state[services[left]] = "closing"
  /\ handler \in {"send", "ended"} =>
       \A i \in 1..Len(services) : state[services[i]] = "down"

\* The handler is started last, shuts down when done is closed, and has ended
\* when Stop returns.
HandlerInv ==
  /\ pc \in {"debug", "resolvers", "upstreams", "dns", "handle"} =>
       handler = "none" /\ ~done
  /\ pc = "run" => handler = "wait" /\ ~done
  /\ handler = "ended" \/ pc \in {"stop", "check"} => done
  /\ done /\ pc \in {"check", "failed", "exited"} => handler = "ended"

LifeInv ==
  /\ TypeOK
  /\ ListOfStarted
  /\ Ordered
  /\ StartedSoFar
  /\ LoopInv
  /\ HandlerInv

\* A process that begins, and one that begins anew, satisfies the invariant.
LEMMA LifeInit == Init => LifeInv
<1> SUFFICES ASSUME Init PROVE LifeInv
  OBVIOUS
<1> USE DEF Init
<1>1. Len(services) = 0 /\ services \in Seq(Services) /\ left \in 0..Len(services)
  OBVIOUS
<1>2. TypeOK
  BY <1>1 DEF TypeOK
<1>3. ListOfStarted /\ Ordered
  BY <1>1 DEF ListOfStarted, Ordered, Listed
<1>4. StartedSoFar /\ LoopInv /\ HandlerInv
  BY <1>1 DEF StartedSoFar, LoopInv, HandlerInv, Services
<1> QED BY <1>2, <1>3, <1>4 DEF LifeInv

\* A service that is added to the end of the list leaves the list in order.
LEMMA AddKeeps ==
  ASSUME LifeInv, NEW s \in Services, NEW next, Add(s, next),
         state[s] = "none", handler = "none",
         s = "dnssvc" => Listed("storage"),
         s = "storage" => Listed("bootstrap"),
         UNCHANGED <<handler, left>>
  PROVE  /\ services' \in Seq(Services) /\ left' \in 0..Len(services')
         /\ state' \in [Services -> {"none", "up", "closing", "down"}]
         /\ ListOfStarted' /\ Ordered' /\ LoopInv' /\ Listed(s)'
         /\ \A t \in Services \ {s} : state'[t] = state[t] /\ (Listed(t) <=> Listed(t)')
<1> USE DEF LifeInv, Add
<1> services \in Seq(Services) /\ Len(services) \in Nat /\ left \in 0..Len(services)
    /\ state \in [Services -> {"none", "up", "closing", "down"}]
  BY DEF TypeOK
<1>1. /\ services' \in Seq(Services) /\ Len(services') = Len(services) + 1
      /\ \A i \in 1..Len(services) : services'[i] = services[i]
      /\ services'[Len(services) + 1] = s
  OBVIOUS
<1>2. \A i \in 1..Len(services) : services[i] \in Services /\ services[i] # s
  BY DEF ListOfStarted, Listed
<1>3. /\ state'[s] = "up" /\ \A t \in Services \ {s} : state'[t] = state[t]
      /\ state' \in [Services -> {"none", "up", "closing", "down"}]
  OBVIOUS
<1>4. Listed(s)' /\ \A t \in Services \ {s} : Listed(t) <=> Listed(t)'
  BY <1>1 DEF Listed
<1>5. ListOfStarted'
  BY <1>1, <1>2, <1>3, <1>4 DEF ListOfStarted
<1>6. Ordered'
  BY <1>1 DEF Ordered, Listed
<1>7. LoopInv'
  BY <1>1, <1>2, <1>3 DEF LoopInv
<1> QED BY <1>1, <1>3, <1>4, <1>5, <1>6, <1>7

\* The process keeps its invariant: one step for each action of Lifecycle.
LEMMA LifeStep == LifeInv /\ [Next]_vars => LifeInv'
<1> SUFFICES ASSUME LifeInv, [Next]_vars PROVE LifeInv'
  OBVIOUS
<1> USE DEF LifeInv
<1>1. CASE UNCHANGED vars
  BY <1>1 DEF vars, TypeOK, ListOfStarted, Ordered, StartedSoFar, LoopInv,
              HandlerInv, Listed
<1>2. CASE StartDebug
  <2> USE <1>2 DEF StartDebug
  <2>1. state["debugsvc"] = "none" /\ handler = "none" /\ "debugsvc" \in Services
    BY DEF StartedSoFar, HandlerInv, Services
  <2>2. /\ services' \in Seq(Services) /\ left' \in 0..Len(services')
        /\ state' \in [Services -> {"none", "up", "closing", "down"}]
        /\ ListOfStarted' /\ Ordered' /\ LoopInv'
        /\ \A t \in Services \ {"debugsvc"} : state'[t] = state[t]
    BY <2>1, AddKeeps
  <2>3. TypeOK'
    BY <2>2 DEF TypeOK, Add
  <2>4. StartedSoFar' /\ HandlerInv'
    BY <2>2 DEF StartedSoFar, HandlerInv, Services, Add
  <2> QED BY <2>2, <2>3, <2>4
<1>3. CASE StartNoDebug
  BY <1>3 DEF StartNoDebug, TypeOK, ListOfStarted, Ordered, StartedSoFar, LoopInv,
              HandlerInv, Listed
<1>4. CASE NewResolvers
  <2> USE <1>4 DEF NewResolvers
  <2>1. state["bootstrap"] = "none" /\ handler = "none" /\ "bootstrap" \in Services
    BY DEF StartedSoFar, HandlerInv, Services
  <2>2. /\ services' \in Seq(Services) /\ left' \in 0..Len(services')
        /\ state' \in [Services -> {"none", "up", "closing", "down"}]
        /\ ListOfStarted' /\ Ordered' /\ LoopInv' /\ Listed("bootstrap")'
        /\ \A t \in Services \ {"bootstrap"} : state'[t] = state[t]
    BY <2>1, AddKeeps
  <2>3. TypeOK'
    BY <2>2 DEF TypeOK, Add
  <2>4. StartedSoFar' /\ HandlerInv'
    BY <2>2 DEF StartedSoFar, HandlerInv, Services, Add
  <2> QED BY <2>2, <2>3, <2>4
<1>5. CASE StartStorage
  <2> USE <1>5 DEF StartStorage
  <2>1. state["storage"] = "none" /\ handler = "none" /\ "storage" \in Services
        /\ Listed("bootstrap")
    BY DEF StartedSoFar, HandlerInv, Services
  <2>2. /\ services' \in Seq(Services) /\ left' \in 0..Len(services')
        /\ state' \in [Services -> {"none", "up", "closing", "down"}]
        /\ ListOfStarted' /\ Ordered' /\ LoopInv' /\ Listed("storage")'
        /\ \A t \in Services \ {"storage"} : state'[t] = state[t]
    BY <2>1, AddKeeps
  <2>3. TypeOK'
    BY <2>2 DEF TypeOK, Add
  <2>4. StartedSoFar' /\ HandlerInv'
    BY <2>2 DEF StartedSoFar, HandlerInv, Services, Add
  <2> QED BY <2>2, <2>3, <2>4
<1>6. CASE StartDNS
  <2> USE <1>6 DEF StartDNS
  <2>1. state["dnssvc"] = "none" /\ handler = "none" /\ "dnssvc" \in Services
        /\ Listed("storage")
    BY DEF StartedSoFar, HandlerInv, Services
  <2>2. /\ services' \in Seq(Services) /\ left' \in 0..Len(services')
        /\ state' \in [Services -> {"none", "up", "closing", "down"}]
        /\ ListOfStarted' /\ Ordered' /\ LoopInv'
    BY <2>1, AddKeeps
  <2>3. TypeOK'
    BY <2>2 DEF TypeOK, Add
  <2>4. StartedSoFar' /\ HandlerInv'
    BY <2>2 DEF StartedSoFar, HandlerInv, Services, Add
  <2> QED BY <2>2, <2>3, <2>4
<1>7. CASE StartFails
  <2> USE <1>7 DEF StartFails
  <2>1. TypeOK'
    BY DEF TypeOK
  <2>2. ListOfStarted' /\ Ordered'
    BY DEF ListOfStarted, Ordered, Listed
  <2>3. StartedSoFar' /\ LoopInv'
    BY DEF StartedSoFar, LoopInv, HandlerInv, Listed
  <2>4. HandlerInv'
    BY DEF HandlerInv
  <2> QED BY <2>1, <2>2, <2>3, <2>4
<1>8. CASE GoHandle
  <2> USE <1>8 DEF GoHandle
  <2>1. TypeOK'
    BY DEF TypeOK
  <2>2. ListOfStarted' /\ Ordered'
    BY DEF ListOfStarted, Ordered, Listed
  <2>3. StartedSoFar' /\ LoopInv'
    BY DEF StartedSoFar, LoopInv, HandlerInv, Listed
  <2>4. HandlerInv'
    BY DEF HandlerInv
  <2> QED BY <2>1, <2>2, <2>3, <2>4
<1>9. CASE Stop
  <2> USE <1>9 DEF Stop
  <2>1. TypeOK'
    BY DEF TypeOK
  <2>2. ListOfStarted' /\ Ordered'
    BY DEF ListOfStarted, Ordered, Listed
  <2>3. StartedSoFar' /\ LoopInv'
    BY DEF StartedSoFar, LoopInv, HandlerInv, Listed
  <2>4. HandlerInv'
    BY DEF HandlerInv
  <2> QED BY <2>1, <2>2, <2>3, <2>4
<1>10. CASE Server
  BY <1>10 DEF Server, ServerStarts, ServerPanics, TypeOK, ListOfStarted, Ordered,
              StartedSoFar, LoopInv, HandlerInv, Listed
<1>11. CASE RecvErr
  <2> USE <1>11 DEF RecvErr
  <2>1. TypeOK'
    BY DEF TypeOK
  <2>2. ListOfStarted' /\ Ordered'
    BY DEF ListOfStarted, Ordered, Listed
  <2>3. StartedSoFar' /\ LoopInv'
    BY DEF StartedSoFar, LoopInv, HandlerInv, Listed
  <2>4. HandlerInv'
    BY DEF HandlerInv
  <2> QED BY <2>1, <2>2, <2>3, <2>4
<1>12. CASE Exit
  <2> USE <1>12 DEF Exit
  <2>1. TypeOK'
    BY DEF TypeOK
  <2>2. ListOfStarted' /\ Ordered'
    BY DEF ListOfStarted, Ordered, Listed
  <2>3. StartedSoFar' /\ LoopInv'
    BY DEF StartedSoFar, LoopInv, HandlerInv, Listed
  <2>4. HandlerInv'
    BY DEF HandlerInv
  <2> QED BY <2>1, <2>2, <2>3, <2>4
<1>13. CASE Wake
  BY <1>13 DEF Wake, TypeOK, ListOfStarted, Ordered, StartedSoFar, LoopInv, HandlerInv,
               Listed, Alive
<1>14. CASE ShutdownBegin
  <2> USE <1>14 DEF ShutdownBegin
  <2>1. left \in 1..Len(services) /\ services \in Seq(Services) /\ services[left] \in Services
    BY DEF TypeOK
  <2>2. TypeOK'
    BY <2>1 DEF TypeOK
  <2>3. ListOfStarted' /\ Ordered'
    BY <2>1 DEF ListOfStarted, Ordered, Listed, TypeOK
  <2>4. StartedSoFar'
    BY <2>1 DEF StartedSoFar, HandlerInv
  <2>5. LoopInv'
    BY <2>1 DEF LoopInv, TypeOK, ListOfStarted
  <2> QED BY <2>2, <2>3, <2>4, <2>5 DEF HandlerInv, Alive
<1>15. ASSUME NEW failed \in BOOLEAN, ShutdownEnd(failed)
       PROVE  LifeInv'
  <2> USE <1>15 DEF ShutdownEnd
  <2>1. left \in 1..Len(services) /\ services \in Seq(Services) /\ services[left] \in Services
    BY DEF TypeOK, LoopInv
  <2>2. TypeOK'
    BY <2>1 DEF TypeOK
  <2>3. ListOfStarted' /\ Ordered'
    BY <2>1 DEF ListOfStarted, Ordered, Listed, TypeOK
  <2>4. StartedSoFar'
    BY <2>1 DEF StartedSoFar, HandlerInv
  <2>5. LoopInv'
    BY <2>1 DEF LoopInv, TypeOK, ListOfStarted
  <2> QED BY <2>2, <2>3, <2>4, <2>5 DEF HandlerInv, Alive
<1>16. CASE SendErr
  BY <1>16 DEF SendErr, TypeOK, ListOfStarted, Ordered, StartedSoFar, LoopInv, HandlerInv,
               Listed, Alive
<1> QED
  BY <1>1, <1>2, <1>3, <1>4, <1>5, <1>6, <1>7, <1>8, <1>9, <1>10, <1>11,
     <1>12, <1>13, <1>14, <1>15, <1>16
  DEF Next, Start, Handle

\* The invariant says that the services outlive those that depend on them.
LEMMA LifeOutlives == LifeInv => StorageOutlivesDNS
<1> SUFFICES ASSUME LifeInv PROVE StorageOutlivesDNS
  OBVIOUS
<1> USE DEF LifeInv
<1>1. ASSUME NEW i \in 1..Len(services), state[services[i]] \in {"up", "closing"},
             NEW j \in 1..i - 1
      PROVE  state[services[j]] = "up"
  BY <1>1 DEF LoopInv, TypeOK
<1>2. ASSUME NEW s \in Services, state[s] \in {"up", "closing"}
      PROVE  \E i \in 1..Len(services) : services[i] = s
  BY <1>2 DEF ListOfStarted, Listed
<1> QED BY <1>1, <1>2 DEF StorageOutlivesDNS, Ordered, Services

\* And that nothing is up when Stop has returned.
LEMMA LifeStopped == LifeInv => StoppedMeansDown
  BY DEF LifeInv, StoppedMeansDown, HandlerInv, LoopInv, ListOfStarted, Listed

----------------------------------------------------------------------------
(* The commands, the file and the manager *)

\* One installation at most is writing the file, which is not complete then,
\* unless the migrator has put the user's back in its place.
OneCreator ==
  /\ \A c, d \in Ctls : Creating(c) /\ Creating(d) => c = d
  /\ \A c \in Ctls : Creating(c) => file \in {"empty", "partial", "user"}

\* A file that nobody is writing and nobody is to blame for is complete.
CompleteUnlessBlamed ==
  blame = "none" /\ (\A c \in Ctls : ~Creating(c)) => file \notin {"empty", "partial"}

\* There is a file if the service is installed, or about to be.
InstallHasFile ==
  /\ blame = "none"
  /\ installed \/ \E c \in Ctls : ctl[c].pc = "control" /\ ctl[c].action = "install"
  => file # "absent"

\* The manager knows whether there is a process.
JobFits == stage = "off" <=> job \in {"inactive", "failed", "waiting"}

\* What the migrator has read is what it replaces, if the user leaves it alone.
ReadIsOld == stage = "migrate" /\ ~edited => file = "old"

ControlInv ==
  /\ LifeInv
  /\ ControlTypeOK
  /\ OneCreator
  /\ CompleteUnlessBlamed
  /\ InstallHasFile
  /\ JobFits
  /\ ReadIsOld

\* A process that begins anew has the invariant.
LEMMA LifeReset == Init' => LifeInv'
  BY LifeInit, PTL

\* Whatever is done from outside, the process keeps its invariant: it takes a step
\* of Lifecycle, begins anew, or is left alone.
LEMMA ControlLife == LifeInv /\ [ControlNext]_allVars => LifeInv'
<1> SUFFICES ASSUME LifeInv, [ControlNext]_allVars PROVE LifeInv'
  OBVIOUS
<1>1. ASSUME UNCHANGED service PROVE LifeInv'
  BY <1>1, LifeStep DEF service, vars
<1>2. ASSUME Next PROVE LifeInv'
  BY <1>2, LifeStep
<1>3. ASSUME NEW clean, Ended(clean) PROVE LifeInv'
  BY <1>3, LifeReset DEF Ended, Reset, Init
<1>4. ASSUME NEW c \in Ctls, Command(c) PROVE LifeInv'
  BY <1>1, <1>4
  DEF Command, Install, Status, InstallFails, CreateFile, FileExists,
      NewDefaultConfigFails, NewDefaultConfig, EncodeFails, Encode, CtlStatus,
      IsInstalled, CtlList, ControlFails, CtlInstall, CtlUninstall, CtlStart, CtlStop,
      CtlStopNone
<1>5. ASSUME Process \/ Signal \/ ProcessKilled PROVE LifeInv'
  BY <1>1, <1>2, <1>3, <1>5
  DEF Process, HandleConfig, NoMigration, Upgrade, WriteMigrated, Signal, ReadConfig,
      ConfigFails, ProcessEnds, Proceeds, SignalKills,
      SignalStops, ProcessKilled, Next
<1>6. ASSUME \/ \E c \in Ctls : CtlKilled(c) \/ \E a \in Actions : CtlRun(c, a)
             \/ AutoRestart \/ UserWrites \/ UserRemoves
      PROVE  LifeInv'
  BY <1>1, <1>6 DEF CtlKilled, CtlRun, AutoRestart, UserWrites, UserRemoves
<1> QED BY <1>1, <1>4, <1>5, <1>6 DEF ControlNext, allVars

\* The commands, the file and the manager: everything but LifeInv.
CtlInv ==
  ControlTypeOK /\ OneCreator /\ CompleteUnlessBlamed /\ InstallHasFile /\ JobFits /\ ReadIsOld

Pcs == {"idle", "create", "defaults", "encode", "control", "wait", "list"}

\* How a command that goes on or exits changes ctl.
LEMMA GotoCtl ==
  ASSUME ControlTypeOK, NEW c \in Ctls, NEW p, NEW q \in Pcs, Goto(c, p, q)
  PROVE  /\ ctl' \in [Ctls -> [pc : Pcs, action : Actions \cup {"none"}]]
         /\ ctl'[c].pc = q /\ ctl'[c].action = ctl[c].action
         /\ \A d \in Ctls \ {c} : ctl'[d] = ctl[d]
  BY DEF ControlTypeOK, Goto, Pcs

\* The same for a command that exits.
LEMMA ExitCtl ==
  ASSUME ControlTypeOK, NEW c \in Ctls, NEW p, ExitAt(c, p)
  PROVE  /\ ctl' \in [Ctls -> [pc : Pcs, action : Actions \cup {"none"}]]
         /\ ctl'[c].pc = "idle"
         /\ \A d \in Ctls \ {c} : ctl'[d] = ctl[d]
  BY DEF ControlTypeOK, ExitAt, Pcs, Idle

\* The steps of an installation.
LEMMA InstallStep ==
  ASSUME CtlInv, TypeOK', NEW c \in Ctls, Install(c)
  PROVE  CtlInv'
<1> USE DEF CtlInv
<1>1. CASE InstallFails(c)
  <2> USE <1>1 DEF InstallFails, config, manager
  <2>1. ControlTypeOK'
    BY ExitCtl DEF ControlTypeOK, Pcs
  <2>2. OneCreator' /\ CompleteUnlessBlamed' /\ InstallHasFile' /\ JobFits' /\ ReadIsOld'
    BY ExitCtl DEF ExitAt, OneCreator, CompleteUnlessBlamed, InstallHasFile, JobFits, ReadIsOld, Creating
  <2> QED BY <2>1, <2>2
<1>2. CASE CreateFile(c)
  <2> USE <1>2 DEF CreateFile, manager
  <2>1. ctl[c].pc = "create" /\ "defaults" \in Pcs
    BY DEF Goto, Pcs
  <2>2. ControlTypeOK'
    BY <2>1, GotoCtl DEF ControlTypeOK, Pcs, Files
  <2>3. OneCreator' /\ CompleteUnlessBlamed' /\ InstallHasFile' /\ JobFits' /\ ReadIsOld'
    BY <2>1, GotoCtl DEF OneCreator, CompleteUnlessBlamed, InstallHasFile, JobFits, ReadIsOld, Creating
  <2> QED BY <2>2, <2>3
<1>3. CASE FileExists(c)
  <2> USE <1>3 DEF FileExists, config, manager
  <2>1. ctl[c].pc = "create" /\ "control" \in Pcs
    BY DEF Goto, Pcs
  <2>2. ControlTypeOK'
    BY <2>1, GotoCtl DEF ControlTypeOK, Pcs
  <2>3. OneCreator' /\ CompleteUnlessBlamed' /\ InstallHasFile' /\ JobFits' /\ ReadIsOld'
    BY <2>1, GotoCtl DEF OneCreator, CompleteUnlessBlamed, InstallHasFile, JobFits, ReadIsOld, Creating
  <2> QED BY <2>2, <2>3
<1>4. CASE NewDefaultConfigFails(c) \/ EncodeFails(c)
  <2> USE <1>4 DEF NewDefaultConfigFails, EncodeFails, Left, Whole, Latest, manager
  <2>1. PICK p \in {"defaults", "encode"} : ExitAt(c, p)
    OBVIOUS
  <2>2. ControlTypeOK'
    BY <2>1, ExitCtl DEF ControlTypeOK, Pcs
  <2>3. OneCreator' /\ CompleteUnlessBlamed' /\ InstallHasFile' /\ JobFits' /\ ReadIsOld'
    BY <2>1, ExitCtl DEF OneCreator, CompleteUnlessBlamed, InstallHasFile, JobFits, ReadIsOld, Creating
  <2> QED BY <2>2, <2>3
<1>5. CASE NewDefaultConfig(c)
  <2> USE <1>5 DEF NewDefaultConfig, Written, Whole, Latest, manager
  <2>1. ctl[c].pc = "defaults" /\ "encode" \in Pcs
    BY DEF Goto, Pcs
  <2>2. ControlTypeOK'
    BY <2>1, GotoCtl DEF ControlTypeOK, Pcs, Files
  <2>3. OneCreator' /\ CompleteUnlessBlamed' /\ InstallHasFile' /\ JobFits' /\ ReadIsOld'
    BY <2>1, GotoCtl DEF OneCreator, CompleteUnlessBlamed, InstallHasFile, JobFits, ReadIsOld, Creating
  <2> QED BY <2>2, <2>3
<1>6. CASE Encode(c)
  <2> USE <1>6 DEF Encode, Written, Whole, Latest, manager
  <2>1. ctl[c].pc = "encode" /\ "control" \in Pcs
    BY DEF Goto, ExitAt, Pcs
  <2>2. /\ ctl' \in [Ctls -> [pc : Pcs, action : Actions \cup {"none"}]]
        /\ ctl'[c].pc \in {"idle", "control"}
        /\ \A d \in Ctls \ {c} : ctl'[d] = ctl[d]
    BY <2>1, GotoCtl, ExitCtl
  <2>3. ControlTypeOK'
    BY <2>2 DEF ControlTypeOK, Pcs, Files
  <2>4. OneCreator' /\ CompleteUnlessBlamed' /\ InstallHasFile' /\ JobFits' /\ ReadIsOld'
    BY <2>1, <2>2 DEF OneCreator, CompleteUnlessBlamed, InstallHasFile, JobFits, ReadIsOld, Creating
  <2> QED BY <2>3, <2>4
<1> QED BY <1>1, <1>2, <1>3, <1>4, <1>5, <1>6 DEF Install

\* The steps of the other commands, in which the file is left alone.
LEMMA ControlCommandStep ==
  ASSUME CtlInv, TypeOK', NEW c \in Ctls,
         \/ Status(c) \/ ControlFails(c) \/ CtlInstall(c) \/ CtlUninstall(c)
         \/ CtlStart(c) \/ CtlStop(c) \/ CtlStopNone(c)
  PROVE  CtlInv'
<1> USE DEF CtlInv
<1>1. /\ ctl[c].pc \in {"control", "list"}
      /\ ctl' \in [Ctls -> [pc : Pcs, action : Actions \cup {"none"}]]
      /\ ctl'[c].pc \in {"idle", "wait", "list"}
      /\ \A d \in Ctls \ {c} : ctl'[d] = ctl[d]
  <2>1. /\ {"wait", "list"} \subseteq Pcs
        /\ \/ \E p \in {"control", "list"} : ExitAt(c, p)
           \/ \E q \in {"wait", "list"} : Goto(c, "control", q)
    BY DEF Status, CtlStatus, IsInstalled, CtlList, ControlFails, CtlInstall,
           CtlUninstall, CtlStart, CtlStop, CtlStopNone, Pcs
  <2> QED BY <2>1, GotoCtl, ExitCtl DEF Goto, ExitAt
<1>2. /\ UNCHANGED <<file, blame, edited, system>>
      /\ installed' \in BOOLEAN
      /\ installed' => installed \/ (ctl[c].pc = "control" /\ ctl[c].action = "install")
  <2> USE DEF config, manager, ControlTypeOK
  <2>1. CASE CtlInstall(c)
    BY <2>1 DEF CtlInstall, ExitAt
  <2>2. CASE CtlUninstall(c)
    BY <2>2 DEF CtlUninstall
  <2>3. CASE ~CtlInstall(c) /\ ~CtlUninstall(c)
    <3>1. UNCHANGED <<file, blame, edited, system, installed>>
      BY <2>3 DEF Status, CtlStatus, IsInstalled, CtlList, ControlFails, CtlStart, CtlStop,
                  CtlStopNone
    <3> QED BY <3>1
  <2> QED BY <2>1, <2>2, <2>3
<1>3. /\ JobFits'
      /\ stage' = "migrate" => stage = "migrate"
      /\ job' \in {"inactive", "running", "stopping", "restarting", "waiting", "failed"}
      /\ stage' \in {"off", "conf", "migrate", "parse", "up"}
  <2> USE DEF JobFits, ControlTypeOK, manager
  <2>1. CASE CtlStart(c)
    BY <2>1 DEF CtlStart
  <2>2. CASE CtlStop(c)
    BY <2>2 DEF CtlStop
  <2>3. CASE CtlStopNone(c)
    BY <2>3 DEF CtlStopNone
  <2>4. CASE Status(c) \/ ControlFails(c) \/ CtlInstall(c) \/ CtlUninstall(c)
    BY <2>4 DEF Status, CtlStatus, IsInstalled, CtlList, ControlFails, CtlInstall,
                CtlUninstall
  <2> QED BY <2>1, <2>2, <2>3, <2>4
<1>4. ControlTypeOK'
  BY <1>1, <1>2, <1>3 DEF ControlTypeOK, Pcs
<1>5. OneCreator' /\ CompleteUnlessBlamed' /\ InstallHasFile'
  BY <1>1, <1>2 DEF OneCreator, CompleteUnlessBlamed, InstallHasFile, Creating
<1>6. ReadIsOld'
  BY <1>2, <1>3 DEF ReadIsOld
<1> QED BY <1>3, <1>4, <1>5, <1>6

\* The steps of the process and of the manager: only a migration changes the file.
LEMMA ProcessStep ==
  ASSUME CtlInv, TypeOK', Process \/ Signal \/ ProcessKilled \/ AutoRestart
  PROVE  CtlInv'
<1> USE DEF CtlInv
<1>1. /\ UNCHANGED <<system, installed>> /\ edited' \in BOOLEAN
      /\ UNCHANGED <<file, blame>> \/ (file' = "user" /\ blame' = "none")
      /\ ReadIsOld'
  BY DEF Process, HandleConfig, NoMigration, Upgrade, WriteMigrated, Signal, ReadConfig, ConfigFails,
         ProcessEnds, Proceeds, SignalKills, SignalStops, ProcessKilled, AutoRestart, Ended, config,
         manager, ControlTypeOK, ReadIsOld
<1>2. /\ ctl' \in [Ctls -> [pc : Pcs, action : Actions \cup {"none"}]]
      /\ \A c \in Ctls : ctl'[c] = ctl[c] \/ ctl'[c].pc = "idle"
      /\ \A c \in Ctls : Creating(c) <=> Creating(c)'
  <2>1. UNCHANGED ctl \/ ctl' = [c \in Ctls |-> IF ctl[c].pc = "wait" THEN Idle ELSE ctl[c]]
    BY DEF Process, HandleConfig, NoMigration, Upgrade, WriteMigrated, Signal, ReadConfig,
           ConfigFails, ProcessEnds, Proceeds, SignalKills,
           SignalStops, ProcessKilled, AutoRestart, Ended
  <2> QED BY <2>1 DEF ControlTypeOK, Pcs, Idle, Creating
<1>3. /\ JobFits'
      /\ job' \in {"inactive", "running", "stopping", "restarting", "waiting", "failed"}
      /\ stage' \in {"off", "conf", "migrate", "parse", "up"}
  BY DEF Process, HandleConfig, NoMigration, Upgrade, WriteMigrated, Signal, ReadConfig,
         ConfigFails, ProcessEnds, Proceeds, SignalKills,
         SignalStops, ProcessKilled, AutoRestart, Ended, manager, JobFits, ControlTypeOK
<1>4. ControlTypeOK'
  BY <1>1, <1>2, <1>3 DEF ControlTypeOK, Pcs, Files
<1>5. OneCreator' /\ CompleteUnlessBlamed' /\ InstallHasFile'
  BY <1>1, <1>2 DEF OneCreator, CompleteUnlessBlamed, InstallHasFile
<1> QED BY <1>1, <1>3, <1>4, <1>5

\* A command is run or killed, or the user changes the file.
LEMMA UserStep ==
  ASSUME CtlInv, TypeOK',
         \/ \E c \in Ctls : CtlKilled(c) \/ \E a \in Actions : CtlRun(c, a)
         \/ UserWrites \/ UserRemoves
  PROVE  CtlInv'
<1> USE DEF CtlInv
<1>1. ASSUME NEW c \in Ctls, CtlKilled(c) PROVE CtlInv'
  <2> USE <1>1 DEF CtlKilled, Left, Whole, Latest, manager
  <2>1. ControlTypeOK'
    BY ExitCtl DEF ControlTypeOK, Pcs
  <2>2. OneCreator' /\ CompleteUnlessBlamed' /\ InstallHasFile' /\ JobFits' /\ ReadIsOld'
    BY ExitCtl DEF OneCreator, CompleteUnlessBlamed, InstallHasFile, JobFits, ReadIsOld, Creating,
                   ControlTypeOK
  <2> QED BY <2>1, <2>2
<1>2. ASSUME NEW c \in Ctls, NEW a \in Actions, CtlRun(c, a) PROVE CtlInv'
  <2> USE <1>2 DEF CtlRun, config, manager
  <2>1. /\ ctl' \in [Ctls -> [pc : Pcs, action : Actions \cup {"none"}]]
        /\ ctl'[c].pc \in {"create", "control"}
        /\ ctl'[c].pc = "control" => ctl'[c].action # "install"
        /\ \A d \in Ctls \ {c} : ctl'[d] = ctl[d]
    BY DEF ControlTypeOK, Pcs
  <2>2. ControlTypeOK'
    BY <2>1 DEF ControlTypeOK, Pcs
  <2>3. OneCreator' /\ CompleteUnlessBlamed' /\ InstallHasFile' /\ JobFits' /\ ReadIsOld'
    BY <2>1 DEF OneCreator, CompleteUnlessBlamed, InstallHasFile, JobFits, ReadIsOld, Creating
  <2> QED BY <2>2, <2>3
<1>3. CASE UserWrites \/ UserRemoves
  BY <1>3 DEF UserWrites, UserRemoves, manager, ControlTypeOK, Files, OneCreator,
              CompleteUnlessBlamed, InstallHasFile, JobFits, ReadIsOld, Creating
<1> QED BY <1>1, <1>2, <1>3

\* ControlInv holds at first, when nothing is installed.
LEMMA ControlInvInit == ControlInit => ControlInv
<1> SUFFICES ASSUME ControlInit PROVE ControlInv
  OBVIOUS
<1>1. LifeInv
  BY LifeInit DEF ControlInit
<1>2. ControlTypeOK
  BY <1>1 DEF ControlInit, ControlTypeOK, LifeInv, Idle, Files
<1>3. OneCreator /\ CompleteUnlessBlamed /\ InstallHasFile /\ JobFits /\ ReadIsOld
  BY DEF ControlInit, OneCreator, CompleteUnlessBlamed, InstallHasFile, JobFits, ReadIsOld,
         Idle, Creating
<1> QED BY <1>1, <1>2, <1>3 DEF ControlInv

\* Every step of a command, of the process, of the manager and of the user keeps it.
LEMMA ControlInvStep == ControlInv /\ [ControlNext]_allVars => ControlInv'
<1> SUFFICES ASSUME ControlInv, [ControlNext]_allVars PROVE ControlInv'
  OBVIOUS
<1>1. LifeInv'
  BY ControlLife DEF ControlInv
<1>2. TypeOK' /\ CtlInv
  BY <1>1 DEF ControlInv, CtlInv, LifeInv
<1>3. CtlInv'
  <2>1. ASSUME NEW c \in Ctls, Command(c) PROVE CtlInv'
    BY <1>2, <2>1, InstallStep, ControlCommandStep DEF Command
  <2>2. CASE \/ \E c \in Ctls : CtlKilled(c) \/ \E a \in Actions : CtlRun(c, a)
             \/ UserWrites \/ UserRemoves
    BY <1>2, <2>2, UserStep
  <2>3. CASE Process \/ Signal \/ ProcessKilled \/ AutoRestart
    BY <1>2, <2>3, ProcessStep
  <2>4. CASE UNCHANGED allVars
    BY <1>2, <2>4 DEF allVars, config, manager, CtlInv, ControlTypeOK, OneCreator,
       CompleteUnlessBlamed, InstallHasFile, JobFits, ReadIsOld, Creating
  <2> QED BY <2>1, <2>2, <2>3, <2>4 DEF ControlNext
<1> QED BY <1>1, <1>3 DEF ControlInv, CtlInv

\* The inductive invariant of the commands beside the process.
THEOREM ControlInvariant == ControlSpec => []ControlInv
<1>1. ControlInit => ControlInv
  BY ControlInvInit
<1>2. ControlInv /\ [ControlNext]_allVars => ControlInv'
  BY ControlInvStep
<1> QED BY <1>1, <1>2, PTL DEF ControlSpec

\* The commands and the service's process keep their types.
THEOREM ControlTyped == ControlSpec => []ControlTypeOK
<1>1. ControlInv => ControlTypeOK
  BY DEF ControlInv
<1> QED BY <1>1, ControlInvariant, PTL

\* While the DNS service is up or shuts down, the storage and the resolvers it
\* uses are up, whatever the commands and the manager do to the process.
THEOREM StorageOutlives == ControlSpec => []StorageOutlivesDNS
<1>1. ControlInv => StorageOutlivesDNS
  BY LifeOutlives DEF ControlInv
<1> QED BY <1>1, ControlInvariant, PTL

\* A process that has stopped has shut down every service it had started.
THEOREM StoppedDown == ControlSpec => []StoppedMeansDown
<1>1. ControlInv => StoppedMeansDown
  BY LifeStopped DEF ControlInv
<1> QED BY <1>1, ControlInvariant, PTL

\* Installations, however many run at once and wherever they are killed, leave a
\* file that is not whole only if one of them failed after it had created it.
THEOREM InstallConfigures == ControlSpec => []InstalledConfigured
<1>1. ControlInv => InstalledConfigured
  BY DEF ControlInv, InstalledConfigured, CompleteUnlessBlamed, InstallHasFile, ControlTypeOK,
         Files, Whole, Latest
<1> QED BY <1>1, ControlInvariant, PTL

\* What -s status prints fits the process and the manager's plans for it, except
\* that "stopped" says nothing of the process where it stands for any failure of
\* launchctl.
THEOREM StatusFits == ControlSpec => []StatusTruthful
<1>1. ASSUME ControlInv PROVE StatusTruthful
  <2> USE <1>1 DEF ControlInv, ControlTypeOK, JobFits
  <2>1. /\ SystemdStatus = "running" => job = "running"
        /\ SystemdStatus = "stopped" => job = "inactive"
        /\ SystemdStatus = "restart on fail" => job = "waiting"
    BY DEF SystemdStatus, StatusFromState, Show
  <2>2. ASSUME NEW failed \in BOOLEAN
        PROVE  /\ LaunchctlList(failed) = "running" => stage # "off"
               /\ LaunchctlList(failed) = "restart on fail" => stage = "off" /\ job = "waiting"
    BY DEF LaunchctlList
  <2>3. ASSUME NEW status \in Statuses
        PROVE  /\ status = "running" => stage # "off"
               /\ status = "stopped" /\ system = "systemd" => stage = "off"
               /\ status = "restart on fail" => stage = "off" /\ job = "waiting"
    <3>1. CASE status = "error"
      BY <3>1
    <3>2. CASE system = "systemd" /\ status = SystemdStatus
      BY <2>1, <3>2
    <3>3. CASE system # "systemd" /\ \E failed \in BOOLEAN : status = LaunchctlList(failed)
      BY <2>2, <3>3
    <3> QED BY <2>3, <3>1, <3>2, <3>3 DEF Statuses
  <2> QED BY <2>3 DEF StatusTruthful
<1> QED BY <1>1, ControlInvariant, PTL

\* Installations write nothing but the file they have created, and the migrator
\* replaces nothing but what it has read, if the user leaves that alone meanwhile.
THEOREM ConfigIsKept == ControlSpec => ConfigKept
<1>1. ControlInv /\ [ControlNext]_allVars =>
        [(file \in Whole /\ file' # file) =>
           \/ UserWrites \/ UserRemoves
           \/ WriteMigrated /\ (file = "old" \/ edited)]_allVars
  <2> SUFFICES ASSUME ControlInv, ControlNext, file \in Whole, file' # file
               PROVE  \/ UserWrites \/ UserRemoves
                      \/ WriteMigrated /\ (file = "old" \/ edited)
    OBVIOUS
  <2>1. WriteMigrated \/ ~(Process \/ Signal \/ ProcessKilled \/ AutoRestart)
    BY DEF Process, HandleConfig, NoMigration, Upgrade, Signal, ReadConfig, ConfigFails,
           ProcessEnds, Proceeds, SignalKills, SignalStops, ProcessKilled, AutoRestart, Ended,
           config
  <2>2. WriteMigrated => file = "old" \/ edited
    BY DEF WriteMigrated, ControlInv, ReadIsOld, ControlTypeOK
  <2>3. ASSUME NEW c \in Ctls PROVE ~Command(c) /\ ~CtlKilled(c) /\ \A a \in Actions : ~CtlRun(c, a)
    <3>1. ~Install(c)
      BY DEF Install, InstallFails, CreateFile, FileExists, NewDefaultConfigFails,
             NewDefaultConfig, EncodeFails, Encode, Written, config, Whole, Latest
    <3> QED BY <3>1 DEF Command, Status, CtlStatus, IsInstalled, CtlList, ControlFails, CtlInstall,
                        CtlUninstall, CtlStart, CtlStop, CtlStopNone, CtlKilled, CtlRun, config
  <2> QED BY <2>1, <2>2, <2>3 DEF ControlNext
<1> QED BY <1>1, ControlInvariant, PTL DEF ControlSpec, ConfigKept

----------------------------------------------------------------------------
(* Commands that wait: the safety half of StopReturns *)

\* A process that has not read its configuration has not begun to start; while
\* Stop waits the handler's goroutine has neither ended nor never been started;
\* and the manager has not forgotten the stop or restart that a command waits for.
StopInv ==
  /\ stage # "up" => pc = "debug"
  /\ pc = "stop" => handler \notin {"none", "ended"}
  /\ \A c \in Ctls : ctl[c].pc = "wait" => job \in {"stopping", "restarting"}

\* Whatever commands, crashes and failures come in between, a command that waits
\* for the process to end waits for one that is there and can take its next step
\* towards the end: the guards of the signal's delivery, of the handler's loop, of
\* the exchange on errCh, of Exit and of the manager's notice, in this order.
WaitersAnswered ==
  \A c \in Ctls : ctl[c].pc = "wait" =>
    /\ job \in {"stopping", "restarting"} /\ stage # "off"
    /\ \/ pc \in {"debug", "resolvers", "upstreams", "dns", "handle"}
       \/ /\ stage = "up"
          /\ \/ pc = "run"
             \/ /\ pc = "stop" /\ done
                /\ handler \in {"wait", "shutdown", "call", "send"}
             \/ pc = "check"
             \/ ~Alive

\* The steps of the process within Lifecycle.
LEMMA StopInvLife ==
  ASSUME ControlInv, StopInv, Next, stage = "up", UNCHANGED <<job, stage, ctl>>
  PROVE  StopInv'
<1> USE DEF StopInv, ControlInv, LifeInv
<1>1. pc' = "stop" => handler' \notin {"none", "ended"}
  <2>1. CASE Start
    BY <2>1 DEF Start, StartDebug, StartNoDebug, NewResolvers, StartStorage, StartDNS,
                StartFails, GoHandle, Add
  <2>2. CASE Server
    BY <2>2 DEF Server, ServerStarts, ServerPanics
  <2>3. CASE Stop
    BY <2>3 DEF Stop, HandlerInv
  <2>4. CASE RecvErr \/ Exit
    BY <2>4 DEF RecvErr, Exit
  <2>5. CASE Handle
    BY <2>5 DEF Handle, Wake, ShutdownBegin, ShutdownEnd, SendErr
  <2> QED BY <2>1, <2>2, <2>3, <2>4, <2>5 DEF Next
<1> QED BY <1>1

\* The process ends: the manager releases every command that waits for it.
LEMMA StopInvEnded ==
  ASSUME StopInv, ControlTypeOK, NEW clean, Ended(clean)
  PROVE  StopInv'
<1>1. pc' = "debug"
  BY DEF Ended, Reset
<1>2. \A c \in Ctls : ctl'[c].pc # "wait"
  BY DEF Ended, ControlTypeOK, Idle
<1> QED BY <1>1, <1>2 DEF StopInv

\* A command goes on: only stop and restart begin to wait, and those that run
\* meanwhile leave the stop or restart pending, if with another outcome.
LEMMA StopInvCommand ==
  ASSUME ControlInv, StopInv, NEW c \in Ctls, Command(c)
  PROVE  StopInv'
<1> ControlTypeOK /\ JobFits
  BY DEF ControlInv
<1>1. UNCHANGED <<pc, handler>>
  BY DEF Command, Install, Status, InstallFails, CreateFile, FileExists,
         NewDefaultConfigFails, NewDefaultConfig, EncodeFails, Encode, CtlStatus,
         IsInstalled, CtlList, ControlFails, CtlInstall, CtlUninstall, CtlStart, CtlStop,
         CtlStopNone, service
<1>2. CASE CtlStop(c)
  <2>1. job' \in {"stopping", "restarting"} /\ stage' = stage
    BY <1>2 DEF CtlStop
  <2> QED BY <1>1, <2>1 DEF StopInv
<1>3. CASE CtlStart(c)
  <2>1. ctl'[c].pc = "idle" /\ \A d \in Ctls \ {c} : ctl'[d] = ctl[d]
    BY <1>3, ExitCtl DEF CtlStart
  <2>2. /\ job \in {"stopping", "restarting"} => job' \in {"stopping", "restarting"}
        /\ stage' # "up" => stage # "up"
    BY <1>3 DEF CtlStart, JobFits
  <2> QED BY <1>1, <2>1, <2>2 DEF StopInv
<1>4. CASE CtlStopNone(c)
  <2>1. ctl'[c].pc = "idle" /\ \A d \in Ctls \ {c} : ctl'[d] = ctl[d]
    BY <1>4, ExitCtl DEF CtlStopNone
  <2>2. job \notin {"stopping", "restarting"} /\ stage # "up"
    BY <1>4 DEF CtlStopNone, JobFits
  <2> QED BY <1>1, <2>1, <2>2 DEF StopInv
<1>5. CASE Install(c) \/ Status(c) \/ ControlFails(c) \/ CtlInstall(c) \/ CtlUninstall(c)
  <2>1. UNCHANGED <<job, stage>>
    BY <1>5 DEF Install, Status, InstallFails, CreateFile, FileExists,
         NewDefaultConfigFails, NewDefaultConfig, EncodeFails, Encode, CtlStatus,
         IsInstalled, CtlList, ControlFails, CtlInstall, CtlUninstall, manager
  <2>2. \/ \E p \in Pcs : ExitAt(c, p)
        \/ \E p \in Pcs, q \in Pcs \ {"wait"} : Goto(c, p, q)
    BY <1>5 DEF Install, Status, InstallFails, CreateFile, FileExists,
         NewDefaultConfigFails, NewDefaultConfig, EncodeFails, Encode, CtlStatus,
         IsInstalled, CtlList, ControlFails, CtlInstall, CtlUninstall, Pcs
  <2>3. ctl'[c].pc # "wait" /\ \A d \in Ctls \ {c} : ctl'[d] = ctl[d]
    BY <2>2, ExitCtl, GotoCtl
  <2> QED BY <1>1, <2>1, <2>3 DEF StopInv
<1> QED BY <1>2, <1>3, <1>4, <1>5 DEF Command

\* Every step keeps StopInv beside ControlInv.
LEMMA StopInvStep == ControlInv /\ StopInv /\ [ControlNext]_allVars => StopInv'
<1> SUFFICES ASSUME ControlInv, StopInv, [ControlNext]_allVars PROVE StopInv'
  OBVIOUS
<1> ControlTypeOK /\ JobFits
  BY DEF ControlInv
<1>1. CASE Proceeds \/ SignalStops
  BY <1>1, StopInvLife DEF Proceeds, SignalStops, manager, Next
<1>2. CASE ConfigFails \/ ProcessEnds \/ ProcessKilled \/ SignalKills
  BY <1>2, StopInvEnded DEF ConfigFails, ProcessEnds, ProcessKilled, SignalKills
<1>3. CASE HandleConfig \/ AutoRestart
  BY <1>3 DEF HandleConfig, NoMigration, Upgrade, WriteMigrated, ReadConfig, AutoRestart, StopInv,
              JobFits, service
<1>4. ASSUME NEW c \in Ctls, CtlKilled(c) PROVE StopInv'
  <2>1. ctl'[c].pc = "idle" /\ \A d \in Ctls \ {c} : ctl'[d] = ctl[d]
    BY <1>4, ExitCtl DEF CtlKilled
  <2>2. UNCHANGED <<pc, handler, job, stage>>
    BY <1>4 DEF CtlKilled, service, manager
  <2> QED BY <2>1, <2>2 DEF StopInv
<1>5. ASSUME NEW c \in Ctls, NEW a \in Actions, CtlRun(c, a) PROVE StopInv'
  <2>1. ctl'[c].pc # "wait" /\ \A d \in Ctls \ {c} : ctl'[d] = ctl[d]
    BY <1>5 DEF CtlRun, ControlTypeOK
  <2>2. UNCHANGED <<pc, handler, job, stage>>
    BY <1>5 DEF CtlRun, service, manager
  <2> QED BY <2>1, <2>2 DEF StopInv
<1>6. CASE UserWrites \/ UserRemoves
  BY <1>6 DEF UserWrites, UserRemoves, service, manager, StopInv
<1>7. CASE UNCHANGED allVars
  BY <1>7 DEF allVars, service, manager, StopInv
<1> QED BY <1>1, <1>2, <1>3, <1>4, <1>5, <1>6, <1>7, StopInvCommand
        DEF ControlNext, Process, Signal

\* No command of stop or restart is ever left waiting for a process that is not
\* there, that has forgotten its signal or that cannot proceed to its end.
THEOREM StopIsAnswered == ControlSpec => []WaitersAnswered
<1>1. ControlInit => StopInv
  BY DEF ControlInit, Init, StopInv, Idle
<1>2. ControlInv /\ StopInv => WaitersAnswered
  <2> SUFFICES ASSUME ControlInv, StopInv, NEW c \in Ctls, ctl[c].pc = "wait"
               PROVE  /\ job \in {"stopping", "restarting"} /\ stage # "off"
                      /\ \/ pc \in {"debug", "resolvers", "upstreams", "dns", "handle"}
                         \/ /\ stage = "up"
                            /\ \/ pc = "run"
                               \/ /\ pc = "stop" /\ done
                                  /\ handler \in {"wait", "shutdown", "call", "send"}
                               \/ pc = "check"
                               \/ ~Alive
    BY DEF WaitersAnswered
  <2>1. job \in {"stopping", "restarting"} /\ stage \in {"conf", "migrate", "parse", "up"}
    BY DEF ControlInv, StopInv, JobFits, ControlTypeOK
  <2>2. stage # "up" => pc = "debug"
    BY DEF StopInv
  <2>3. pc = "stop" => done /\ handler \in {"wait", "shutdown", "call", "send"}
    BY DEF StopInv, ControlInv, LifeInv, HandlerInv, TypeOK
  <2>4. \/ pc \in {"debug", "resolvers", "upstreams", "dns", "handle"}
        \/ pc \in {"run", "stop", "check"} \/ ~Alive
    BY DEF ControlInv, LifeInv, TypeOK, Alive
  <2> QED BY <2>1, <2>2, <2>3, <2>4
<1> QED BY <1>1, <1>2, StopInvStep, ControlInvariant, PTL DEF ControlSpec
=============================================================================
