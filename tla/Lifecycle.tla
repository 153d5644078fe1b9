------------------------------ MODULE Lifecycle ------------------------------
(***************************************************************************)
(* The life of the program: Start builds and starts the services one by    *)
(* one and registers each with the service handler, Stop has the handler's *)
(* goroutine shut them down and waits for its answer (internal/cmd:        *)
(* program.go, servicehandler.go, dns.go, bootstrap.go; debugsvc.go and    *)
(* dnssvc.go for the services' own Start and Shutdown).                    *)
(*                                                                         *)
(* Three goroutines: the main one, the handler's and the one in which the  *)
(* debug server starts, which stops the process when it fails.  A          *)
(* Shutdown may fail, by its own error or because the time all of them     *)
(* have together is over; it returns in either case.  The logs that the    *)
(* end of the process closes are those of LoggerSetup.                     *)
(***************************************************************************)
EXTENDS Naturals, Sequences

Services == {"debugsvc", "bootstrap", "storage", "dnssvc"}

VARIABLES
  pc,        \* the main goroutine
  state,     \* each service
  services,  \* serviceHandler.services
  server,    \* the goroutine of the debug server
  done,      \* whether prog.done is closed
  handler,   \* the goroutine of serviceHandler.handle
  left,      \* how many services its loop has left
  errs       \* whether a Shutdown has failed

vars == <<pc, state, services, server, done, handler, left, errs>>

Init ==
  /\ pc = "debug"
  /\ state = [s \in Services |-> "none"]
  /\ services = <<>>
  /\ server = "none"
  /\ done = FALSE
  /\ handler = "none"
  /\ left = 0
  /\ errs = FALSE

\* The process has not ended.
Alive == pc \notin {"failed", "exited", "panicked"}

----------------------------------------------------------------------------
(* program.Start *)

\* A service is up and svcHdlr.add has it.
Add(s, next) ==
  /\ state' = [state EXCEPT ![s] = "up"]
  /\ services' = Append(services, s)
  /\ pc' = next

\* conf.Debug.Pprof.Enabled: the debug service's Start returns before its server
\* listens.
StartDebug ==
  /\ pc = "debug"
  /\ Add("debugsvc", "resolvers")
  /\ server' = "starting"
  /\ UNCHANGED <<done, handler, left, errs>>

\* It is not enabled.
StartNoDebug ==
  /\ pc = "debug"
  /\ pc' = "resolvers"
  /\ UNCHANGED <<state, services, server, done, handler, left, errs>>

\* newResolvers has made the bootstraps, which are closed like a service.
NewResolvers ==
  /\ pc = "resolvers"
  /\ Add("bootstrap", "upstreams")
  /\ UNCHANGED <<server, done, handler, left, errs>>

\* newUpstreams succeeds; the storage is made from them and started.
StartStorage ==
  /\ pc = "upstreams"
  /\ Add("storage", "dns")
  /\ UNCHANGED <<server, done, handler, left, errs>>

\* Mutant of StartDNS: the service is registered before its storage.
StartDNSRegistersFirst ==
  /\ pc = "dns"
  /\ state' = [state EXCEPT !["dnssvc"] = "up"]
  /\ services' = <<"dnssvc">> \o services
  /\ pc' = "handle"
  /\ UNCHANGED <<server, done, handler, left, errs>>

\* dnssvc.New and the proxy's Start succeed: requests are served from now on.
StartDNS ==
  /\ pc = "dns"
  /\ Add("dnssvc", "handle")
  /\ UNCHANGED <<server, done, handler, left, errs>>

\* One of these steps fails, and Run and check with it: the process exits with
\* what is running.
StartFails ==
  /\ pc \in {"resolvers", "upstreams", "dns"}
  /\ pc' = "failed"
  /\ UNCHANGED <<state, services, server, done, handler, left, errs>>

\* The goroutine of handle is started, and Run waits for a signal.
GoHandle ==
  /\ pc = "handle"
  /\ pc' = "run"
  /\ handler' = "wait"
  /\ UNCHANGED <<state, services, server, done, left, errs>>

----------------------------------------------------------------------------
(* The debug server's goroutine *)

\* The server listens.
ServerStarts ==
  /\ Alive
  /\ server = "starting"
  /\ server' = "listening"
  /\ UNCHANGED <<pc, state, services, done, handler, left, errs>>

\* It fails to, which is an unhandled panic.
ServerPanics ==
  /\ Alive
  /\ server = "starting"
  /\ state["debugsvc"] = "up"
  /\ pc' = "panicked"
  /\ server' = "none"
  /\ UNCHANGED <<state, services, done, handler, left, errs>>

----------------------------------------------------------------------------
(* program.Stop and the end of Main *)

\* A signal or the service manager makes Run call Stop, which closes done.
Stop ==
  /\ pc = "run"
  /\ done' = TRUE
  /\ pc' = "stop"
  /\ UNCHANGED <<state, services, server, handler, left, errs>>

\* errCh has no buffer: the handler sends its error as Stop receives it.
RecvErr ==
  /\ pc = "stop"
  /\ handler = "send"
  /\ handler' = "ended"
  /\ pc' = "check"
  /\ UNCHANGED <<state, services, server, done, left, errs>>

\* check exits with a failure if there was an error; Main returns otherwise.
Exit ==
  /\ pc = "check"
  /\ pc' = IF errs THEN "failed" ELSE "exited"
  /\ UNCHANGED <<state, services, server, done, handler, left, errs>>

----------------------------------------------------------------------------
(* serviceHandler.handle *)

\* Mutant of Wake: the loop begins behind the end of the list.
WakeTooFar ==
  /\ Alive
  /\ handler = "wait"
  /\ done
  /\ handler' = "shutdown"
  /\ left' = Len(services) + 1
  /\ UNCHANGED <<pc, state, services, server, done, errs>>

\* done is closed: the loop begins with the service that was added last.
Wake ==
  /\ Alive
  /\ handler = "wait"
  /\ done
  /\ handler' = "shutdown"
  /\ left' = Len(services)
  /\ UNCHANGED <<pc, state, services, server, done, errs>>

\* The service's Shutdown is called.
ShutdownBegin ==
  /\ Alive
  /\ handler = "shutdown"
  /\ left > 0
  /\ state' = [state EXCEPT ![services[left]] = "closing"]
  /\ handler' = "call"
  /\ UNCHANGED <<pc, services, server, done, left, errs>>

\* Mutant of ShutdownEnd: the first error ends the loop.
ShutdownEndFirstError(failed) ==
  /\ Alive
  /\ handler = "call"
  /\ state' = [state EXCEPT ![services[left]] = "down"]
  /\ errs' = (errs \/ failed)
  /\ left' = IF failed THEN 0 ELSE left - 1
  /\ handler' = "shutdown"
  /\ UNCHANGED <<pc, services, server, done>>

\* Mutant of ShutdownEnd: the handler's goroutine ends when a service fails.
ShutdownEndGivesUp(failed) ==
  /\ Alive
  /\ handler = "call"
  /\ state' = [state EXCEPT ![services[left]] = "down"]
  /\ errs' = (errs \/ failed)
  /\ left' = left - 1
  /\ handler' = IF failed THEN "ended" ELSE "shutdown"
  /\ UNCHANGED <<pc, services, server, done>>

\* It returns.  An error is kept and the loop goes on.
ShutdownEnd(failed) ==
  /\ Alive
  /\ handler = "call"
  /\ state' = [state EXCEPT ![services[left]] = "down"]
  /\ errs' = (errs \/ failed)
  /\ left' = left - 1
  /\ handler' = "shutdown"
  /\ UNCHANGED <<pc, services, server, done>>

\* All are shut down: the goroutine offers the errors on errCh.
SendErr ==
  /\ Alive
  /\ handler = "shutdown"
  /\ left = 0
  /\ handler' = "send"
  /\ UNCHANGED <<pc, state, services, server, done, left, errs>>

----------------------------------------------------------------------------

Start ==
  \/ StartDebug \/ StartNoDebug \/ NewResolvers \/ StartStorage \/ StartDNS
  \/ StartFails \/ GoHandle

Handle ==
  \/ Wake \/ ShutdownBegin
  \/ \E failed \in BOOLEAN : ShutdownEnd(failed)
  \/ SendErr

Server == ServerStarts \/ ServerPanics

Next == Start \/ Server \/ Stop \/ RecvErr \/ Exit \/ Handle

Spec == Init /\ [][Next]_vars

----------------------------------------------------------------------------
(* Properties *)

\* Type invariant of the program's life.
TypeOK ==
  /\ pc \in {"debug", "resolvers", "upstreams", "dns", "handle", "run", "stop",
             "check", "failed", "exited", "panicked"}
  /\ state \in [Services -> {"none", "up", "closing", "down"}]
  /\ services \in Seq(Services)
  /\ server \in {"none", "starting", "listening"}
  /\ done \in BOOLEAN
  /\ handler \in {"none", "wait", "shutdown", "call", "send", "ended"}
  /\ left \in 0..Len(services)
  /\ errs \in BOOLEAN

\* Whenever requests may be served, until dnssvc's Shutdown returns, the client
\* storage they use is not shut down (dnssvc/config.go:29-31), and neither are
\* the bootstraps that the upstreams of both resolve names with.
StorageOutlivesDNS ==
  /\ state["dnssvc"] \in {"up", "closing"} => state["storage"] = "up"
  /\ state["storage"] \in {"up", "closing"} => state["bootstrap"] = "up"

\* Once Stop has returned nothing runs: whichever services failed to shut down,
\* each has been told to, and the handler logs no more when Main closes the logs.
StoppedMeansDown ==
  done /\ pc \in {"check", "failed", "exited"} =>
    /\ \A s \in Services : state[s] \in {"none", "down"}
    /\ handler = "ended"
==============================================================================
