--------------------------- MODULE ClientStorage ---------------------------
(***************************************************************************)
(* The client storage of internal/client/defaultstorage.go: concurrent Get *)
(* calls of the DNS service find or create autodevice clients, while the   *)
(* garbage collector removes the expired ones, Go's runtime finalizes      *)
(* those that nothing refers to, and Shutdown closes what is stored.       *)
(*                                                                         *)
(* Two Queues deduplicate the work of Get: searchQueue (SQ, by address and *)
(* matched domain) and identifyQueue (IQ, by address).  A step of a Get is *)
(* one access to state that other goroutines share: an operation of a      *)
(* queue, one critical section of sac.mu or d.mu, a reading of the clock,  *)
(* a call of the HumanIDSource.  The assignment of a queue's result, which *)
(* nobody reads before the channel is closed, goes with the step before.   *)
(*                                                                         *)
(* Time is a natural number.  A prefix is the set of addresses it contains *)
(* and Sacs is d.autodevice as NewDefaultStorage has sorted it.  A client  *)
(* is a slot of a heap, so that two clients of one address differ, with    *)
(* what its upstreams were made from.                                      *)
(***************************************************************************)
EXTENDS Naturals, Sequences, FiniteSets

CONSTANTS
  Reqs,          \* the goroutines that serve DNS requests
  Addrs,         \* client addresses, unmapped (dnssvc.go:189)
  Questions,     \* question domains
  Domains,       \* the domains clients are configured for
  Sacs,          \* d.autodevice: a sequence of [prefix, domain]
  Covers,        \* matchesDomain: the pairs <<question, domain>> it accepts
  Static,        \* the pairs <<address, question>> of static clients
  Identifiable,  \* the addresses d.identifiable contains
  HumanIDs,
  Clients,       \* the heap slots for autodevice clients
  MaxTime,       \* bound: the clock stops here
  MaxTTL,        \* bound: the longest validity of a HumanID
  MaxDelay,      \* bound: how long an answer of the source may be past its time
  MaxShutdowns,  \* bound: 0 if the storage stays up, 1 if it may be shut down
  Err, Zero, NotYet, NoKey, NoEntry, None

\* Without autodevices (Sacs = <<>>) the storage never changes: Get only reads,
\* and Start runs no collector (defaultstorage.go:204).
ASSUME StorageAssumption ==
  /\ Sacs \in Seq([prefix : SUBSET Addrs, domain : Domains]) \ {<<>>}
  /\ Covers \subseteq Questions \X Domains
  /\ Static \subseteq Addrs \X Questions
  /\ Identifiable \subseteq Addrs
  /\ {MaxTime, MaxTTL, MaxDelay} \subseteq Nat
  /\ MaxShutdowns \in {0, 1}
  /\ Clients \subseteq Nat

SacIdx == 1..Len(Sacs)
Time   == 0..MaxTime
Hids   == [id : HumanIDs, until : Time]

\* What is kept of an autodevice client, and of the owner of an ID.
Autodevices == [addr : Addrs, sac : SacIdx, id : HumanIDs, until : Time,
                fin : BOOLEAN, closed : BOOLEAN]
Owners      == [addr : Addrs, until : Time]

\* The markers stand for nil, for zero values and for results that are none.
ASSUME MarkersAssumption ==
  /\ {None, Zero, NotYet, Err} \cap (Clients \cup Addrs \cup Time \cup Hids) = {}
  /\ None \notin SacIdx \cup Autodevices \cup Owners
  /\ Zero \notin {NotYet, Err} /\ Err # NotYet
  /\ NoKey \notin Addrs \cup [addr : Addrs, domain : Domains]
  /\ NoEntry \notin [out : Clients \cup Hids \cup {Err, Zero}, done : {"open", "closed"}]

VARIABLES
  clock,                     \* d.clock
  pc, addr, sac,             \* each Get: its step, its address, the sac it matched
  now, hid, cli,             \* its locals of the same names (cli: c)
  clients,                   \* sac.clients, for every sac
  heap,                      \* the autodevice clients that exist
  identified,                \* d.identified
  gc,                        \* runGC: its step, its now and the next sac to clean
  shut,                      \* Shutdown: its step and the next sac to close
  sEntry, sSt, sKey, sGot,   \* searchQueue
  iEntry, iSt, iKey, iGot    \* identifyQueue

locals  == <<pc, addr, sac, now, hid, cli>>
sq      == <<sEntry, sSt, sKey, sGot>>
iq      == <<iEntry, iSt, iKey, iGot>>
bg      == <<clock, gc, shut>>
vars    == <<locals, sq, iq, bg, clients, heap, identified>>

SQ == INSTANCE Queue WITH
        Procs <- Reqs, Keys <- [addr : Addrs, domain : Domains],
        Results <- Clients \cup {Err},
        entry <- sEntry, st <- sSt, key <- sKey, got <- sGot

IQ == INSTANCE Queue WITH
        Procs <- Reqs, Keys <- Addrs, Results <- Hids \cup {Err},
        entry <- iEntry, st <- iSt, key <- iKey, got <- iGot

Init ==
  /\ clock = 0
  /\ pc = [r \in Reqs |-> "idle"]
  /\ addr = [r \in Reqs |-> None]
  /\ sac = [r \in Reqs |-> None]
  /\ now = [r \in Reqs |-> None]
  /\ hid = [r \in Reqs |-> None]
  /\ cli = [r \in Reqs |-> None]
  /\ clients = [s \in SacIdx |-> [a \in Addrs |-> None]]
  /\ heap = [c \in Clients |-> None]
  /\ identified = [h \in HumanIDs |-> None]
  /\ gc = [pc |-> "select", now |-> None, sac |-> None]
  /\ shut = [pc |-> "up", sac |-> None]
  /\ SQ!Init
  /\ IQ!Init

----------------------------------------------------------------------------
(* Matching *)

\* storedAutodeviceClient.matches; the empty prefix contains every address.
Matches(s, a, q) == a \in Sacs[s].prefix /\ <<q, Sacs[s].domain>> \in Covers

\* The sacs that findAutodevice would accept for a and q.
Candidates(a, q) ==
  IF a \in Identifiable THEN {s \in SacIdx : Matches(s, a, q)} ELSE {}

\* Its loop takes the first one.
FirstMatch(s, a, q) ==
  s \in Candidates(a, q) /\ \A t \in Candidates(a, q) : s <= t

\* findStaticClient finds nothing and findAutodevice finds a configuration.
Dynamic(a, q) == <<a, q>> \notin Static /\ Candidates(a, q) # {}

\* Mutant of SearchRequest: searches are told apart by their domains only.
SearchRequestByDomain(a, s) ==
  [addr |-> CHOOSE x \in Addrs : TRUE, domain |-> Sacs[s].domain]

\* The key of the search, which leaves out the prefix.
SearchRequest(a, s) == [addr |-> a, domain |-> Sacs[s].domain]

----------------------------------------------------------------------------
(* Get, up to searchQueue.push *)

\* A static client, or none at all: c is returned at once and the request is
\* resolved through it, or through the upstreams of the default group.
GetStatic(r, a, q) ==
  /\ pc[r] = "idle"
  /\ ~Dynamic(a, q)
  /\ pc' = [pc EXCEPT ![r] = "resolve"]
  /\ addr' = [addr EXCEPT ![r] = a]
  /\ UNCHANGED <<sac, now, hid, cli, sq, iq, bg, clients, heap, identified>>

\* The entry of Get for an autodevice, with the push of searchQueue.
GetAutodevice(r, a, q, s) ==
  /\ pc[r] = "idle"
  /\ Dynamic(a, q)
  /\ FirstMatch(s, a, q)
  /\ addr' = [addr EXCEPT ![r] = a]
  /\ sac' = [sac EXCEPT ![r] = s]
  /\ UNCHANGED <<now, hid, cli, iq, bg, clients, heap, identified>>

\* push makes this Get the owner of the search.
GetOwn(r, a, q) ==
  \E s \in SacIdx :
    /\ GetAutodevice(r, a, q, s)
    /\ SQ!PushStore(r, SearchRequest(a, s))
    /\ pc' = [pc EXCEPT ![r] = "clock"]

\* push finds the search in progress.
GetWait(r, a, q) ==
  \E s \in SacIdx :
    /\ GetAutodevice(r, a, q, s)
    /\ SQ!PushLoad(r, SearchRequest(a, s))
    /\ pc' = [pc EXCEPT ![r] = "search"]

\* push returns the result of the search it waited for.
SearchRecv(r) ==
  /\ pc[r] = "search"
  /\ SQ!Recv(r)
  /\ pc' = [pc EXCEPT ![r] = IF sGot[r] = Zero THEN "clock" ELSE "resolve"]
  /\ cli' = [cli EXCEPT ![r] = IF sGot[r] \in Clients THEN sGot[r] ELSE None]
  /\ UNCHANGED <<addr, sac, now, hid, iq, bg, clients, heap, identified>>

\* push returns ctx.Err().
SearchCancel(r) ==
  /\ pc[r] = "search"
  /\ SQ!Cancel(r)
  /\ pc' = [pc EXCEPT ![r] = "resolve"]
  /\ UNCHANGED <<addr, sac, now, hid, cli, iq, bg, clients, heap, identified>>

----------------------------------------------------------------------------
(* newAutodeviceOrStored, for the owner of a search *)

ReadClock(r) ==
  /\ pc[r] = "clock"
  /\ now' = [now EXCEPT ![r] = clock]
  /\ pc' = [pc EXCEPT ![r] = "find"]
  /\ UNCHANGED <<addr, sac, hid, cli, sq, iq, bg, clients, heap, identified>>

\* newAutodeviceOrStored returns c, or nil with an error, and its deferred
\* searchQueue.done sets the result.
SearchEnds(r, c) ==
  /\ SQ!DoneSet(r, IF c = None THEN Err ELSE c)
  /\ cli' = [cli EXCEPT ![r] = c]
  /\ pc' = [pc EXCEPT ![r] = "sdone"]

\* Mutant of SetFinalizer: the upstreams are closed as soon as they expire.
SetFinalizerCloses(h, cs) ==
  [c \in Clients |-> IF c \in cs THEN [h[c] EXCEPT !.fin = TRUE, !.closed = TRUE]
                                 ELSE h[c]]

\* setFinalizer, on every client in cs.
SetFinalizer(h, cs) ==
  [c \in Clients |-> IF c \in cs THEN [h[c] EXCEPT !.fin = TRUE] ELSE h[c]]

\* Mutant of ValidAt: the expiry is not looked at.
ValidAtAny(c, t) == c # None

\* c is a client and auto.validUntil.After(t).
ValidAt(c, t) == c # None /\ heap[c].until > t

\* findValidAutodeviceClient finds a client that has not expired at now.
FindStored(r) ==
  LET c == clients[sac[r]][addr[r]] IN
  /\ pc[r] = "find"
  /\ ValidAt(c, now[r])
  /\ SearchEnds(r, c)
  /\ now' = [now EXCEPT ![r] = None]
  /\ UNCHANGED <<addr, sac, hid, iq, bg, clients, heap, identified>>

\* Mutant of FindExpired: the expired client is dropped without a finalizer.
FindExpiredDrops(r) ==
  LET c == clients[sac[r]][addr[r]] IN
  /\ pc[r] = "find"
  /\ ~ValidAt(c, now[r])
  /\ clients' = [clients EXCEPT ![sac[r]][addr[r]] = None]
  /\ pc' = [pc EXCEPT ![r] = "identify"]
  /\ UNCHANGED <<addr, sac, now, hid, cli, sq, iq, bg, heap, identified>>

\* It finds none, or one that has expired and is removed.
FindExpired(r) ==
  LET c == clients[sac[r]][addr[r]] IN
  /\ pc[r] = "find"
  /\ ~ValidAt(c, now[r])
  /\ clients' = [clients EXCEPT ![sac[r]][addr[r]] = None]
  /\ heap' = SetFinalizer(heap, {c} \ {None})
  /\ pc' = [pc EXCEPT ![r] = "identify"]
  /\ UNCHANGED <<addr, sac, now, hid, cli, sq, iq, bg, identified>>

----------------------------------------------------------------------------
(* identify *)

\* push makes this Get the one that asks the source.
IdentifyOwn(r) ==
  /\ pc[r] = "identify"
  /\ IQ!PushStore(r, addr[r])
  /\ pc' = [pc EXCEPT ![r] = "source"]
  /\ UNCHANGED <<addr, sac, now, hid, cli, sq, bg, clients, heap, identified>>

\* Mutant of IdentifyWait: the queue's answer is ignored.
IdentifyWaitIgnores(r) ==
  /\ pc[r] = "identify"
  /\ iEntry[addr[r]] # NoEntry
  /\ pc' = [pc EXCEPT ![r] = "source"]
  /\ UNCHANGED <<addr, sac, now, hid, cli, sq, iq, bg, clients, heap, identified>>

\* push finds the address being identified, for a client of another domain.
IdentifyWait(r) ==
  /\ pc[r] = "identify"
  /\ IQ!PushLoad(r, addr[r])
  /\ pc' = [pc EXCEPT ![r] = "iwait"]
  /\ UNCHANGED <<addr, sac, now, hid, cli, sq, bg, clients, heap, identified>>

\* identify has returned h: an error ends the search.
Identified(r, h) ==
  /\ hid' = [hid EXCEPT ![r] = h]
  /\ now' = [now EXCEPT ![r] = None]
  /\ IF h = None
     THEN SearchEnds(r, None)
     ELSE pc' = [pc EXCEPT ![r] = "create"] /\ UNCHANGED <<cli, sq>>

\* push returns the result of the identification it waited for.
IdentifyRecv(r) ==
  /\ pc[r] = "iwait"
  /\ IQ!Recv(r)
  /\ IF iGot[r] = Zero
     THEN pc' = [pc EXCEPT ![r] = "source"] /\ UNCHANGED <<now, hid, cli, sq>>
     ELSE Identified(r, IF iGot[r] = Err THEN None ELSE iGot[r])
  /\ UNCHANGED <<addr, sac, bg, clients, heap, identified>>

\* push returns ctx.Err().
IdentifyCancel(r) ==
  /\ pc[r] = "iwait"
  /\ IQ!Cancel(r)
  /\ Identified(r, None)
  /\ UNCHANGED <<addr, sac, bg, clients, heap, identified>>

\* The contract of d.humanIDSource, which has answered what is recorded and has
\* not expired.
Source == INSTANCE IDContract WITH
            IDs <- HumanIDs, Times <- Time, MaxValidity <- MaxTTL,
            given <- [a \in Addrs |->
                        {h \in Hids : h.until > clock
                                      /\ identified[h.id] = [addr |-> a, until |-> h.until]}]

\* What it may answer for a; every answer expires within the horizon MaxTime.
Answers(a) == {h \in Hids : clock <= h.until + MaxDelay /\ Source!Allowed(a, h)}

\* identify's own search returns h, or nil with an error, and its deferred
\* identifyQueue.done sets the result.
IdentifyEnds(r, h) ==
  /\ IQ!DoneSet(r, IF h = None THEN Err ELSE h)
  /\ hid' = [hid EXCEPT ![r] = h]
  /\ pc' = [pc EXCEPT ![r] = "idone"]

\* humanIDSource.Identify returns an ID.
SourceAnswers(r) ==
  /\ pc[r] = "source"
  /\ \E h \in Answers(addr[r]) : hid' = [hid EXCEPT ![r] = h]
  /\ pc' = [pc EXCEPT ![r] = "check"]
  /\ UNCHANGED <<addr, sac, now, cli, sq, iq, bg, clients, heap, identified>>

\* Mutant of SourceFails: the error is returned without a call of done.
SourceFailsNoDone(r) ==
  /\ pc[r] = "source"
  /\ Identified(r, None)
  /\ UNCHANGED <<addr, sac, iq, bg, clients, heap, identified>>

\* humanIDSource.Identify returns an error.
SourceFails(r) ==
  /\ pc[r] = "source"
  /\ IdentifyEnds(r, None)
  /\ UNCHANGED <<addr, sac, now, cli, sq, bg, clients, heap, identified>>

\* Mutant of Conflicts: the check is left out.
ConflictsNever(r) == FALSE

\* The ID belongs to another address and has not expired at now.
Conflicts(r) ==
  LET existing == identified[hid[r].id] IN
  existing # None /\ existing.addr # addr[r] /\ existing.until > now[r]

\* The critical section of d.mu: the ID is rejected or recorded.
CheckIdentity(r) ==
  /\ pc[r] = "check"
  /\ IF Conflicts(r)
     THEN IdentifyEnds(r, None) /\ UNCHANGED identified
     ELSE /\ IdentifyEnds(r, hid[r])
          /\ identified' = [identified EXCEPT ![hid[r].id] =
                              [addr |-> addr[r], until |-> hid[r].until]]
  /\ UNCHANGED <<addr, sac, now, cli, sq, bg, clients, heap>>

\* The rest of the deferred identifyQueue.done.
IdentifyDoneClose(r) ==
  /\ pc[r] = "idone"
  /\ IQ!DoneClose(r)
  /\ UNCHANGED <<locals, sq, bg, clients, heap, identified>>

IdentifyDoneDelete(r) ==
  /\ pc[r] = "idone"
  /\ IQ!DoneDelete(r)
  /\ Identified(r, hid[r])
  /\ UNCHANGED <<addr, sac, bg, clients, heap, identified>>

----------------------------------------------------------------------------
(* newAutodeviceClient, and the end of the search *)

\* The constructor of upstreams fails.
CreateFails(r) ==
  /\ pc[r] = "create"
  /\ SearchEnds(r, None)
  /\ hid' = [hid EXCEPT ![r] = None]
  /\ UNCHANGED <<addr, sac, now, iq, bg, clients, heap, identified>>

\* The client is made and stored under sac.mu.
Create(r) ==
  /\ pc[r] = "create"
  /\ \E c \in Clients :
       /\ heap[c] = None
       /\ \A d \in Clients : heap[d] = None => c <= d
       /\ heap' = [heap EXCEPT ![c] =
                     [addr |-> addr[r], sac |-> sac[r], id |-> hid[r].id,
                      until |-> hid[r].until, fin |-> FALSE, closed |-> FALSE]]
       /\ clients' = [clients EXCEPT ![sac[r]][addr[r]] = c]
       /\ SearchEnds(r, c)
  /\ hid' = [hid EXCEPT ![r] = None]
  /\ UNCHANGED <<addr, sac, now, iq, bg, identified>>

\* The rest of the deferred searchQueue.done.
SearchDoneClose(r) ==
  /\ pc[r] = "sdone"
  /\ SQ!DoneClose(r)
  /\ UNCHANGED <<locals, iq, bg, clients, heap, identified>>

SearchDoneDelete(r) ==
  /\ pc[r] = "sdone"
  /\ SQ!DoneDelete(r)
  /\ pc' = [pc EXCEPT ![r] = "resolve"]
  /\ UNCHANGED <<addr, sac, now, hid, cli, iq, bg, clients, heap, identified>>

\* The proxy has resolved the request through cli's upstreams and drops them.
Resolve(r) ==
  /\ pc[r] = "resolve"
  /\ pc' = [pc EXCEPT ![r] = "idle"]
  /\ addr' = [addr EXCEPT ![r] = None]
  /\ sac' = [sac EXCEPT ![r] = None]
  /\ cli' = [cli EXCEPT ![r] = None]
  /\ UNCHANGED <<now, hid, sq, iq, bg, clients, heap, identified>>

----------------------------------------------------------------------------
(* runGC *)

\* The timer fires and cleanExpired begins.  When gcDone is closed as well the
\* select may still take this case.
GCFire ==
  /\ gc.pc = "select"
  /\ gc' = [pc |-> "clients", now |-> clock, sac |-> 1]
  /\ UNCHANGED <<locals, sq, iq, clock, shut, clients, heap, identified>>

\* Mutant of ExpiredIn: a client is collected during the last tick of its life.
ExpiredInEarly(s, t) ==
  {c \in Clients : \E a \in Addrs : clients[s][a] = c /\ t + 1 >= heap[c].until}

\* The stored clients of sac s that cleanExpiredClients removes at time t.
ExpiredIn(s, t) ==
  {c \in Clients : \E a \in Addrs : clients[s][a] = c /\ t >= heap[c].until}

\* Mutant of GCClients: the loop runs one sac too far.
GCClientsTooFar ==
  LET expired == ExpiredIn(gc.sac, gc.now) IN
  /\ gc.pc = "clients"
  /\ heap' = SetFinalizer(heap, expired)
  /\ clients' = [clients EXCEPT ![gc.sac] =
                   [a \in Addrs |-> IF @[a] \in expired THEN None ELSE @[a]]]
  /\ gc' = IF gc.sac <= Len(Sacs) THEN [gc EXCEPT !.sac = @ + 1]
                                  ELSE [gc EXCEPT !.pc = "identified", !.sac = None]
  /\ UNCHANGED <<locals, sq, iq, clock, shut, identified>>

\* cleanExpiredClients, for one sac under its lock.
GCClients ==
  LET expired == ExpiredIn(gc.sac, gc.now) IN
  /\ gc.pc = "clients"
  /\ heap' = SetFinalizer(heap, expired)
  /\ clients' = [clients EXCEPT ![gc.sac] =
                   [a \in Addrs |-> IF @[a] \in expired THEN None ELSE @[a]]]
  /\ gc' = IF gc.sac < Len(Sacs) THEN [gc EXCEPT !.sac = @ + 1]
                                 ELSE [gc EXCEPT !.pc = "identified", !.sac = None]
  /\ UNCHANGED <<locals, sq, iq, clock, shut, identified>>

\* The end of cleanExpired: IDs that have expired are forgotten under d.mu.
GCIdentified ==
  /\ gc.pc = "identified"
  /\ identified' = [h \in HumanIDs |->
                      IF identified[h] # None /\ identified[h].until < gc.now
                      THEN None ELSE identified[h]]
  /\ gc' = [pc |-> "select", now |-> None, sac |-> None]
  /\ UNCHANGED <<locals, sq, iq, clock, shut, clients, heap>>

\* gcDone is closed and runGC returns.
GCExit ==
  /\ gc.pc = "select"
  /\ shut.pc # "up"
  /\ gc' = [gc EXCEPT !.pc = "exited"]
  /\ UNCHANGED <<locals, sq, iq, clock, shut, clients, heap, identified>>

----------------------------------------------------------------------------
(* Shutdown, the Go runtime and the clock *)

\* Something still refers to c: a map, a request, a queue's result.
Reachable(c) ==
  \/ \E s \in SacIdx, a \in Addrs : clients[s][a] = c
  \/ \E r \in Reqs : cli[r] = c \/ sGot[r] = c
  \/ \E k \in DOMAIN sEntry : sEntry[k] # NoEntry /\ sEntry[k].out = c

\* The runtime finalizes c: the upstreams are closed and the slot is free.
Finalize(c) ==
  /\ heap[c] # None
  /\ heap[c].fin
  /\ ~Reachable(c)
  /\ heap' = [heap EXCEPT ![c] = None]
  /\ UNCHANGED <<locals, sq, iq, bg, clients, identified>>

\* Shutdown closes gcDone and the static clients.
ShutdownBegin ==
  /\ shut.pc = "up"
  /\ MaxShutdowns = 1
  /\ shut' = [pc |-> "closing", sac |-> 1]
  /\ UNCHANGED <<locals, sq, iq, clock, gc, clients, heap, identified>>

\* Mutant of ShutdownClose: the first error ends the loop.
ShutdownCloseFirst ==
  /\ shut.pc = "closing"
  /\ heap' = [c \in Clients |->
                IF \E a \in Addrs : clients[shut.sac][a] = c
                THEN [heap[c] EXCEPT !.closed = TRUE] ELSE heap[c]]
  /\ shut' = [pc |-> "down", sac |-> None]
  /\ UNCHANGED <<locals, sq, iq, clock, gc, clients, identified>>

\* storedAutodeviceClient.Close, under its lock; the map keeps the clients.
ShutdownClose ==
  /\ shut.pc = "closing"
  /\ heap' = [c \in Clients |->
                IF \E a \in Addrs : clients[shut.sac][a] = c
                THEN [heap[c] EXCEPT !.closed = TRUE] ELSE heap[c]]
  /\ shut' = IF shut.sac < Len(Sacs) THEN [shut EXCEPT !.sac = @ + 1]
                                     ELSE [pc |-> "down", sac |-> None]
  /\ UNCHANGED <<locals, sq, iq, clock, gc, clients, identified>>

Tick ==
  /\ clock < MaxTime
  /\ clock' = clock + 1
  /\ UNCHANGED <<locals, sq, iq, gc, shut, clients, heap, identified>>

----------------------------------------------------------------------------

Get(r) ==
  \E a \in Addrs, q \in Questions :
    GetStatic(r, a, q) \/ GetOwn(r, a, q) \/ GetWait(r, a, q)

\* The steps that a Get in progress takes without being told to.
Proceed(r) ==
  \/ SearchRecv(r)
  \/ ReadClock(r) \/ FindStored(r) \/ FindExpired(r)
  \/ IdentifyOwn(r) \/ IdentifyWait(r) \/ IdentifyRecv(r)
  \/ SourceAnswers(r) \/ SourceFails(r) \/ CheckIdentity(r)
  \/ IdentifyDoneClose(r) \/ IdentifyDoneDelete(r)
  \/ Create(r) \/ CreateFails(r)
  \/ SearchDoneClose(r) \/ SearchDoneDelete(r)
  \/ Resolve(r)

Cancel(r) == SearchCancel(r) \/ IdentifyCancel(r)

GC == GCFire \/ GCClients \/ GCIdentified

Shutdown == ShutdownBegin \/ ShutdownClose

Next ==
  \/ \E r \in Reqs : Get(r) \/ Proceed(r) \/ Cancel(r)
  \/ GC \/ GCExit
  \/ \E c \in Clients : Finalize(c)
  \/ Shutdown
  \/ Tick

Spec == Init /\ [][Next]_vars

(***************************************************************************)
(* Goroutines keep running: a Get that can proceed does (the source and    *)
(* the proxy return, if only by their timeouts), the collector's timer     *)
(* keeps firing, the runtime gets to finalize what is unreachable, and     *)
(* time passes.  Nobody is obliged to send a request, to cancel one or to  *)
(* shut the storage down.                                                  *)
(***************************************************************************)
FairSpec ==
  /\ Spec
  /\ \A r \in Reqs : WF_vars(Proceed(r))
  /\ WF_vars(GC)
  /\ \A c \in Clients : WF_vars(Finalize(c))
  /\ WF_vars(ShutdownClose)
  /\ WF_vars(Tick)

----------------------------------------------------------------------------
(* Properties *)

Stored(c) == \E s \in SacIdx, a \in Addrs : clients[s][a] = c

\* Type invariant of the storage, with those of its two queues.
TypeOK ==
  /\ clock \in Time
  /\ pc \in [Reqs -> {"idle", "search", "clock", "find", "identify", "iwait",
                      "source", "check", "idone", "create", "sdone", "resolve"}]
  /\ addr \in [Reqs -> Addrs \cup {None}]
  /\ sac \in [Reqs -> SacIdx \cup {None}]
  /\ now \in [Reqs -> Time \cup {None}]
  /\ hid \in [Reqs -> Hids \cup {None}]
  /\ cli \in [Reqs -> Clients \cup {None}]
  /\ clients \in [SacIdx -> [Addrs -> Clients \cup {None}]]
  /\ heap \in [Clients -> Autodevices \cup {None}]
  /\ identified \in [HumanIDs -> Owners \cup {None}]
  /\ gc \in [pc : {"select", "clients", "identified", "exited"},
             now : Time \cup {None}, sac : SacIdx \cup {None}]
  /\ shut \in [pc : {"up", "closing", "down"}, sac : SacIdx \cup {None}]
  /\ SQ!TypeOK
  /\ IQ!TypeOK

\* A client that exists is either stored or has a finalizer, never both.  Were
\* it neither, its upstreams would never be closed: sac.clients[addr] = auto
\* (defaultstorage.go:394) must never overwrite a client.  Were it both,
\* the next removal would set a finalizer twice, which stops the program.
StoredXorFinalized ==
  \A c \in Clients : heap[c] # None => (Stored(c) <=> ~heap[c].fin)

\* The client a request is resolved through was made for the request's address
\* and for the configuration it matched, whichever Get made it: two Gets that
\* share a search key match the same sac although the key has no prefix.
ServedOwnClient ==
  \A r \in Reqs : cli[r] # None =>
    /\ heap[cli[r]] # None
    /\ heap[cli[r]].addr = addr[r]
    /\ heap[cli[r]].sac = sac[r]

\* Until the storage is shut down no request uses upstreams that were closed,
\* although clients expire and are removed while requests hold them.
NoUseAfterClose ==
  shut.pc = "up" =>
    \A r \in Reqs : cli[r] # None => heap[cli[r]] # None /\ ~heap[cli[r]].closed

\* No two addresses have stored clients that are both valid and have the same
\* HumanID (humanid.go:13-14).
UniqueHumanID ==
  \A c, d \in Clients :
    /\ heap[c] # None /\ Stored(c) /\ heap[c].until > clock
    /\ heap[d] # None /\ Stored(d) /\ heap[d].until > clock
    /\ heap[c].id = heap[d].id
    => heap[c].addr = heap[d].addr

\* The source is never asked about the same address twice at a time, which its
\* contract forbids (humanidsource.go:28-29).
IdentifyExclusive ==
  \A r, o \in Reqs :
    pc[r] = "source" /\ pc[o] = "source" /\ addr[r] = addr[o] => r = o

\* A client leaves the storage only once it has expired, whoever removes it and
\* however old the reading of the clock it acts on, and only with a finalizer.
OnlyExpiredRemoved ==
  [][\A s \in SacIdx, a \in Addrs :
       clients[s][a] # None /\ clients'[s][a] # clients[s][a] =>
         /\ clients'[s][a] = None
         /\ heap[clients[s][a]].until <= clock
         /\ heap'[clients[s][a]].fin]_vars

\* The client each request refers to, also one that it was handed by a queue and
\* has not taken yet.
Held ==
  [r \in Reqs |-> IF cli[r] # None THEN cli[r]
                  ELSE IF sGot[r] \in Clients THEN sGot[r] ELSE None]

Leases == INSTANCE ClientLeases WITH
            Confs <- SacIdx, Times <- Time, held <- Held, lease <- heap,
            up <- (shut.pc = "up")

\* The storage, with its queues, locks, stale readings of the clock and two
\* goroutines that remove clients, does what ClientLeases promises: a place has
\* one stored client at a time; it is made for an ID that is free, found only if
\* valid when the search began, shared only within its place, retired only once
\* it has expired, and closed only when it is retired and nobody refers to it,
\* or by Shutdown.
LeasesKept == Leases!Spec

\* Every Get returns, whatever the searches and identifications it waits for.
GetReturns == \A r \in Reqs : pc[r] # "idle" ~> pc[r] = "resolve"

\* Every client that is made before Shutdown, or by the time it begins, is
\* closed in the end: by its finalizer, or by Shutdown, whose passes over the
\* sacs interleave with Gets and with the collector's last cycle.
ClientReclaimed ==
  \A c \in Clients :
    heap[c] # None /\ (shut.pc = "up" \/ shut.sac = 1) ~>
      (heap[c] = None \/ heap[c].closed)
=============================================================================
