------------------------- MODULE ClientLeasesProofs -------------------------
(***************************************************************************)
(* Proof that ClientStorage implements ClientLeases, for every set of      *)
(* requests, addresses and clients, every list of configurations and every *)
(* bound.                                                                  *)
(*                                                                         *)
(* The invariant of ClientStorageProofs says enough about the storage for  *)
(* all steps but the ones that begin and end a request, which also need    *)
(* that a request has an address exactly if it is in progress.  Most steps *)
(* of the queues and the collector change nothing that ClientLeases sees;  *)
(* the others take one step of it each.                                    *)
(***************************************************************************)
EXTENDS ClientStorageProofs

\* A request has an address as long as it is in progress.
Addressed == \A r \in Reqs : addr[r] = None <=> pc[r] = "idle"

LInv == IInv /\ Addressed

\* The address comes and goes with the step.
LEMMA AddressedStep == LInv /\ [Next]_vars => LInv'
<1> SUFFICES ASSUME LInv, [Next]_vars PROVE LInv'
  OBVIOUS
<1> USE DEF LInv
<1>1. IInv'
  BY StepInv
<1>2. ASSUME NEW r \in Reqs, Request(r) PROVE Addressed'
  <2>1. Framed(r)
    BY <1>2, GetFrame, ProceedFrame DEF Request
  <2>2. None \notin Addrs /\ pc \in [Reqs -> {"idle", "search", "clock", "find", "identify", "iwait",
                      "source", "check", "idone", "create", "sdone", "resolve"}]
        /\ addr \in [Reqs -> Addrs \cup {None}]
    BY MarkersAssumption DEF IInv, TypeOK
  <2>3. addr'[r] = None <=> pc'[r] = "idle"
    <3>1. CASE Get(r)
      <4>1. PICK a \in Addrs, q \in Questions :
              GetStatic(r, a, q) \/ GetOwn(r, a, q) \/ GetWait(r, a, q)
        BY <3>1 DEF Get
      <4> QED BY <2>2, <4>1 DEF GetStatic, GetOwn, GetWait, GetAutodevice
    <3>2. CASE Resolve(r)
      BY <2>2, <3>2 DEF Resolve
    <3>3. CASE (Proceed(r) /\ ~Resolve(r)) \/ Cancel(r)
      <4>1. UNCHANGED addr
        BY <3>3 DEF Proceed, Cancel, SearchRecv, SearchCancel, ReadClock, FindStored, FindExpired,
           IdentifyOwn, IdentifyWait, IdentifyRecv, IdentifyCancel, SourceAnswers, SourceFails,
           CheckIdentity, IdentifyDoneClose, IdentifyDoneDelete, Create, CreateFails,
           SearchDoneClose, SearchDoneDelete, locals
      <4>2. pc[r] # "idle"
        BY <3>3 DEF Proceed, Cancel, SearchRecv, SearchCancel, ReadClock, FindStored, FindExpired,
           IdentifyOwn, IdentifyWait, IdentifyRecv, IdentifyCancel, SourceAnswers, SourceFails,
           CheckIdentity, IdentifyDoneClose, IdentifyDoneDelete, Create, CreateFails,
           SearchDoneClose, SearchDoneDelete
      <4>3. pc'[r] # "idle"
        BY <2>2, <3>3, <4>2 DEF Proceed, Cancel, SearchRecv, SearchCancel, ReadClock, FindStored,
           FindExpired, IdentifyOwn, IdentifyWait, IdentifyRecv, IdentifyCancel, SourceAnswers,
           SourceFails, CheckIdentity, IdentifyDoneClose, IdentifyDoneDelete, Create, CreateFails,
           SearchDoneClose, SearchDoneDelete, locals, SearchEnds, IdentifyEnds, Identified
      <4> QED BY <4>1, <4>2, <4>3 DEF Addressed
    <3> QED BY <1>2, <3>1, <3>2, <3>3 DEF Request
  <2> QED BY <2>1, <2>3 DEF Addressed, Framed
<1>3. CASE GC \/ GCExit \/ Shutdown \/ Tick \/ (\E c \in Clients : Finalize(c)) \/ UNCHANGED vars
  <2>1. UNCHANGED <<pc, addr>>
    BY <1>3 DEF GC, GCFire, GCClients, GCIdentified, GCExit, Shutdown, ShutdownBegin,
       ShutdownClose, Tick, Finalize, vars, locals
  <2> QED BY <1>1, <2>1 DEF Addressed
<1>4. \/ \E r \in Reqs : Request(r)
      \/ GC \/ GCExit \/ Shutdown \/ Tick \/ (\E c \in Clients : Finalize(c)) \/ UNCHANGED vars
  BY DEF Next, Request
<1> QED BY <1>1, <1>2, <1>3, <1>4
----------------------------------------------------------------------------
(* What ClientLeases sees of a step *)

\* A step of ClientLeases, or none.
LeaseStep == Leases!Next \/ UNCHANGED <<clock, addr, sac, now, Held, heap, shut.pc = "up">>

\* What a request refers to depends on its own locals only.
LEMMA HeldKept ==
  ASSUME UNCHANGED <<cli, sGot>>
  PROVE  Held' = Held
  BY DEF Held

\* A step of one request changes what it refers to, and nothing else.
LEMMA HeldOne ==
  ASSUME NEW r \in Reqs, \A o \in Reqs \ {r} : cli'[o] = cli[o] /\ sGot'[o] = sGot[o]
  PROVE  Held' = [Held EXCEPT ![r] = Held'[r]]
  BY DEF Held

\* A request that does not wait for a search refers to its local; one that does
\* refers to what it was handed.
Refers ==
  \A r \in Reqs :
    /\ pc[r] # "search" => Held[r] = cli[r]
    /\ pc[r] = "search" => Held[r] = IF sGot[r] \in Clients THEN sGot[r] ELSE None
    /\ pc[r] \notin {"search", "sdone", "resolve"} => Held[r] = None

\* This is so whenever the invariant holds, before a step as after it.
LEMMA HeldIs == (IInv => Refers) /\ (IInv' => Refers')
<1>1. ASSUME IInv, NEW r \in Reqs
      PROVE  /\ pc[r] # "search" => Held[r] = cli[r]
             /\ pc[r] = "search" => Held[r] = IF sGot[r] \in Clients THEN sGot[r] ELSE None
             /\ pc[r] \notin {"search", "sdone", "resolve"} => Held[r] = None
  <2>1. /\ pc[r] # "search" => sGot[r] = NotYet
        /\ pc[r] \notin {"sdone", "resolve"} => cli[r] = None
    BY <1>1 DEF IInv, InSearchQueue, Locals
  <2>2. NotYet \notin Clients
    BY MarkersAssumption
  <2>3. Held[r] = IF cli[r] # None THEN cli[r]
                  ELSE IF sGot[r] \in Clients THEN sGot[r] ELSE None
    BY <1>1 DEF Held
  <2> QED BY <2>1, <2>2, <2>3
<1>2. IInv => Refers
  BY <1>1 DEF Refers
<1> QED BY <1>2, PTL

\* Steps within the queues, calls of the source and the collector's other steps.
LEMMA UnseenSteps ==
  ASSUME \/ \E r \in Reqs : \/ IdentifyOwn(r) \/ IdentifyWait(r) \/ SourceAnswers(r)
                            \/ SourceFails(r) \/ CheckIdentity(r) \/ IdentifyDoneClose(r)
                            \/ SearchDoneDelete(r)
         \/ GCFire \/ GCIdentified \/ GCExit
  PROVE  LeaseStep
<1>1. UNCHANGED <<clock, addr, sac, now, cli, sGot, heap, shut>>
  BY DEF IdentifyOwn, IdentifyWait, SourceAnswers, SourceFails, CheckIdentity, IdentifyDoneClose,
         SearchDoneDelete, SQ!DoneDelete, GCFire, GCIdentified, GCExit, locals, sq, bg
<1> QED BY <1>1, HeldKept DEF LeaseStep

\* Entering Get: with a static client, as the owner of a search, or as one that
\* waits for it or is handed the client at once.
LEMMA GetAsks ==
  ASSUME LInv, IInv', NEW r \in Reqs, Get(r)
  PROVE  LeaseStep
<1> USE DEF LInv
<1>1. PICK a \in Addrs, q \in Questions :
        GetStatic(r, a, q) \/ GetOwn(r, a, q) \/ GetWait(r, a, q)
  BY DEF Get
<1>2. pc[r] = "idle" /\ UNCHANGED <<clock, now, cli, heap, shut>>
  BY <1>1 DEF GetStatic, GetOwn, GetWait, GetAutodevice, bg
<1>3. addr[r] = None /\ Held[r] = None
  BY <1>2, HeldIs DEF Addressed, Refers
<1>4. CASE GetStatic(r, a, q)
  <2>1. Leases!AskStatic(r, a)
    BY <1>2, <1>3, <1>4, HeldKept DEF GetStatic, Leases!AskStatic, sq
  <2> QED BY <2>1 DEF LeaseStep, Leases!Next, Leases!ReqNext
<1>5. CASE GetOwn(r, a, q) \/ GetWait(r, a, q)
  <2>1. PICK s \in SacIdx :
          /\ GetAutodevice(r, a, q, s)
          /\ \/ SQ!PushStore(r, SearchRequest(a, s)) /\ pc' = [pc EXCEPT ![r] = "clock"]
             \/ SQ!PushLoad(r, SearchRequest(a, s)) /\ pc' = [pc EXCEPT ![r] = "search"]
    BY <1>5 DEF GetOwn, GetWait
  <2>2. /\ addr' = [addr EXCEPT ![r] = a] /\ sac' = [sac EXCEPT ![r] = s]
        /\ FirstMatch(s, a, q)
    BY <2>1 DEF GetAutodevice
  <2>3. Held' = [Held EXCEPT ![r] = Held'[r]]
    <3>1. \A o \in Reqs \ {r} : sGot'[o] = sGot[o]
      BY <2>1 DEF SQ!PushStore, SQ!PushLoad, IInv, TypeOK, SQ!TypeOK
    <3> QED BY <1>2, <3>1, HeldOne
  <2>4. Held'[r] \in Clients \cup {None}
    BY <1>2 DEF Held, IInv, TypeOK
  <2>5. ASSUME Held'[r] # None PROVE \E o \in Reqs : Leases!Shares(o, Held'[r], a, s)
    <3>1. /\ SQ!PushLoad(r, SearchRequest(a, s)) /\ pc' = [pc EXCEPT ![r] = "search"]
          /\ sGot'[r] \in Clients /\ Held'[r] = sGot'[r]
      <4>1. SQ!PushLoad(r, SearchRequest(a, s)) /\ pc' = [pc EXCEPT ![r] = "search"]
        BY <2>1, <2>5, HeldIs DEF Refers, IInv, TypeOK
      <4> QED BY <2>5, <4>1, HeldIs DEF Refers, IInv, TypeOK
    <3>2. PICK o \in Reqs : addr[o] = a /\ sac[o] = s /\ pc[o] = "sdone" /\ cli[o] = sGot'[r]
      BY <2>2, <3>1, HandedAtOnce
    <3>3. Held[o] = cli[o]
      BY <3>2, HeldIs DEF Refers
    <3> QED BY <3>1, <3>2, <3>3 DEF Leases!Shares
  <2>6. Leases!Ask(r, a, s, Held'[r])
    BY <1>2, <1>3, <2>2, <2>3, <2>5 DEF Leases!Ask
  <2> QED BY <2>4, <2>6 DEF LeaseStep, Leases!Next, Leases!ReqNext
<1> QED BY <1>1, <1>4, <1>5

\* push returns to a waiter, which takes what it was handed or leaves it.
LEMMA WaiterReturns ==
  ASSUME LInv, IInv', NEW r \in Reqs, SearchRecv(r) \/ SearchCancel(r)
  PROVE  LeaseStep
<1> USE DEF LInv
<1>1. /\ pc[r] = "search" /\ UNCHANGED <<clock, addr, sac, now, heap, shut>>
      /\ sGot[r] # Zero
  BY DEF SearchRecv, SearchCancel, bg, IInv, SP!IInv, SP!NeverZero
<1>2. pc'[r] = "resolve"
  BY <1>1 DEF SearchRecv, SearchCancel, IInv, TypeOK
<1>3. \A o \in Reqs \ {r} : cli'[o] = cli[o] /\ sGot'[o] = sGot[o]
  BY DEF SearchRecv, SearchCancel, SQ!Recv, SQ!Cancel, IInv, TypeOK, SQ!TypeOK
<1>4. Held' = [Held EXCEPT ![r] = cli'[r]]
  BY <1>2, <1>3, HeldOne, HeldIs DEF Refers
<1>5. CASE SearchRecv(r)
  <2>1. cli'[r] = Held[r]
    BY <1>1, <1>5, HeldIs DEF SearchRecv, Refers, IInv, TypeOK
  <2>2. Held' = Held
    BY <1>4, <2>1 DEF Held
  <2> QED BY <1>1, <2>2 DEF LeaseStep
<1>6. CASE SearchCancel(r)
  <2>1. cli'[r] = None
    BY <1>1, <1>6 DEF SearchCancel, IInv, Locals
  <2>2. CASE Held[r] = None
    <3>1. Held' = Held
      BY <1>4, <2>1, <2>2 DEF Held
    <3> QED BY <1>1, <3>1 DEF LeaseStep
  <2>3. CASE Held[r] # None
    <3>1. Leases!Drop(r)
      BY <1>1, <1>4, <2>1, <2>3 DEF Leases!Drop
    <3> QED BY <3>1 DEF LeaseStep, Leases!Next, Leases!ReqNext
  <2> QED BY <2>2, <2>3
<1> QED BY <1>5, <1>6

\* The steps of the owner of a search that change its own locals only.
LEMMA OwnerLooks ==
  ASSUME LInv, IInv', NEW r \in Reqs, ReadClock(r) \/ FindStored(r)
  PROVE  LeaseStep
<1> USE DEF LInv
<1>1. /\ pc[r] \in Searching /\ UNCHANGED <<clock, addr, sac, heap, shut>>
      /\ addr[r] \in Addrs /\ sac[r] \in SacIdx /\ Held[r] = None
  BY HeldIs DEF ReadClock, FindStored, bg, Searching, IInv, InSearchQueue, Refers
<1>2. CASE ReadClock(r)
  <2>1. Held' = Held
    BY <1>2, HeldKept DEF ReadClock, sq
  <2>2. Leases!Look(r)
    BY <1>1, <1>2, <2>1, MarkersAssumption DEF ReadClock, Leases!Look
  <2> QED BY <2>2 DEF LeaseStep, Leases!Next, Leases!ReqNext
<1>3. CASE FindStored(r)
  <2> DEFINE c == clients[sac[r]][addr[r]]
  <2>1. /\ c \in Clients /\ heap[c].until > now[r] /\ now' = [now EXCEPT ![r] = None]
        /\ SearchEnds(r, c)
    BY <1>1, <1>3 DEF FindStored, ValidAt, IInv, TypeOK
  <2>2. Made(c, addr[r], sac[r]) /\ ~heap[c].fin
    BY <1>1, <2>1, MarkersAssumption DEF IInv, StoredMade
  <2>3. now[r] # None
    BY <1>3, MarkersAssumption DEF FindStored, IInv, Locals
  <2>4. Held' = [Held EXCEPT ![r] = c]
    <3> HIDE DEF c
    <3>1. pc'[r] = "sdone" /\ cli'[r] = c /\ \A o \in Reqs \ {r} : cli'[o] = cli[o]
      BY <2>1, SearchEndsFrame DEF IInv
    <3>2. sGot' = sGot
      BY <2>1 DEF SearchEnds, SQ!DoneSet
    <3> QED BY <3>1, <3>2, HeldOne, HeldIs DEF Refers
  <2>5. Leases!Find(r, c)
    <3> HIDE DEF c
    <3> QED BY <1>1, <2>1, <2>2, <2>3, <2>4 DEF Leases!Find, Leases!IsFor, Leases!Kept,
               Leases!Exists, Made
  <2> QED BY <2>1, <2>5 DEF LeaseStep, Leases!Next, Leases!ReqNext
<1> QED BY <1>2, <1>3

\* identify returns, with an ID or an error.
LEMMA OwnerIdentified ==
  ASSUME LInv, IInv', NEW r \in Reqs,
         IdentifyRecv(r) \/ IdentifyCancel(r) \/ IdentifyDoneDelete(r)
  PROVE  LeaseStep
<1> USE DEF LInv
<1>1. /\ pc[r] \in {"iwait", "idone"} /\ UNCHANGED <<clock, addr, sac, heap, shut>>
      /\ iGot[r] # Zero
  BY DEF IdentifyRecv, IdentifyCancel, IdentifyDoneDelete, bg, IInv, IP!IInv, IP!NeverZero
<1>2. PICK h : Identified(r, h)
  BY <1>1 DEF IdentifyRecv, IdentifyCancel, IdentifyDoneDelete
<1>3. cli' = cli /\ sGot' = sGot
  <2>1. CASE h = None
    <3>1. cli[r] = None
      BY <1>1 DEF IInv, Locals
    <3> QED BY <1>2, <2>1, <3>1 DEF Identified, SearchEnds, SQ!DoneSet, IInv, TypeOK
  <2>2. CASE h # None
    BY <1>2, <2>2 DEF Identified, sq
  <2> QED BY <2>1, <2>2
<1>4. Held' = Held
  BY <1>3, HeldKept
<1>5. now[r] # None /\ now' = [now EXCEPT ![r] = None]
  BY <1>1, <1>2, MarkersAssumption DEF IInv, Locals, Identified
<1>6. Leases!Miss(r)
  BY <1>1, <1>4, <1>5 DEF Leases!Miss
<1> QED BY <1>6 DEF LeaseStep, Leases!Next, Leases!ReqNext

\* newAutodeviceClient makes a client, for a place that is empty and with an ID
\* that nobody else has, or fails.
LEMMA OwnerMakes ==
  ASSUME LInv, IInv', NEW r \in Reqs, Create(r) \/ CreateFails(r)
  PROVE  LeaseStep
<1> USE DEF LInv
<1>1. /\ pc[r] = "create" /\ UNCHANGED <<clock, addr, sac, now, shut>>
      /\ addr[r] \in Addrs /\ sac[r] \in SacIdx /\ hid[r] \in Hids
      /\ Held[r] = None /\ cli[r] = None /\ clients[sac[r]][addr[r]] = None
  BY HeldIs DEF Create, CreateFails, bg, Searching, Emptied, IInv, InSearchQueue, Locals, Refers
<1>2. None \notin Clients \cup Hids
  BY MarkersAssumption
<1>3. CASE CreateFails(r)
  <2>1. cli' = cli /\ sGot' = sGot /\ heap' = heap
    BY <1>1, <1>3 DEF CreateFails, SearchEnds, SQ!DoneSet, IInv, TypeOK
  <2> QED BY <1>1, <2>1, HeldKept DEF LeaseStep
<1>4. CASE Create(r)
  <2>1. PICK c \in Clients :
          /\ heap[c] = None
          /\ heap' = [heap EXCEPT ![c] =
                        [addr |-> addr[r], sac |-> sac[r], id |-> hid[r].id,
                         until |-> hid[r].until, fin |-> FALSE, closed |-> FALSE]]
          /\ SearchEnds(r, c)
    BY <1>4 DEF Create
  <2>2. Held' = [Held EXCEPT ![r] = c]
    <3>1. pc'[r] = "sdone" /\ cli'[r] = c /\ \A o \in Reqs \ {r} : cli'[o] = cli[o]
      BY <2>1, SearchEndsFrame DEF IInv
    <3>2. sGot' = sGot
      BY <2>1 DEF SearchEnds, SQ!DoneSet
    <3> QED BY <3>1, <3>2, HeldOne, HeldIs DEF Refers
  <2>3. ASSUME NEW d \in Clients, Made(d, addr[r], sac[r]), ~heap[d].fin PROVE FALSE
    <3>1. PICK s \in SacIdx, a \in Addrs : clients[s][a] = d
      BY <2>3 DEF IInv, StoredXorFinalized, Stored, Made
    <3>2. heap[d].addr = a /\ heap[d].sac = s
      BY <1>2, <3>1 DEF IInv, StoredMade, Made
    <3> QED BY <1>1, <1>2, <2>3, <3>1, <3>2 DEF Made
  <2>4. Leases!Free(hid[r], addr[r])
    <3>1. Registered(hid[r].id, hid[r].until, addr[r])
      BY <1>1, <1>2 DEF IInv, IDsOf
    <3> QED BY <3>1 DEF IInv, ClientIDs, Registered, Leases!Free, Leases!Exists
  <2>5. Leases!Make(r, c, hid[r])
    BY <1>1, <2>1, <2>2, <2>3, <2>4 DEF Leases!Make, Leases!IsFor, Leases!Kept, Leases!Exists, Made
  <2>6. hid[r] \in [id : HumanIDs, until : Time]
    BY <1>1 DEF Hids
  <2> QED BY <2>1, <2>5, <2>6 DEF LeaseStep, Leases!Next, Leases!ReqNext
<1> QED BY <1>3, <1>4

\* done closes the channel: whoever waits is handed what the owner holds.
LEMMA OwnerShares ==
  ASSUME LInv, IInv', NEW r \in Reqs, SearchDoneClose(r)
  PROVE  LeaseStep
<1> USE DEF LInv
<1> DEFINE Q == {q \in Reqs : sSt[q] = "wait" /\ sKey[q] = sKey[r] /\ sGot[q] = NotYet}
<1>1. /\ pc[r] = "sdone" /\ sSt[r] = "set"
      /\ UNCHANGED <<clock, pc, addr, sac, now, cli, heap, shut>>
      /\ sGot' = [q \in Reqs |-> IF q \in Q THEN sEntry[sKey[r]].out ELSE sGot[q]]
  BY DEF SearchDoneClose, SQ!DoneClose, locals, bg
<1>2. NotYet \notin Clients /\ Err \notin Clients /\ None \notin Clients
  BY MarkersAssumption
<1>3. sEntry[sKey[r]].out = (IF cli[r] = None THEN Err ELSE cli[r]) /\ Held[r] = cli[r]
  BY <1>1, HeldIs DEF IInv, OwnResults, Refers
<1>4. ASSUME NEW q \in Q
      PROVE  pc[q] = "search" /\ Held[q] = None /\ addr[q] = addr[r] /\ sac[q] = sac[r]
  <2>1. pc[q] = "search"
    BY <1>4 DEF IInv, InSearchQueue, TypeOK, Searching
  <2>2. Held[q] = None
    BY <1>2, <1>4, <2>1, HeldIs DEF Refers
  <2>3. addr[q] = addr[r] /\ sac[q] = sac[r]
    BY <1>1, <1>4, <2>1, SameSearch
  <2> QED BY <2>1, <2>2, <2>3
<1>5. cli[r] \in Clients \cup {None}
  BY DEF IInv, TypeOK
<1>6. Held' = [q \in Reqs |-> IF q \in Q THEN Held[r] ELSE Held[q]]
  <2>1. ASSUME NEW q \in Q PROVE Held'[q] = Held[r]
    <3>1. pc'[q] = "search" /\ sGot'[q] = sEntry[sKey[r]].out
      BY <1>1, <1>4, <2>1
    <3>2. Held'[q] = IF sGot'[q] \in Clients THEN sGot'[q] ELSE None
      BY <2>1, <3>1, HeldIs DEF Refers
    <3> QED BY <1>2, <1>3, <1>5, <3>1, <3>2
  <2>2. ASSUME NEW q \in Reqs \ Q PROVE Held'[q] = Held[q]
    <3>1. sGot'[q] = sGot[q] /\ cli'[q] = cli[q]
      BY <1>1, <2>2
    <3> QED BY <2>2, <3>1 DEF Held
  <2>3. Held' = [q \in Reqs |-> Held'[q]]
    BY DEF Held
  <2> HIDE DEF Q
  <2> QED BY <2>1, <2>2, <2>3
<1>7. CASE cli[r] = None
  <2>1. Held' = Held
    <3>1. Held = [q \in Reqs |-> Held[q]]
      BY DEF Held
    <3> HIDE DEF Q
    <3> QED BY <1>3, <1>4, <1>6, <1>7, <3>1
  <2> QED BY <1>1, <2>1 DEF LeaseStep
<1>8. CASE cli[r] # None
  <2>1. Leases!Share(r, Q)
    <3> HIDE DEF Q
    <3> QED BY <1>1, <1>3, <1>4, <1>6, <1>8 DEF Leases!Share, Leases!Shares
  <2> QED BY <2>1 DEF LeaseStep, Leases!Next, Leases!ReqNext
<1> QED BY <1>7, <1>8

\* A request that has been resolved is over.
LEMMA RequestLeaves ==
  ASSUME LInv, IInv', NEW r \in Reqs, Resolve(r)
  PROVE  LeaseStep
<1> USE DEF LInv
<1>1. /\ pc[r] = "resolve" /\ UNCHANGED <<clock, now, heap, shut>>
      /\ addr' = [addr EXCEPT ![r] = None] /\ sac' = [sac EXCEPT ![r] = None]
      /\ cli' = [cli EXCEPT ![r] = None] /\ UNCHANGED sGot
  BY DEF Resolve, sq, bg
<1>2. addr[r] # None
  BY <1>1 DEF Addressed
<1>3. pc'[r] = "idle"
  BY DEF Resolve, IInv, TypeOK
<1>4. Held' = [Held EXCEPT ![r] = None]
  <2>1. \A o \in Reqs \ {r} : cli'[o] = cli[o] /\ sGot'[o] = sGot[o]
    BY <1>1 DEF IInv, TypeOK
  <2>2. Held'[r] = None
    BY <1>3, HeldIs DEF Refers
  <2> QED BY <2>1, <2>2, HeldOne
<1>5. Leases!Leave(r)
  BY <1>1, <1>2, <1>4 DEF Leases!Leave
<1> QED BY <1>5 DEF LeaseStep, Leases!Next, Leases!ReqNext

\* Stored clients that have expired get their finalizers.
LEMMA ClientsRetired ==
  ASSUME IInv, NEW cs \in SUBSET Clients, heap' = SetFinalizer(heap, cs),
         \A c \in cs : Stored(c) /\ heap[c].until <= clock,
         UNCHANGED <<clock, addr, sac, now, cli, sGot, shut>>
  PROVE  LeaseStep
<1>1. Held' = Held
  BY HeldKept
<1>2. CASE cs = {}
  <2>1. heap' = heap
    BY <1>2 DEF SetFinalizer, IInv, TypeOK
  <2> QED BY <1>1, <2>1 DEF LeaseStep
<1>3. CASE cs # {}
  <2>1. ASSUME NEW c \in cs PROVE heap[c] # None /\ ~heap[c].fin
    <3>1. PICK s \in SacIdx, a \in Addrs : clients[s][a] = c
      BY <2>1 DEF Stored
    <3> QED BY <2>1, <3>1, MarkersAssumption DEF IInv, StoredMade, Made
  <2>2. Leases!Retire(cs)
    BY <1>1, <1>3, <2>1 DEF Leases!Retire, Leases!Kept, Leases!Exists, SetFinalizer
  <2> QED BY <2>2 DEF LeaseStep, Leases!Next
<1> QED BY <1>2, <1>3

\* A search and the collector retire what has expired.
LEMMA Retirements ==
  ASSUME LInv, (\E r \in Reqs : FindExpired(r)) \/ GCClients
  PROVE  LeaseStep
<1> USE DEF LInv
<1>1. ASSUME NEW r \in Reqs, FindExpired(r) PROVE LeaseStep
  <2> DEFINE c == clients[sac[r]][addr[r]]
             cs == {c} \ {None}
  <2>1. /\ addr[r] \in Addrs /\ sac[r] \in SacIdx /\ now[r] \in Time /\ now[r] <= clock
        /\ c \in Clients \cup {None} /\ clock \in Time
    BY <1>1 DEF FindExpired, IInv, InSearchQueue, Locals, TypeOK
  <2>2. /\ ~ValidAt(c, now[r]) /\ heap' = SetFinalizer(heap, cs)
        /\ UNCHANGED <<clock, addr, sac, now, cli, sGot, shut>>
    BY <1>1 DEF FindExpired, sq, bg
  <2>3. ASSUME c # None PROVE Stored(c) /\ heap[c].until <= clock
    <3>1. Stored(c)
      BY <2>1 DEF Stored
    <3>2. heap[c] \in Autodevices
      BY <2>1, <2>3 DEF IInv, TypeOK, StoredMade, Made
    <3>3. heap[c].until \in Nat /\ now[r] \in Nat /\ clock \in Nat
      BY <2>1, <3>2 DEF Autodevices, Time
    <3>4. ~(heap[c].until > now[r])
      BY <2>2, <2>3 DEF ValidAt
    <3> QED BY <2>1, <3>1, <3>3, <3>4
  <2>4. cs \in SUBSET Clients /\ \A d \in cs : Stored(d) /\ heap[d].until <= clock
    BY <2>1, <2>3
  <2> HIDE DEF cs
  <2> QED BY <2>2, <2>4, ClientsRetired
<1>2. ASSUME GCClients PROVE LeaseStep
  <2> DEFINE cs == ExpiredIn(gc.sac, gc.now)
  <2>1. /\ heap' = SetFinalizer(heap, cs)
        /\ UNCHANGED <<clock, addr, sac, now, cli, sGot, shut>>
    BY <1>2 DEF GCClients, locals, sq
  <2>2. gc.sac \in SacIdx /\ gc.now \in Time /\ gc.now <= clock /\ clock \in Time
    BY <1>2 DEF GCClients, IInv, Background, TypeOK
  <2>3. ASSUME NEW c \in cs PROVE c \in Clients /\ Stored(c) /\ heap[c].until <= clock
    <3>1. PICK a \in Addrs : c \in Clients /\ clients[gc.sac][a] = c /\ gc.now >= heap[c].until
      BY <2>3 DEF ExpiredIn
    <3>2. heap[c] \in Autodevices
      BY <2>2, <3>1, MarkersAssumption DEF IInv, TypeOK, StoredMade, Made
    <3>3. heap[c].until \in Nat /\ gc.now \in Nat /\ clock \in Nat
      BY <2>2, <3>2 DEF Autodevices, Time
    <3> QED BY <2>2, <3>1, <3>3 DEF Stored
  <2> HIDE DEF cs
  <2> QED BY <2>1, <2>3, ClientsRetired
<1> QED BY <1>1, <1>2

\* The runtime reclaims a client that nothing refers to; Shutdown closes what is
\* stored; time passes.
LEMMA RuntimeSteps ==
  ASSUME LInv, (\E c \in Clients : Finalize(c)) \/ Shutdown \/ Tick
  PROVE  LeaseStep
<1> USE DEF LInv
<1>1. ASSUME NEW c \in Clients, Finalize(c) PROVE LeaseStep
  <2>1. /\ heap[c] # None /\ heap[c].fin /\ heap' = [heap EXCEPT ![c] = None]
        /\ UNCHANGED <<clock, addr, sac, now, cli, sGot, shut>>
        /\ \A r \in Reqs : cli[r] # c /\ sGot[r] # c
    BY <1>1 DEF Finalize, Reachable, locals, sq, bg
  <2>2. \A r \in Reqs : Held[r] # c
    BY <2>1, MarkersAssumption DEF Held
  <2>3. Leases!Reclaim(c)
    BY <2>1, <2>2, HeldKept DEF Leases!Reclaim, Leases!Exists, Leases!Kept
  <2> QED BY <2>3 DEF LeaseStep, Leases!Next
<1>2. CASE ShutdownBegin
  <2>1. /\ shut.pc = "up" /\ shut'.pc # "up"
        /\ UNCHANGED <<clock, addr, sac, now, cli, sGot, heap>>
    BY <1>2 DEF ShutdownBegin, locals, sq
  <2>2. Leases!Shutdown
    BY <2>1, HeldKept DEF Leases!Shutdown
  <2> QED BY <2>2 DEF LeaseStep, Leases!Next
<1>3. CASE ShutdownClose
  <2> DEFINE cs == {c \in Clients : \E a \in Addrs : clients[shut.sac][a] = c}
  <2>1. /\ shut.pc # "up" /\ UNCHANGED <<clock, addr, sac, now, cli, sGot>>
        /\ heap' = [c \in Clients |-> IF c \in cs THEN [heap[c] EXCEPT !.closed = TRUE] ELSE heap[c]]
    BY <1>3 DEF ShutdownClose, locals, sq
  <2>2. shut'.pc # "up"
    BY <1>3 DEF ShutdownClose, IInv, TypeOK
  <2>3. shut.sac \in SacIdx
    BY <1>3 DEF ShutdownClose, IInv, Background
  <2>4. \A c \in cs : heap[c] # None /\ ~heap[c].fin
    BY <2>3, MarkersAssumption DEF IInv, StoredMade, Made
  <2>5. Held' = Held
    BY <2>1, HeldKept
  <2>6. cs \in SUBSET Clients
    OBVIOUS
  <2> HIDE DEF cs
  <2>7. CASE cs = {}
    <3>1. heap' = heap
      BY <2>1, <2>7 DEF IInv, TypeOK
    <3> QED BY <2>1, <2>2, <2>5, <3>1 DEF LeaseStep
  <2>8. CASE cs # {}
    <3>1. Leases!Close(cs)
      BY <2>1, <2>2, <2>4, <2>5, <2>8 DEF Leases!Close, Leases!Kept, Leases!Exists
    <3> QED BY <2>6, <3>1 DEF LeaseStep, Leases!Next
  <2> QED BY <2>7, <2>8
<1>4. CASE Tick
  <2>1. Leases!Tick
    BY <1>4, HeldKept DEF Tick, Leases!Tick, locals, sq
  <2> QED BY <2>1 DEF LeaseStep, Leases!Next
<1> QED BY <1>1, <1>2, <1>3, <1>4 DEF Shutdown

----------------------------------------------------------------------------
(* The theorem *)

\* Every step of every goroutine is a step of ClientLeases, or none.
LEMMA StepLeases == LInv /\ [Next]_vars => LeaseStep
<1> SUFFICES ASSUME LInv, [Next]_vars PROVE LeaseStep
  OBVIOUS
<1>1. IInv'
  BY StepInv DEF LInv
<1>2. ASSUME NEW r \in Reqs, Request(r) PROVE LeaseStep
  BY <1>1, <1>2, GetAsks, WaiterReturns, OwnerLooks, OwnerIdentified, OwnerMakes, OwnerShares,
     RequestLeaves, Retirements, UnseenSteps DEF Request, Proceed, Cancel
<1>3. CASE GC \/ GCExit \/ Shutdown \/ Tick \/ (\E c \in Clients : Finalize(c))
  BY <1>3, Retirements, RuntimeSteps, UnseenSteps DEF GC
<1>4. CASE UNCHANGED vars
  BY <1>4, HeldKept DEF vars, locals, sq, bg, LeaseStep
<1>5. \/ \E r \in Reqs : Request(r)
      \/ GC \/ GCExit \/ Shutdown \/ Tick \/ (\E c \in Clients : Finalize(c))
      \/ UNCHANGED vars
  BY DEF Next, Request
<1> QED BY <1>2, <1>3, <1>4, <1>5

\* The storage implements ClientLeases: with any number of requests, whatever
\* they interleave with, each of them gets what is stored at its place, makes a
\* client or shares one, and no client is closed while it is held.
THEOREM StorageKeepsLeases == Spec => LeasesKept
<1>1. Init => LInv
  BY InitInv DEF Init, LInv, Addressed
<1>2. Init => Leases!Init
  <2> SUFFICES ASSUME Init PROVE Leases!Init
    OBVIOUS
  <2>1. Held = [r \in Reqs |-> None]
    BY MarkersAssumption DEF Init, Held, SQ!Init
  <2> QED BY <2>1 DEF Init, Leases!Init
<1>3. LInv /\ [Next]_vars => [Leases!Next]_<<clock, addr, sac, now, Held, heap, shut.pc = "up">>
  BY StepLeases DEF LeaseStep
<1> QED BY <1>1, <1>2, <1>3, AddressedStep, PTL DEF Spec, LeasesKept, Leases!Spec, Leases!vars

----------------------------------------------------------------------------
(* What ClientLeases amounts to *)

\* What its steps maintain: types, the promise, and that nothing is closed while
\* the storage is up.
LeaseInv ==
  /\ clock \in Nat
  /\ addr \in [Reqs -> Addrs \cup {None}]
  /\ sac \in [Reqs -> SacIdx \cup {None}]
  /\ Held \in [Reqs -> Clients \cup {None}]
  /\ heap \in [Clients -> Autodevices \cup {None}]
  /\ Leases!Promise
  /\ shut.pc = "up" => \A c \in Clients : heap[c] # None => ~heap[c].closed

\* A step of a request that leaves the leases alone.
LEMMA PromiseHeld ==
  ASSUME LeaseInv, UNCHANGED <<clock, heap, shut.pc = "up">>,
         addr' \in [Reqs -> Addrs \cup {None}], sac' \in [Reqs -> SacIdx \cup {None}],
         Held' \in [Reqs -> Clients \cup {None}],
         \A r \in Reqs : Held'[r] # None =>
           heap[Held'[r]] # None /\ heap[Held'[r]].addr = addr'[r] /\ heap[Held'[r]].sac = sac'[r]
  PROVE  LeaseInv'
  BY DEF LeaseInv, Leases!Promise, Leases!OnePerPlace, Leases!HeldServes, Leases!ValidIDsUnique,
         Leases!IsFor, Leases!Kept, Leases!Exists

\* What a request holds is no marker, and the request has an address.
LEMMA HeldHere ==
  ASSUME LeaseInv, NEW r \in Reqs, Held[r] # None
  PROVE  /\ Held[r] \in Clients /\ addr[r] \in Addrs
         /\ heap[Held[r]] \in Autodevices
         /\ heap[Held[r]] # None /\ heap[Held[r]].addr = addr[r] /\ heap[Held[r]].sac = sac[r]
<1>1. /\ Held[r] \in Clients /\ heap[Held[r]] \in Autodevices
      /\ heap[Held[r]] # None /\ heap[Held[r]].addr = addr[r] /\ heap[Held[r]].sac = sac[r]
  BY DEF LeaseInv, Leases!Promise, Leases!HeldServes, Leases!IsFor, Leases!Exists
<1>2. heap[Held[r]].addr \in Addrs
  BY <1>1 DEF Autodevices
<1> QED BY <1>1, <1>2

\* A client is made for a place that has none, with a free ID.
LEMMA PromiseMade ==
  ASSUME LeaseInv, NEW r \in Reqs, NEW c \in Clients,
         NEW h \in [id : HumanIDs, until : Time], Leases!Make(r, c, h)
  PROVE  LeaseInv'
<1> USE DEF LeaseInv
<1> DEFINE new == [addr |-> addr[r], sac |-> sac[r], id |-> h.id, until |-> h.until,
                   fin |-> FALSE, closed |-> FALSE]
<1>1. None \notin Clients \cup Autodevices
  BY MarkersAssumption
<1>2. /\ UNCHANGED <<clock, addr, sac, now, shut.pc = "up">>
      /\ heap[c] = None /\ heap' = [heap EXCEPT ![c] = new] /\ Held' = [Held EXCEPT ![r] = c]
      /\ addr[r] \in Addrs /\ sac[r] \in SacIdx /\ Leases!Free(h, addr[r])
      /\ \A d \in Clients : ~(heap[d] # None /\ heap[d].addr = addr[r] /\ heap[d].sac = sac[r]
                              /\ ~heap[d].fin)
  BY DEF Leases!Make, Leases!IsFor, Leases!Kept, Leases!Exists
<1>3. new \in Autodevices
  BY <1>2 DEF Autodevices
<1>4. /\ new.addr = addr[r] /\ new.sac = sac[r] /\ new.id = h.id /\ new.until = h.until
      /\ ~new.fin /\ ~new.closed
  OBVIOUS
<1> HIDE DEF new
<1>5. /\ heap' \in [Clients -> Autodevices \cup {None}] /\ heap'[c] = new /\ new # None
      /\ \A d \in Clients \ {c} : heap'[d] = heap[d]
  BY <1>1, <1>2, <1>3
<1>6. /\ Held' \in [Reqs -> Clients \cup {None}] /\ Held'[r] = c
      /\ \A o \in Reqs \ {r} : Held'[o] = Held[o] /\ Held[o] # c
  BY <1>1, <1>2, HeldHere
<1>7. Leases!OnePerPlace'
  <2> SUFFICES ASSUME NEW d \in Clients, NEW e \in Clients, heap'[d] # None, heap'[e] # None,
                      ~heap'[d].fin, ~heap'[e].fin,
                      heap'[e].addr = heap'[d].addr, heap'[e].sac = heap'[d].sac
               PROVE  d = e
    BY DEF Leases!OnePerPlace, Leases!IsFor, Leases!Kept, Leases!Exists
  <2>1. CASE d # c /\ e # c
    BY <1>5, <2>1 DEF Leases!Promise, Leases!OnePerPlace, Leases!IsFor, Leases!Kept, Leases!Exists
  <2>2. CASE d = c /\ e # c
    BY <1>2, <1>4, <1>5, <2>2
  <2>3. CASE d # c /\ e = c
    BY <1>2, <1>4, <1>5, <2>3
  <2> QED BY <2>1, <2>2, <2>3
<1>8. Leases!HeldServes'
  <2> SUFFICES ASSUME NEW o \in Reqs, Held'[o] # None
               PROVE  /\ heap'[Held'[o]] # None /\ heap'[Held'[o]].addr = addr[o]
                      /\ heap'[Held'[o]].sac = sac[o]
                      /\ shut.pc = "up" => ~heap'[Held'[o]].closed
    BY <1>2 DEF Leases!HeldServes, Leases!IsFor, Leases!Exists
  <2>1. CASE o = r
    BY <1>4, <1>5, <1>6, <2>1
  <2>2. CASE o # r
    <3>1. Held'[o] = Held[o] /\ Held[o] \in Clients \ {c}
      BY <1>6, <2>2
    <3>2. heap'[Held'[o]] = heap[Held[o]]
      BY <1>5, <3>1
    <3> QED BY <3>1, <3>2 DEF Leases!Promise, Leases!HeldServes, Leases!IsFor, Leases!Exists
  <2> QED BY <2>1, <2>2
<1>9. Leases!ValidIDsUnique'
  <2> SUFFICES ASSUME NEW d \in Clients, NEW e \in Clients, heap'[d] # None, heap'[e] # None,
                      heap'[d].until > clock, heap'[e].until > clock, heap'[d].id = heap'[e].id
               PROVE  heap'[d].addr = heap'[e].addr
    BY <1>2 DEF Leases!ValidIDsUnique, Leases!Exists
  <2>1. CASE d # c /\ e # c
    BY <1>5, <2>1 DEF Leases!Promise, Leases!ValidIDsUnique, Leases!Exists
  <2>2. CASE d = c /\ e # c
    BY <1>2, <1>4, <1>5, <2>2 DEF Leases!Free, Leases!Exists
  <2>3. CASE d # c /\ e = c
    BY <1>2, <1>4, <1>5, <2>3 DEF Leases!Free, Leases!Exists
  <2> QED BY <2>1, <2>2, <2>3
<1>10. ASSUME shut.pc = "up", NEW d \in Clients, heap'[d] # None PROVE ~heap'[d].closed
  BY <1>4, <1>5, <1>10
<1> QED BY <1>2, <1>5, <1>6, <1>7, <1>8, <1>9, <1>10 DEF Leases!Promise

\* The steps of requests.
LEMMA PromiseRequests ==
  ASSUME LeaseInv, NEW r \in Reqs, Leases!ReqNext(r)
  PROVE  LeaseInv'
<1> None \notin Addrs \cup Clients \cup Autodevices
  BY MarkersAssumption
<1>1. /\ addr \in [Reqs -> Addrs \cup {None}] /\ sac \in [Reqs -> SacIdx \cup {None}]
      /\ Held \in [Reqs -> Clients \cup {None}] /\ heap \in [Clients -> Autodevices \cup {None}]
  BY DEF LeaseInv
<1>2. ASSUME NEW a \in Addrs, Leases!AskStatic(r, a) PROVE LeaseInv'
  BY <1>1, <1>2, HeldHere, PromiseHeld DEF Leases!AskStatic
<1>3. ASSUME NEW a \in Addrs, NEW s \in SacIdx, NEW c \in Clients \cup {None},
             Leases!Ask(r, a, s, c)
      PROVE  LeaseInv'
  <2>1. /\ addr' = [addr EXCEPT ![r] = a] /\ sac' = [sac EXCEPT ![r] = s]
        /\ Held' = [Held EXCEPT ![r] = c] /\ UNCHANGED <<clock, heap, shut.pc = "up">>
        /\ c # None => heap[c] # None /\ heap[c].addr = a /\ heap[c].sac = s
    BY <1>3, HeldHere DEF Leases!Ask, Leases!Shares
  <2>2. ASSUME NEW o \in Reqs, Held'[o] # None
        PROVE  /\ heap[Held'[o]] # None /\ heap[Held'[o]].addr = addr'[o]
               /\ heap[Held'[o]].sac = sac'[o]
    <3>1. CASE o = r
      <4>1. Held'[o] = c /\ addr'[o] = a /\ sac'[o] = s
        BY <1>1, <2>1, <3>1
      <4>2. c # None
        BY <2>2, <4>1
      <4> QED BY <2>1, <4>1, <4>2
    <3>2. CASE o # r
      BY <1>1, <2>1, <2>2, <3>2, HeldHere
    <3> QED BY <3>1, <3>2
  <2> QED BY <1>1, <2>1, <2>2, PromiseHeld
<1>4. CASE Leases!Look(r) \/ Leases!Miss(r)
  BY <1>1, <1>4, HeldHere, PromiseHeld DEF Leases!Look, Leases!Miss
<1>5. ASSUME NEW c \in Clients, Leases!Find(r, c) PROVE LeaseInv'
  <2>1. /\ UNCHANGED <<addr, sac, clock, heap, shut.pc = "up">> /\ Held' = [Held EXCEPT ![r] = c]
        /\ heap[c] # None /\ heap[c].addr = addr[r] /\ heap[c].sac = sac[r]
    BY <1>5 DEF Leases!Find, Leases!IsFor, Leases!Exists
  <2> QED BY <1>1, <2>1, HeldHere, PromiseHeld
<1>6. ASSUME NEW Q \in SUBSET Reqs, Leases!Share(r, Q) PROVE LeaseInv'
  <2>1. /\ UNCHANGED <<addr, sac, clock, heap, shut.pc = "up">>
        /\ Held' = [q \in Reqs |-> IF q \in Q THEN Held[r] ELSE Held[q]]
        /\ Held[r] # None /\ \A q \in Q : addr[q] = addr[r] /\ sac[q] = sac[r]
    BY <1>6 DEF Leases!Share, Leases!Shares
  <2> QED BY <1>1, <2>1, HeldHere, PromiseHeld
<1>7. CASE Leases!Drop(r)
  <2>1. UNCHANGED <<addr, sac, clock, heap, shut.pc = "up">> /\ Held' = [Held EXCEPT ![r] = None]
    BY <1>7 DEF Leases!Drop
  <2> QED BY <1>1, <2>1, HeldHere, PromiseHeld
<1>8. CASE Leases!Leave(r)
  <2>1. /\ addr' = [addr EXCEPT ![r] = None] /\ sac' = [sac EXCEPT ![r] = None]
        /\ Held' = [Held EXCEPT ![r] = None] /\ UNCHANGED <<clock, heap, shut.pc = "up">>
    BY <1>8 DEF Leases!Leave
  <2> QED BY <1>1, <2>1, HeldHere, PromiseHeld
<1>9. ASSUME NEW c \in Clients, NEW h \in [id : HumanIDs, until : Time], Leases!Make(r, c, h)
      PROVE  LeaseInv'
  BY <1>9, PromiseMade
<1> QED BY <1>2, <1>3, <1>4, <1>5, <1>6, <1>7, <1>8, <1>9 DEF Leases!ReqNext

\* The steps of leases, of the shutdown and of time.
LEMMA PromiseLeases ==
  ASSUME LeaseInv,
         \/ \E C \in SUBSET Clients : Leases!Retire(C) \/ Leases!Close(C)
         \/ \E c \in Clients : Leases!Reclaim(c)
         \/ Leases!Shutdown \/ Leases!Tick
  PROVE  LeaseInv'
<1> None \notin Clients \cup Autodevices
  BY MarkersAssumption
<1> USE DEF LeaseInv
<1>1. ASSUME NEW C \in SUBSET Clients, Leases!Retire(C) \/ Leases!Close(C) PROVE LeaseInv'
  <2>1. /\ UNCHANGED <<clock, addr, sac, Held, shut.pc = "up">>
        /\ \A c \in C : heap[c] \in Autodevices
        /\ \A c \in Clients \ C : heap'[c] = heap[c]
        /\ heap' = [c \in Clients |-> heap'[c]]
    BY <1>1 DEF Leases!Retire, Leases!Close, Leases!Kept, Leases!Exists
  <2>2. ASSUME NEW c \in C
        PROVE  /\ heap'[c] \in Autodevices
               /\ heap'[c].addr = heap[c].addr /\ heap'[c].sac = heap[c].sac
               /\ heap'[c].id = heap[c].id /\ heap'[c].until = heap[c].until
               /\ heap'[c].closed = heap[c].closed \/ shut.pc # "up"
               /\ ~heap'[c].fin => ~heap[c].fin
    <3>1. heap[c] \in Autodevices
      BY <2>1, <2>2
    <3>2. CASE Leases!Retire(C)
      <4>1. heap'[c] = [heap[c] EXCEPT !.fin = TRUE]
        BY <2>2, <3>2 DEF Leases!Retire
      <4> QED BY ONLY <3>1, <4>1 DEF Autodevices
    <3>3. CASE Leases!Close(C)
      <4>1. heap'[c] = [heap[c] EXCEPT !.closed = TRUE] /\ shut.pc # "up"
        BY <2>2, <3>3 DEF Leases!Close
      <4> QED BY ONLY <3>1, <4>1 DEF Autodevices
    <3> QED BY <1>1, <3>2, <3>3
  <2>3. \A c \in Clients : (heap'[c] = None <=> heap[c] = None)
    BY <2>1, <2>2
  <2>4. \A c \in Clients : heap[c] # None =>
          /\ heap'[c].addr = heap[c].addr /\ heap'[c].sac = heap[c].sac
          /\ heap'[c].id = heap[c].id /\ heap'[c].until = heap[c].until
          /\ heap'[c].closed = heap[c].closed \/ shut.pc # "up"
          /\ ~heap'[c].fin => ~heap[c].fin
    BY <2>1, <2>2
  <2>5. Leases!OnePerPlace'
    BY <2>3, <2>4 DEF Leases!Promise, Leases!OnePerPlace, Leases!IsFor, Leases!Kept, Leases!Exists
  <2>6. Leases!HeldServes'
    BY <2>1, <2>3, <2>4 DEF Leases!Promise, Leases!HeldServes, Leases!IsFor, Leases!Exists
  <2>7. Leases!ValidIDsUnique'
    BY <2>1, <2>3, <2>4 DEF Leases!Promise, Leases!ValidIDsUnique, Leases!Exists
  <2>8. heap' \in [Clients -> Autodevices \cup {None}]
    BY <2>1, <2>2
  <2> QED BY <2>1, <2>3, <2>4, <2>5, <2>6, <2>7, <2>8 DEF Leases!Promise
<1>2. ASSUME NEW c \in Clients, Leases!Reclaim(c) PROVE LeaseInv'
  <2>1. /\ UNCHANGED <<clock, addr, sac, Held, shut.pc = "up">>
        /\ heap' \in [Clients -> Autodevices \cup {None}] /\ heap'[c] = None
        /\ \A d \in Clients \ {c} : heap'[d] = heap[d]
        /\ \A r \in Reqs : Held[r] # c
    BY <1>2 DEF Leases!Reclaim
  <2>2. Leases!OnePerPlace'
    BY <2>1 DEF Leases!Promise, Leases!OnePerPlace, Leases!IsFor, Leases!Kept, Leases!Exists
  <2>3. Leases!HeldServes'
    BY <2>1 DEF Leases!Promise, Leases!HeldServes, Leases!IsFor, Leases!Exists
  <2>4. Leases!ValidIDsUnique'
    BY <2>1 DEF Leases!Promise, Leases!ValidIDsUnique, Leases!Exists
  <2> QED BY <2>1, <2>2, <2>3, <2>4 DEF Leases!Promise
<1>3. CASE Leases!Shutdown
  BY <1>3 DEF Leases!Shutdown, Leases!Promise, Leases!OnePerPlace, Leases!HeldServes,
              Leases!ValidIDsUnique, Leases!IsFor, Leases!Kept, Leases!Exists
<1>4. CASE Leases!Tick
  <2>1. clock' = clock + 1 /\ UNCHANGED <<addr, sac, Held, heap, shut.pc = "up">>
    BY <1>4 DEF Leases!Tick
  <2>2. \A c \in Clients : heap[c] # None => heap[c].until \in Nat
    BY DEF Autodevices, Time
  <2>3. Leases!ValidIDsUnique'
    BY <2>1, <2>2 DEF Leases!Promise, Leases!ValidIDsUnique, Leases!Exists
  <2> QED BY <2>1, <2>3 DEF Leases!Promise, Leases!OnePerPlace, Leases!HeldServes,
                             Leases!IsFor, Leases!Kept, Leases!Exists
<1> QED BY <1>1, <1>2, <1>3, <1>4

\* What the storage implements is worth having: ClientLeases by itself keeps one
\* client per place, gives requests open clients of their own, and gives no valid
\* ID to two addresses.
THEOREM LeasesPromise == Leases!Spec => []Leases!Promise
<1>1. Leases!Init => LeaseInv
  BY MarkersAssumption
     DEF Leases!Init, LeaseInv, Leases!Promise, Leases!OnePerPlace, Leases!HeldServes,
         Leases!ValidIDsUnique, Leases!IsFor, Leases!Kept, Leases!Exists
<1>2. LeaseInv /\ [Leases!Next]_(Leases!vars) => LeaseInv'
  <2> SUFFICES ASSUME LeaseInv, [Leases!Next]_(Leases!vars) PROVE LeaseInv'
    OBVIOUS
  <2>1. CASE Leases!Next
    BY <2>1, PromiseRequests, PromiseLeases DEF Leases!Next
  <2>2. CASE UNCHANGED Leases!vars
    <3>1. UNCHANGED <<clock, addr, sac, Held, heap, shut.pc = "up">>
      BY <2>2 DEF Leases!vars
    <3> QED BY <3>1, HeldHere, PromiseHeld DEF LeaseInv
  <2> QED BY <2>1, <2>2
<1>3. LeaseInv => Leases!Promise
  BY DEF LeaseInv
<1> QED BY <1>1, <1>2, <1>3, PTL DEF Leases!Spec
=============================================================================
