------------------------ MODULE ClientStorageProofs ------------------------
(***************************************************************************)
(* Proofs about ClientStorage, for every set of requests, addresses and    *)
(* clients, every list of configurations and every bound.                  *)
(*                                                                         *)
(* The invariant says of each Get where it is in the two queues, whose own *)
(* invariants come from QueueProofs, and of the maps which clients and IDs *)
(* they hold.  A step of a Get leaves the other Gets alone (Framed); what  *)
(* it does to the maps can disturb another Get only through the storage,   *)
(* where the queues keep the two from being about the same key.            *)
(***************************************************************************)
EXTENDS ClientStorage, TLAPS

\* The queues again, with what is proved about them.
SP == INSTANCE QueueProofs WITH
        Procs <- Reqs, Keys <- [addr : Addrs, domain : Domains],
        Results <- Clients \cup {Err},
        entry <- sEntry, st <- sSt, key <- sKey, got <- sGot

IP == INSTANCE QueueProofs WITH
        Procs <- Reqs, Keys <- Addrs, Results <- Hids \cup {Err},
        entry <- iEntry, st <- iSt, key <- iKey, got <- iGot

----------------------------------------------------------------------------
(* The inductive invariant *)

\* The steps of a Get that owns its search, and those with an empty place in
\* sac.clients.
Searching == {"clock", "find", "identify", "iwait", "source", "check", "idone", "create"}
Emptied   == Searching \ {"clock", "find"}

\* Each Get is in the queues as its step says, under the keys of its own.
InSearchQueue(r) ==
  /\ pc[r] \in {"idle", "resolve"} => sSt[r] = "idle"
  /\ pc[r] = "search" => sSt[r] = "wait"
  /\ pc[r] \in Searching => sSt[r] = "own"
  /\ pc[r] = "sdone" => sSt[r] \in {"set", "closed"}
  /\ pc[r] \notin {"idle", "resolve"} =>
       /\ addr[r] \in Addrs /\ sac[r] \in SacIdx
       /\ sKey[r] = SearchRequest(addr[r], sac[r])
       /\ \E q \in Questions : FirstMatch(sac[r], addr[r], q)
  /\ pc[r] # "search" => sGot[r] = NotYet

InIdentifyQueue(r) ==
  /\ pc[r] \notin {"iwait", "source", "check", "idone"} => iSt[r] = "idle"
  /\ pc[r] = "iwait" => iSt[r] = "wait"
  /\ pc[r] \in {"source", "check"} => iSt[r] = "own"
  /\ pc[r] = "idone" => iSt[r] \in {"set", "closed"}
  /\ pc[r] \in {"iwait", "source", "check", "idone"} => iKey[r] = addr[r]
  /\ pc[r] # "iwait" => iGot[r] = NotYet

\* The locals of a Get, by its step.
Locals(r) ==
  /\ pc[r] \in {"find", "identify", "iwait", "source", "check", "idone"} =>
       now[r] \in Time /\ now[r] <= clock
  /\ pc[r] \in {"check", "create"} => hid[r] \in Hids
  /\ pc[r] \notin {"sdone", "resolve"} => cli[r] = None
  /\ pc[r] \in Emptied => clients[sac[r]][addr[r]] = None

\* What done has set is what the Get goes on with.
OwnResults(r) ==
  /\ pc[r] = "sdone" => sEntry[sKey[r]].out = IF cli[r] = None THEN Err ELSE cli[r]
  /\ pc[r] = "idone" => iEntry[iKey[r]].out = IF hid[r] = None THEN Err ELSE hid[r]

\* c exists, and was made for a and s.
Made(c, a, s) == heap[c] # None /\ heap[c].addr = a /\ heap[c].sac = s

\* Whatever refers to a client refers to one that exists and is its own.
RefsOf(r) ==
  /\ cli[r] # None => Made(cli[r], addr[r], sac[r])
  /\ sGot[r] \in Clients => Made(sGot[r], addr[r], sac[r])

StoredMade ==
  \A s \in SacIdx, a \in Addrs :
    clients[s][a] # None => Made(clients[s][a], a, s) /\ ~heap[clients[s][a]].fin

\* While h is valid, the storage knows that it belongs to a, for at least as long.
Registered(id, until, a) ==
  until > clock =>
    identified[id] # None /\ identified[id].addr = a /\ identified[id].until >= until

\* All IDs in use are registered; one that is about to be does not shorten what
\* the address has.
IDsOf(r) ==
  /\ pc[r] \in {"idone", "create"} /\ hid[r] # None =>
       Registered(hid[r].id, hid[r].until, addr[r])
  /\ iGot[r] \in Hids => Registered(iGot[r].id, iGot[r].until, addr[r])
  /\ /\ pc[r] = "check"
     /\ identified[hid[r].id] # None
     /\ identified[hid[r].id].addr = addr[r]
     /\ identified[hid[r].id].until > clock
     => identified[hid[r].id].until <= hid[r].until

ClientIDs ==
  \A c \in Clients :
    heap[c] # None => Registered(heap[c].id, heap[c].until, heap[c].addr)

\* The collector and Shutdown are at a sac, and the collector's time has come;
\* nothing is closed before Shutdown.
Background ==
  /\ gc.pc \in {"clients", "identified"} => gc.now \in Time /\ gc.now <= clock
  /\ gc.pc = "clients" => gc.sac \in SacIdx
  /\ shut.pc = "closing" => shut.sac \in SacIdx
  /\ shut.pc = "up" => \A c \in Clients : heap[c] # None => ~heap[c].closed

IInv ==
  /\ TypeOK
  /\ SP!IInv
  /\ IP!IInv
  /\ \A r \in Reqs : /\ InSearchQueue(r) /\ InIdentifyQueue(r) /\ Locals(r) /\ OwnResults(r)
                     /\ RefsOf(r) /\ IDsOf(r)
  /\ StoredMade
  /\ StoredXorFinalized
  /\ ClientIDs
  /\ Background
----------------------------------------------------------------------------
(* The queues in the storage *)

\* Both queues are used with results that are never the zero value.
LEMMA SearchResults == SP!ResultsAssumption
  BY MarkersAssumption DEF SP!ResultsAssumption

\* The same for identifyQueue.
LEMMA IdentifyResults == IP!ResultsAssumption
  BY MarkersAssumption DEF IP!ResultsAssumption

\* The storage's operations on its queues are the ones that QueueProofs is about.
LEMMA SearchOps ==
  ASSUME NEW r
  PROVE  /\ \A k \in [addr : Addrs, domain : Domains] :
              /\ SQ!PushStore(r, k) => SP!PushStore(r, k) /\ SP!ProcStep(r)
              /\ SQ!PushLoad(r, k) => SP!PushLoad(r, k) /\ SP!ProcStep(r)
         /\ SQ!Recv(r) \/ SQ!Cancel(r) => SP!ProcStep(r)
         /\ \A c \in Clients \cup {Err} :
              SQ!DoneSet(r, c) => SP!DoneSet(r, c) /\ SP!ProcStep(r)
         /\ SQ!DoneClose(r) \/ SQ!DoneDelete(r) => SP!ProcStep(r)
  BY DEF SQ!PushStore, SQ!PushLoad, SQ!Recv, SQ!Cancel, SQ!DoneSet, SQ!DoneClose,
         SQ!DoneDelete, SQ!NewQueueResult, SP!PushStore, SP!PushLoad, SP!Recv, SP!Cancel,
         SP!DoneSet, SP!DoneClose, SP!DoneDelete, SP!NewQueueResult, SP!ProcStep

\* The same for identifyQueue.
LEMMA IdentifyOps ==
  ASSUME NEW r
  PROVE  /\ \A k \in Addrs :
              /\ IQ!PushStore(r, k) => IP!PushStore(r, k) /\ IP!ProcStep(r)
              /\ IQ!PushLoad(r, k) => IP!PushLoad(r, k) /\ IP!ProcStep(r)
         /\ IQ!Recv(r) \/ IQ!Cancel(r) => IP!ProcStep(r)
         /\ \A h \in Hids \cup {Err} :
              IQ!DoneSet(r, h) => IP!DoneSet(r, h) /\ IP!ProcStep(r)
         /\ IQ!DoneClose(r) \/ IQ!DoneDelete(r) => IP!ProcStep(r)
  BY DEF IQ!PushStore, IQ!PushLoad, IQ!Recv, IQ!Cancel, IQ!DoneSet, IQ!DoneClose,
         IQ!DoneDelete, IQ!NewQueueResult, IP!PushStore, IP!PushLoad, IP!Recv, IP!Cancel,
         IP!DoneSet, IP!DoneClose, IP!DoneDelete, IP!NewQueueResult, IP!ProcStep

\* Their type invariants, too.
LEMMA QueueTypes == (SP!IInv => SQ!TypeOK) /\ (IP!IInv => IQ!TypeOK)
  BY DEF SP!IInv, SP!TypeOK, SP!EntryType, SQ!TypeOK, SQ!EntryType,
         IP!IInv, IP!TypeOK, IP!EntryType, IQ!TypeOK, IQ!EntryType

\* The key of a search is one of searchQueue's.
LEMMA SearchKey ==
  ASSUME NEW a \in Addrs, NEW s \in SacIdx
  PROVE  SearchRequest(a, s) \in [addr : Addrs, domain : Domains]
<1> DEFINE S == [prefix : SUBSET Addrs, domain : Domains]
<1>1. Sacs \in Seq(S)
  BY StorageAssumption
<1> HIDE DEF S
<1>2. Sacs[s] \in S
  BY <1>1 DEF SacIdx
<1> USE DEF S
<1> QED BY <1>2 DEF SearchRequest

----------------------------------------------------------------------------
(* What the steps of a Get have in common *)

Request(r) == Get(r) \/ Proceed(r) \/ Cancel(r)

\* The locals of other Gets, the clock and the background goroutines are left
\* alone, and each queue takes a step of r or none.
Framed(r) ==
  /\ \A o \in Reqs \ {r} : /\ pc'[o] = pc[o] /\ addr'[o] = addr[o] /\ sac'[o] = sac[o]
                           /\ now'[o] = now[o] /\ hid'[o] = hid[o] /\ cli'[o] = cli[o]
  /\ SP!ProcStep(r) \/ UNCHANGED sq
  /\ IP!ProcStep(r) \/ UNCHANGED iq
  /\ UNCHANGED bg

\* A search that ends sets its result and changes no other Get.
LEMMA SearchEndsFrame ==
  ASSUME TypeOK, NEW r \in Reqs, NEW c \in Clients \cup {None}, SearchEnds(r, c)
  PROVE  /\ \A o \in Reqs \ {r} : pc'[o] = pc[o] /\ cli'[o] = cli[o]
         /\ pc'[r] = "sdone" /\ cli'[r] = c
         /\ SP!DoneSet(r, IF c = None THEN Err ELSE c)
         /\ SP!ProcStep(r)
  BY SearchOps DEF SearchEnds, TypeOK

\* A Get that has its ID, or none, changes no other Get.
LEMMA IdentifiedFrame ==
  ASSUME TypeOK, NEW r \in Reqs, NEW h \in Hids \cup {None}, Identified(r, h)
  PROVE  /\ \A o \in Reqs \ {r} : /\ pc'[o] = pc[o] /\ cli'[o] = cli[o]
                                  /\ hid'[o] = hid[o] /\ now'[o] = now[o]
         /\ SP!ProcStep(r) \/ UNCHANGED sq
         /\ hid'[r] = h
  <1>1. CASE h = None
    BY <1>1, SearchEndsFrame DEF Identified, TypeOK
  <1>2. CASE h # None
    BY <1>2 DEF Identified, TypeOK
  <1> QED BY <1>1, <1>2

\* An identification that ends sets its result and changes no other Get.
LEMMA IdentifyEndsFrame ==
  ASSUME TypeOK, NEW r \in Reqs, NEW h \in Hids \cup {None}, IdentifyEnds(r, h)
  PROVE  /\ \A o \in Reqs \ {r} : pc'[o] = pc[o] /\ hid'[o] = hid[o]
         /\ pc'[r] = "idone" /\ hid'[r] = h
         /\ IP!DoneSet(r, IF h = None THEN Err ELSE h)
         /\ IP!ProcStep(r)
  BY IdentifyOps DEF IdentifyEnds, TypeOK

\* Entering Get changes no other Get.
LEMMA GetFrame ==
  ASSUME IInv, NEW r \in Reqs, Get(r)
  PROVE  Framed(r)
<1> USE DEF Framed, IInv
<1>1. ASSUME NEW a \in Addrs, NEW q \in Questions, GetStatic(r, a, q) PROVE Framed(r)
  BY <1>1 DEF GetStatic, TypeOK
<1>2. ASSUME NEW a \in Addrs, NEW q \in Questions, GetOwn(r, a, q) \/ GetWait(r, a, q)
      PROVE  Framed(r)
  <2>1. PICK s \in SacIdx :
          /\ GetAutodevice(r, a, q, s)
          /\ SQ!PushStore(r, SearchRequest(a, s)) \/ SQ!PushLoad(r, SearchRequest(a, s))
          /\ \E v : pc' = [pc EXCEPT ![r] = v]
    BY <1>2 DEF GetOwn, GetWait
  <2>2. SP!ProcStep(r)
    BY <2>1, SearchKey, SearchOps
  <2> QED BY <2>1, <2>2 DEF GetAutodevice, TypeOK
<1> QED BY <1>1, <1>2 DEF Get

\* A step of a Get on its way, its cancellation included, changes no other Get.
LEMMA ProceedFrame ==
  ASSUME IInv, NEW r \in Reqs, Proceed(r) \/ Cancel(r)
  PROVE  Framed(r)
<1> USE DEF Framed, IInv
<1>0. /\ pc[r] \in Searching => sac[r] \in SacIdx /\ addr[r] \in Addrs
      /\ hid[r] \in Hids \cup {None}
      /\ iGot[r] \in Hids \cup {Err, Zero, NotYet}
  BY DEF InSearchQueue, Searching, TypeOK, IQ!TypeOK
<1>1. CASE SearchRecv(r) \/ SearchCancel(r)
  BY <1>1, SearchOps DEF SearchRecv, SearchCancel, TypeOK
<1>2. CASE ReadClock(r) \/ FindExpired(r) \/ Resolve(r) \/ SourceAnswers(r)
  BY <1>2 DEF ReadClock, FindExpired, Resolve, SourceAnswers, TypeOK
<1>3. CASE FindStored(r)
  <2>1. clients[sac[r]][addr[r]] \in Clients \cup {None}
    BY <1>0, <1>3 DEF FindStored, Searching, TypeOK
  <2> QED BY <1>3, <2>1, SearchEndsFrame DEF FindStored, TypeOK
<1>4. CASE IdentifyOwn(r) \/ IdentifyWait(r)
  BY <1>0, <1>4, IdentifyOps DEF IdentifyOwn, IdentifyWait, Searching, TypeOK
<1>5. CASE IdentifyRecv(r)
  <2>1. IP!ProcStep(r)
    BY <1>5, IdentifyOps DEF IdentifyRecv
  <2>2. CASE iGot[r] = Zero
    BY <1>5, <2>1, <2>2 DEF IdentifyRecv, TypeOK
  <2>3. CASE iGot[r] # Zero
    <3>1. (IF iGot[r] = Err THEN None ELSE iGot[r]) \in Hids \cup {None}
      BY <1>0, <1>5, <2>3 DEF IdentifyRecv, IQ!Recv
    <3>2. Identified(r, IF iGot[r] = Err THEN None ELSE iGot[r])
      BY <1>5, <2>3 DEF IdentifyRecv
    <3> QED BY <1>5, <2>1, <3>1, <3>2, IdentifiedFrame DEF IdentifyRecv
  <2> QED BY <2>2, <2>3
<1>6. CASE IdentifyCancel(r)
  BY <1>6, IdentifyOps, IdentifiedFrame DEF IdentifyCancel
<1>7. CASE SourceFails(r)
  BY <1>7, IdentifyEndsFrame DEF SourceFails
<1>8. CASE CheckIdentity(r)
  BY <1>0, <1>8, IdentifyEndsFrame DEF CheckIdentity
<1>9. CASE IdentifyDoneClose(r) \/ SearchDoneClose(r)
  BY <1>9, IdentifyOps, SearchOps DEF IdentifyDoneClose, SearchDoneClose, locals
<1>10. CASE IdentifyDoneDelete(r)
  BY <1>0, <1>10, IdentifyOps, IdentifiedFrame DEF IdentifyDoneDelete
<1>11. CASE Create(r) \/ CreateFails(r)
  <2>1. PICK c \in Clients \cup {None} : SearchEnds(r, c)
    BY <1>11 DEF Create, CreateFails
  <2> QED BY <1>11, <2>1, SearchEndsFrame DEF Create, CreateFails, TypeOK
<1>12. CASE SearchDoneDelete(r)
  BY <1>12, SearchOps DEF SearchDoneDelete, TypeOK
<1> QED BY <1>1, <1>2, <1>3, <1>4, <1>5, <1>6, <1>7, <1>8, <1>9, <1>10, <1>11, <1>12
        DEF Proceed, Cancel

\* A step of a Get keeps the invariants of both queues.
LEMMA FrameQueues ==
  ASSUME IInv, NEW r \in Reqs, Framed(r)
  PROVE  SP!IInv' /\ IP!IInv' /\ SQ!TypeOK' /\ IQ!TypeOK'
<1>1. SP!IInv'
  BY SearchResults, SP!StepIInv DEF IInv, Framed, SP!Next, SP!qvars, sq
<1>2. IP!IInv'
  BY IdentifyResults, IP!StepIInv DEF IInv, Framed, IP!Next, IP!qvars, iq
<1>3. SQ!TypeOK' /\ IQ!TypeOK'
  BY <1>1, <1>2, QueueTypes, PTL
<1> QED BY <1>1, <1>2, <1>3

\* The prefix is not in the search's key and need not be: the first match of an
\* address for a domain is the same whatever the question.
LEMMA SameFirst ==
  ASSUME NEW a, NEW b, NEW s \in SacIdx, NEW t \in SacIdx,
         SearchRequest(a, s) = SearchRequest(b, t),
         \E q \in Questions : FirstMatch(s, a, q), \E q \in Questions : FirstMatch(t, b, q)
  PROVE  a = b /\ s = t
<1>1. a = b /\ Sacs[s].domain = Sacs[t].domain
  BY DEF SearchRequest
<1>2. PICK q1 \in Questions, q2 \in Questions : FirstMatch(s, a, q1) /\ FirstMatch(t, b, q2)
  OBVIOUS
<1>3. t \in Candidates(a, q1) /\ s \in Candidates(b, q2)
  BY <1>1, <1>2 DEF FirstMatch, Candidates, Matches
<1>4. s <= t /\ t <= s
  BY <1>2, <1>3 DEF FirstMatch
<1> QED BY <1>1, <1>4 DEF SacIdx

\* Two Gets under one key of searchQueue are about one configuration and address.
LEMMA SameSearch ==
  ASSUME IInv, NEW r \in Reqs, NEW o \in Reqs,
         pc[r] \notin {"idle", "resolve"}, pc[o] \notin {"idle", "resolve"},
         sKey[r] = sKey[o]
  PROVE  addr[r] = addr[o] /\ sac[r] = sac[o]
  BY SameFirst DEF IInv, InSearchQueue

\* Owners of searches have different places in sac.clients.
LEMMA OwnPlace ==
  ASSUME IInv, NEW r \in Reqs, NEW o \in Reqs \ {r},
         pc[r] \in Searching, pc[o] \in Searching
  PROVE  sac[r] # sac[o] \/ addr[r] # addr[o]
<1> SUFFICES ASSUME sac[r] = sac[o], addr[r] = addr[o] PROVE FALSE
  OBVIOUS
<1>1. sKey[r] = sKey[o] /\ sSt[r] = "own" /\ sSt[o] = "own"
  BY DEF IInv, InSearchQueue, Searching
<1>2. sKey[r] \in [addr : Addrs, domain : Domains]
  BY <1>1 DEF IInv, SP!IInv, SP!EntryInFlight
<1> QED BY <1>1, <1>2 DEF IInv, SP!IInv, SP!SingleFlight, SP!Owns

\* And identify different addresses.
LEMMA OwnAddress ==
  ASSUME IInv, NEW r \in Reqs, NEW o \in Reqs \ {r},
         pc[r] \in {"source", "check"}, pc[o] \in {"source", "check"}
  PROVE  addr[r] # addr[o]
<1> SUFFICES ASSUME addr[r] = addr[o] PROVE FALSE
  OBVIOUS
<1>1. iKey[r] = iKey[o] /\ iSt[r] = "own" /\ iSt[o] = "own"
  BY DEF IInv, InIdentifyQueue
<1>2. iKey[r] \in Addrs
  BY <1>1 DEF IInv, IP!IInv, IP!EntryInFlight
<1> QED BY <1>1, <1>2 DEF IInv, IP!IInv, IP!SingleFlight, IP!Owns

\* What r's step means to another Get: it stays where it is in the queues.
LEMMA OtherInQueues ==
  ASSUME IInv, NEW r \in Reqs, Framed(r), NEW o \in Reqs \ {r}
  PROVE  InSearchQueue(o)' /\ InIdentifyQueue(o)' /\ OwnResults(o)'
<1> USE DEF IInv
<1>1. /\ sSt'[o] = sSt[o] /\ sKey'[o] = sKey[o]
      /\ sSt[o] # "wait" => sGot'[o] = sGot[o]
      /\ sSt[o] \in {"own", "set", "closed"} => sEntry'[sKey[o]].out = sEntry[sKey[o]].out
  <2>1. CASE UNCHANGED sq
    BY <2>1 DEF sq
  <2>2. CASE SP!ProcStep(r)
    BY <2>2, SearchResults, SP!OthersKept
  <2> QED BY <2>1, <2>2 DEF Framed
<1>2. /\ iSt'[o] = iSt[o] /\ iKey'[o] = iKey[o]
      /\ iSt[o] # "wait" => iGot'[o] = iGot[o]
      /\ iSt[o] \in {"own", "set", "closed"} => iEntry'[iKey[o]].out = iEntry[iKey[o]].out
  <2>1. CASE UNCHANGED iq
    BY <2>1 DEF iq
  <2>2. CASE IP!ProcStep(r)
    BY <2>2, IdentifyResults, IP!OthersKept
  <2> QED BY <2>1, <2>2 DEF Framed
<1>3. /\ pc'[o] = pc[o] /\ addr'[o] = addr[o] /\ sac'[o] = sac[o]
      /\ hid'[o] = hid[o] /\ cli'[o] = cli[o]
  BY DEF Framed
<1>4. InSearchQueue(o)'
  <2>1. pc[o] # "search" => sSt[o] # "wait"
    BY DEF InSearchQueue, TypeOK, Searching
  <2>2. InSearchQueue(o)
    OBVIOUS
  <2> QED BY <1>1, <1>3, <2>1, <2>2 DEF InSearchQueue, SearchRequest, FirstMatch, Candidates, Matches
<1>5. InIdentifyQueue(o)'
  <2>1. pc[o] # "iwait" => iSt[o] # "wait"
    BY DEF InIdentifyQueue, TypeOK
  <2> QED BY <1>2, <1>3, <2>1 DEF InIdentifyQueue
<1>6. OwnResults(o)'
  <2>1. /\ pc[o] = "sdone" => sSt[o] \in {"own", "set", "closed"}
        /\ pc[o] = "idone" => iSt[o] \in {"own", "set", "closed"}
    BY DEF InSearchQueue, InIdentifyQueue
  <2> QED BY <1>1, <1>2, <1>3, <2>1 DEF OwnResults
<1> QED BY <1>4, <1>5, <1>6

\* Whatever another Get is handed by r is its own client, or its own ID.
LEMMA OtherHanded ==
  ASSUME IInv, NEW r \in Reqs, Framed(r), NEW o \in Reqs \ {r}
  PROVE  /\ sGot'[o] \in Clients => Made(sGot'[o], addr[o], sac[o])
         /\ iGot'[o] \in Hids => Registered(iGot'[o].id, iGot'[o].until, addr[o])
<1> USE DEF IInv
<1>1. ASSUME sGot'[o] \in Clients PROVE Made(sGot'[o], addr[o], sac[o])
  <2>1. \/ sGot'[o] = sGot[o]
        \/ /\ sSt[o] = "wait" /\ sSt[r] = "set" /\ sKey[o] = sKey[r]
           /\ sGot'[o] = sEntry[sKey[r]].out
    <3>1. CASE UNCHANGED sq
      BY <3>1 DEF sq
    <3>2. CASE SP!ProcStep(r)
      BY <3>2, SearchResults, SP!OthersKept
    <3> QED BY <3>1, <3>2 DEF Framed
  <2>2. CASE sGot'[o] = sGot[o]
    BY <1>1, <2>2 DEF RefsOf
  <2>3. CASE /\ sSt[o] = "wait" /\ sSt[r] = "set" /\ sKey[o] = sKey[r]
             /\ sGot'[o] = sEntry[sKey[r]].out
    <3>1. pc[o] = "search" /\ pc[r] = "sdone"
      BY <2>3 DEF InSearchQueue, TypeOK, Searching
    <3>2. cli[r] # None /\ sGot'[o] = cli[r]
      BY <1>1, <2>3, <3>1, MarkersAssumption DEF OwnResults
    <3>3. addr[r] = addr[o] /\ sac[r] = sac[o]
      BY <2>3, <3>1, SameSearch
    <3> QED BY <3>2, <3>3 DEF RefsOf
  <2> QED BY <2>1, <2>2, <2>3
<1>2. ASSUME iGot'[o] \in Hids PROVE Registered(iGot'[o].id, iGot'[o].until, addr[o])
  <2>1. \/ iGot'[o] = iGot[o]
        \/ /\ iSt[o] = "wait" /\ iSt[r] = "set" /\ iKey[o] = iKey[r]
           /\ iGot'[o] = iEntry[iKey[r]].out
    <3>1. CASE UNCHANGED iq
      BY <3>1 DEF iq
    <3>2. CASE IP!ProcStep(r)
      BY <3>2, IdentifyResults, IP!OthersKept
    <3> QED BY <3>1, <3>2 DEF Framed
  <2>2. CASE iGot'[o] = iGot[o]
    BY <1>2, <2>2 DEF IDsOf
  <2>3. CASE /\ iSt[o] = "wait" /\ iSt[r] = "set" /\ iKey[o] = iKey[r]
             /\ iGot'[o] = iEntry[iKey[r]].out
    <3>1. pc[o] = "iwait" /\ pc[r] = "idone"
      BY <2>3 DEF InIdentifyQueue, TypeOK
    <3>2. hid[r] # None /\ iGot'[o] = hid[r]
      BY <1>2, <2>3, <3>1, MarkersAssumption DEF OwnResults
    <3>3. addr[r] = addr[o]
      BY <2>3, <3>1 DEF InIdentifyQueue
    <3> QED BY <3>1, <3>2, <3>3 DEF IDsOf
  <2> QED BY <2>1, <2>2, <2>3
<1> QED BY <1>1, <1>2
----------------------------------------------------------------------------
(* The parts of the invariant that a step of r changes *)

Own(r) ==
  InSearchQueue(r) /\ InIdentifyQueue(r) /\ Locals(r) /\ OwnResults(r) /\ RefsOf(r) /\ IDsOf(r)

LocalTypes ==
  /\ pc \in [Reqs -> {"idle", "search", "clock", "find", "identify", "iwait",
                      "source", "check", "idone", "create", "sdone", "resolve"}]
  /\ addr \in [Reqs -> Addrs \cup {None}]
  /\ sac \in [Reqs -> SacIdx \cup {None}]
  /\ now \in [Reqs -> Time \cup {None}]
  /\ hid \in [Reqs -> Hids \cup {None}]
  /\ cli \in [Reqs -> Clients \cup {None}]

\* A step that leaves the storage's maps alone.
LEMMA QuietStep ==
  ASSUME IInv, NEW r \in Reqs, Framed(r), UNCHANGED <<clients, heap, identified>>,
         LocalTypes', Own(r)'
  PROVE  IInv'
<1>1. TypeOK' /\ SP!IInv' /\ IP!IInv'
  BY FrameQueues DEF IInv, TypeOK, LocalTypes, Framed, bg
<1>2. ASSUME NEW o \in Reqs \ {r} PROVE Own(o)'
  <2>1. InSearchQueue(o)' /\ InIdentifyQueue(o)' /\ OwnResults(o)'
    BY OtherInQueues
  <2>2. /\ sGot'[o] \in Clients => Made(sGot'[o], addr[o], sac[o])
        /\ iGot'[o] \in Hids => Registered(iGot'[o].id, iGot'[o].until, addr[o])
    BY OtherHanded
  <2>3. /\ pc'[o] = pc[o] /\ addr'[o] = addr[o] /\ sac'[o] = sac[o] /\ now'[o] = now[o]
        /\ hid'[o] = hid[o] /\ cli'[o] = cli[o] /\ clock' = clock
    BY DEF Framed, bg
  <2>4. Locals(o)'
    BY <2>3 DEF IInv, Locals, Emptied, Searching
  <2>5. RefsOf(o)'
    BY <2>2, <2>3 DEF IInv, RefsOf, Made
  <2>6. IDsOf(o)'
    BY <2>2, <2>3 DEF IInv, IDsOf, Registered
  <2> QED BY <2>1, <2>4, <2>5, <2>6 DEF Own
<1>3. StoredMade' /\ StoredXorFinalized' /\ ClientIDs' /\ Background'
  BY DEF IInv, StoredMade, StoredXorFinalized, ClientIDs, Background, Made, Stored,
         Registered, Framed, bg
<1> QED BY <1>1, <1>2, <1>3 DEF IInv, Own

\* The search of r ends with c, or with an error.
LEMMA SearchEndsOwn ==
  ASSUME IInv, NEW r \in Reqs, pc[r] \in Searching, NEW c \in Clients \cup {None},
         SearchEnds(r, c), UNCHANGED <<addr, sac>>, iSt'[r] = "idle", iGot'[r] = NotYet,
         c # None => Made(c, addr[r], sac[r])'
  PROVE  Own(r)'
<1> USE DEF IInv
<1>1. /\ sEntry'[sKey[r]].out = (IF c = None THEN Err ELSE c)
      /\ sSt'[r] = "set" /\ sKey'[r] = sKey[r] /\ sGot'[r] = sGot[r]
  BY SearchEndsFrame, SearchResults, SP!DoneSetSets
<1>2. pc'[r] = "sdone" /\ cli'[r] = c
  BY SearchEndsFrame
<1>3. sGot[r] = NotYet /\ NotYet \notin Clients \cup Hids
  BY MarkersAssumption DEF InSearchQueue, Searching
<1>4. InSearchQueue(r)'
  BY <1>1, <1>2, <1>3 DEF InSearchQueue, Searching, SearchRequest, FirstMatch, Candidates, Matches
<1>5. InIdentifyQueue(r)' /\ Locals(r)' /\ OwnResults(r)'
  BY <1>1, <1>2 DEF InIdentifyQueue, Locals, OwnResults, Emptied, Searching
<1>6. RefsOf(r)' /\ IDsOf(r)'
  BY <1>1, <1>2, <1>3 DEF RefsOf, IDsOf
<1> QED BY <1>4, <1>5, <1>6 DEF Own

\* identify has returned h to r.
LEMMA IdentifiedOwn ==
  ASSUME IInv, NEW r \in Reqs, pc[r] \in {"iwait", "idone"}, NEW h \in Hids \cup {None},
         Identified(r, h), UNCHANGED <<addr, sac, clients, identified, clock>>,
         iSt'[r] = "idle", iGot'[r] = NotYet,
         h # None => Registered(h.id, h.until, addr[r])
  PROVE  Own(r)' /\ LocalTypes'
<1> USE DEF IInv
<1>1. CASE h = None
  <2>1. SearchEnds(r, None)
    BY <1>1 DEF Identified
  <2>2. Own(r)'
    BY <2>1, SearchEndsOwn DEF Searching
  <2>3. LocalTypes'
    BY <2>1 DEF SearchEnds, Identified, LocalTypes, TypeOK
  <2> QED BY <2>2, <2>3
<1>2. CASE h # None
  <2>1. /\ pc'[r] = "create" /\ hid'[r] = h /\ UNCHANGED <<cli, sEntry, sSt, sKey, sGot>>
        /\ h \in Hids /\ LocalTypes'
    BY <1>2 DEF Identified, TypeOK, LocalTypes, sq
  <2>2. NotYet \notin Clients \cup Hids
    BY MarkersAssumption
  <2>3. InSearchQueue(r)'
    BY <2>1 DEF InSearchQueue, Searching, SearchRequest, FirstMatch, Candidates, Matches
  <2>4. InIdentifyQueue(r)' /\ Locals(r)' /\ OwnResults(r)'
    BY <2>1 DEF InIdentifyQueue, Locals, OwnResults, Emptied, Searching
  <2>5. sGot[r] = NotYet
    BY DEF InSearchQueue
  <2>6. RefsOf(r)' /\ IDsOf(r)'
    BY <1>2, <2>1, <2>2, <2>5 DEF RefsOf, IDsOf, Registered, Locals
  <2> QED BY <2>1, <2>3, <2>4, <2>6 DEF Own
<1> QED BY <1>1, <1>2

\* identify's own search ends with h, or with an error.
LEMMA IdentifyEndsOwn ==
  ASSUME IInv, NEW r \in Reqs, pc[r] \in {"source", "check"}, NEW h \in Hids \cup {None},
         IdentifyEnds(r, h), UNCHANGED <<addr, sac, now, cli, sEntry, sSt, sKey, sGot, clients, clock>>,
         h # None => Registered(h.id, h.until, addr[r])'
  PROVE  Own(r)' /\ LocalTypes'
<1> USE DEF IInv
<1>1. /\ iEntry'[iKey[r]].out = (IF h = None THEN Err ELSE h)
      /\ iSt'[r] = "set" /\ iKey'[r] = iKey[r] /\ iGot'[r] = iGot[r]
  BY IdentifyEndsFrame, IdentifyResults, IP!DoneSetSets
<1>2. pc'[r] = "idone" /\ hid'[r] = h
  BY IdentifyEndsFrame
<1>3. LocalTypes'
  BY DEF IdentifyEnds, LocalTypes, TypeOK
<1>4. sGot[r] = NotYet /\ iGot[r] = NotYet /\ NotYet \notin Clients \cup Hids /\ cli[r] = None
  BY MarkersAssumption DEF InSearchQueue, InIdentifyQueue, Locals
<1>5. InSearchQueue(r)'
  BY <1>2 DEF InSearchQueue, Searching, SearchRequest, FirstMatch, Candidates, Matches
<1>6. InIdentifyQueue(r)' /\ Locals(r)' /\ OwnResults(r)'
  BY <1>1, <1>2, <1>4 DEF InIdentifyQueue, Locals, OwnResults, Emptied, Searching
<1>7. RefsOf(r)' /\ IDsOf(r)'
  BY <1>1, <1>2, <1>4 DEF RefsOf, IDsOf
<1> QED BY <1>3, <1>5, <1>6, <1>7 DEF Own
----------------------------------------------------------------------------
(* The steps of a Get that leave the storage's maps alone *)

\* A request that finds a search already closed is handed what its owner holds.
LEMMA HandedAtOnce ==
  ASSUME IInv, NEW r \in Reqs, NEW a \in Addrs, NEW s \in SacIdx, NEW q \in Questions,
         FirstMatch(s, a, q), SQ!PushLoad(r, SearchRequest(a, s)), sGot'[r] \in Clients
  PROVE  \E o \in Reqs : addr[o] = a /\ sac[o] = s /\ pc[o] = "sdone" /\ cli[o] = sGot'[r]
<1> USE DEF IInv
<1>1. SP!PushLoad(r, SearchRequest(a, s)) /\ sGot'[r] # NotYet
  BY SearchOps, SearchKey, MarkersAssumption
<1>2. PICK o \in Reqs : /\ o # r /\ SP!Owns(o, SearchRequest(a, s)) /\ sSt[o] = "closed"
                        /\ sGot'[r] = sEntry[sKey[o]].out
  BY <1>1, SearchResults, SearchKey, SP!LoadedFromOwner
<1>3. pc[o] = "sdone" /\ sKey[o] = SearchRequest(a, s)
  BY <1>2 DEF InSearchQueue, TypeOK, Searching, SP!Owns
<1>4. sGot'[r] = cli[o]
  BY <1>2, <1>3, MarkersAssumption DEF OwnResults
<1>5. /\ addr[o] \in Addrs /\ sac[o] \in SacIdx
      /\ SearchRequest(addr[o], sac[o]) = SearchRequest(a, s)
      /\ \E x \in Questions : FirstMatch(sac[o], addr[o], x)
  BY <1>3 DEF InSearchQueue
<1>6. addr[o] = a /\ sac[o] = s
  BY <1>5, SameFirst
<1> QED BY <1>3, <1>4, <1>6

\* Entering Get, with a static client or into searchQueue.
LEMMA GetStep ==
  ASSUME IInv, NEW r \in Reqs, Get(r)
  PROVE  IInv'
<1> USE DEF IInv
<1>1. PICK a \in Addrs, q \in Questions :
        GetStatic(r, a, q) \/ GetOwn(r, a, q) \/ GetWait(r, a, q)
  BY DEF Get
<1>2. pc[r] = "idle" /\ UNCHANGED <<clients, heap, identified>>
  BY <1>1 DEF GetStatic, GetOwn, GetWait, GetAutodevice
<1>3. Framed(r)
  BY GetFrame
<1>4. /\ NotYet \notin Clients \cup Hids
      /\ sGot[r] = NotYet /\ iGot[r] = NotYet /\ iSt[r] = "idle" /\ cli[r] = None
  BY <1>2, MarkersAssumption DEF InSearchQueue, InIdentifyQueue, Locals
<1>5. LocalTypes'
  <2>1. CASE GetStatic(r, a, q)
    BY <2>1 DEF GetStatic, LocalTypes, TypeOK
  <2>2. CASE GetOwn(r, a, q) \/ GetWait(r, a, q)
    <3>1. PICK s \in SacIdx, p \in {"clock", "search"} :
            GetAutodevice(r, a, q, s) /\ pc' = [pc EXCEPT ![r] = p]
      BY <2>2 DEF GetOwn, GetWait
    <3> QED BY <3>1 DEF GetAutodevice, LocalTypes, TypeOK
  <2> QED BY <1>1, <2>1, <2>2
<1>6. CASE GetStatic(r, a, q)
  <2>1. pc'[r] = "resolve" /\ UNCHANGED <<cli, sSt, sGot, iSt, iGot>>
    BY <1>6 DEF GetStatic, TypeOK, sq, iq
  <2>2. Own(r)'
    BY <1>2, <1>4, <2>1 DEF Own, InSearchQueue, InIdentifyQueue, Locals, OwnResults, RefsOf,
                            IDsOf, Searching, Emptied
  <2> QED BY <1>2, <1>3, <1>5, <2>2, QuietStep
<1>7. CASE GetOwn(r, a, q) \/ GetWait(r, a, q)
  <2>1. PICK s \in SacIdx :
          /\ GetAutodevice(r, a, q, s)
          /\ \/ SQ!PushStore(r, SearchRequest(a, s)) /\ pc' = [pc EXCEPT ![r] = "clock"]
             \/ SQ!PushLoad(r, SearchRequest(a, s)) /\ pc' = [pc EXCEPT ![r] = "search"]
    BY <1>7 DEF GetOwn, GetWait
  <2>2. /\ addr'[r] = a /\ sac'[r] = s /\ FirstMatch(s, a, q)
        /\ sKey'[r] = SearchRequest(a, s) /\ UNCHANGED <<now, hid, cli, iEntry, iSt, iKey, iGot>>
    BY <2>1 DEF GetAutodevice, SQ!PushStore, SQ!PushLoad, TypeOK, SQ!TypeOK, iq
  <2>3. \/ pc'[r] = "clock" /\ sSt'[r] = "own" /\ sGot'[r] = NotYet
        \/ pc'[r] = "search" /\ sSt'[r] = "wait"
    BY <1>4, <2>1 DEF SQ!PushStore, SQ!PushLoad, TypeOK, SQ!TypeOK
  <2>4. InSearchQueue(r)'
    BY <2>2, <2>3 DEF InSearchQueue, Searching, SearchRequest, FirstMatch, Candidates, Matches
  <2>5. InIdentifyQueue(r)' /\ Locals(r)' /\ OwnResults(r)' /\ IDsOf(r)'
    BY <1>2, <1>4, <2>2, <2>3 DEF InIdentifyQueue, Locals, OwnResults, IDsOf, Emptied, Searching
  <2>6. RefsOf(r)'
    <3>1. ASSUME sGot'[r] \in Clients PROVE Made(sGot'[r], a, s)
      <4>1. SQ!PushLoad(r, SearchRequest(a, s))
        BY <1>4, <2>1, <2>3, <3>1 DEF TypeOK
      <4>2. PICK o \in Reqs : addr[o] = a /\ sac[o] = s /\ pc[o] = "sdone" /\ cli[o] = sGot'[r]
        BY <2>2, <3>1, <4>1, HandedAtOnce
      <4>3. sGot'[r] # None
        BY <3>1, MarkersAssumption
      <4> QED BY <4>2, <4>3 DEF RefsOf
    <3> QED BY <1>2, <1>4, <2>2, <3>1 DEF RefsOf, Made
  <2> QED BY <1>2, <1>3, <1>5, <2>4, <2>5, <2>6, QuietStep DEF Own
<1> QED BY <1>1, <1>6, <1>7

\* A waiter's push returns.
LEMMA SearchWaitStep ==
  ASSUME IInv, NEW r \in Reqs, SearchRecv(r) \/ SearchCancel(r)
  PROVE  IInv'
<1> USE DEF IInv
<1>1. Framed(r) /\ pc[r] = "search" /\ UNCHANGED <<clients, heap, identified>>
  BY ProceedFrame DEF Proceed, Cancel, SearchRecv, SearchCancel
<1>2. /\ NotYet \notin Clients \cup Hids /\ None \notin Clients
      /\ iGot[r] = NotYet /\ iSt[r] = "idle" /\ cli[r] = None /\ sGot[r] # Zero
  BY <1>1, MarkersAssumption DEF InIdentifyQueue, Locals, SP!IInv, SP!NeverZero
<1>3. /\ pc'[r] = "resolve" /\ sSt'[r] = "idle" /\ sGot'[r] = NotYet
      /\ cli'[r] = None \/ (cli'[r] = sGot[r] /\ sGot[r] \in Clients)
      /\ UNCHANGED <<addr, sac, now, hid, iEntry, iSt, iKey, iGot>>
      /\ LocalTypes'
  <2>1. CASE SearchRecv(r)
    <3>1. pc' = [pc EXCEPT ![r] = "resolve"]
      BY <1>2, <2>1 DEF SearchRecv
    <3>2. PICK c \in Clients \cup {None} :
            cli' = [cli EXCEPT ![r] = c] /\ (c = None \/ (c = sGot[r] /\ sGot[r] \in Clients))
      BY <2>1 DEF SearchRecv
    <3>3. UNCHANGED <<addr, sac, now, hid, iEntry, iSt, iKey, iGot>>
      BY <2>1 DEF SearchRecv, iq
    <3>4. sSt'[r] = "idle" /\ sGot'[r] = NotYet
      BY <1>2, <2>1 DEF SearchRecv, SQ!Recv, TypeOK, SQ!TypeOK
    <3>5. LocalTypes'
      BY <3>1, <3>2, <3>3 DEF LocalTypes, TypeOK
    <3> QED BY <3>1, <3>2, <3>3, <3>4, <3>5 DEF TypeOK
  <2>2. CASE SearchCancel(r)
    <3>1. sSt'[r] = "idle" /\ sGot'[r] = NotYet
      BY <2>2 DEF SearchCancel, SQ!Cancel, TypeOK, SQ!TypeOK
    <3> QED BY <1>2, <2>2, <3>1 DEF SearchCancel, TypeOK, iq, LocalTypes
  <2> QED BY <2>1, <2>2
<1>4. Own(r)'
  BY <1>1, <1>2, <1>3 DEF Own, InSearchQueue, InIdentifyQueue, Locals, OwnResults, RefsOf, IDsOf,
                          Searching, Emptied, Made
<1> QED BY <1>1, <1>3, <1>4, QuietStep

\* Reading the clock.
LEMMA ReadClockStep ==
  ASSUME IInv, NEW r \in Reqs, ReadClock(r)
  PROVE  IInv'
<1> USE DEF IInv, ReadClock
<1>1. Framed(r) /\ LocalTypes'
  BY ProceedFrame DEF Proceed, LocalTypes, TypeOK
<1>2. /\ pc'[r] = "find" /\ now'[r] = clock
      /\ UNCHANGED <<clock, sEntry, sSt, sKey, sGot, iEntry, iSt, iKey, iGot>>
  BY DEF TypeOK, sq, iq, bg
<1>3. InSearchQueue(r)' /\ InIdentifyQueue(r)'
  BY <1>2 DEF InSearchQueue, InIdentifyQueue, Searching, SearchRequest, FirstMatch, Candidates,
              Matches
<1>4. Locals(r)'
  BY <1>2 DEF Locals, TypeOK, Time, Emptied, Searching
<1>5. OwnResults(r)' /\ RefsOf(r)' /\ IDsOf(r)'
  BY <1>2 DEF OwnResults, RefsOf, IDsOf, Made, Registered
<1> QED BY <1>1, <1>3, <1>4, <1>5, QuietStep DEF Own

\* A search that finds a stored client which is still valid.
LEMMA FindStoredStep ==
  ASSUME IInv, NEW r \in Reqs, FindStored(r)
  PROVE  IInv'
<1> USE DEF IInv
<1> DEFINE c == clients[sac[r]][addr[r]]
<1>1. /\ pc[r] = "find" /\ c # None /\ SearchEnds(r, c)
      /\ UNCHANGED <<addr, sac, hid, iEntry, iSt, iKey, iGot, clients, heap, identified>>
      /\ Framed(r)
  BY ProceedFrame DEF FindStored, ValidAt, Proceed, iq
<1>2. addr[r] \in Addrs /\ sac[r] \in SacIdx /\ iSt[r] = "idle" /\ iGot[r] = NotYet
  BY <1>1 DEF InSearchQueue, InIdentifyQueue
<1>3. c \in Clients /\ Made(c, addr[r], sac[r])
  BY <1>1, <1>2 DEF TypeOK, StoredMade
<1>4. Own(r)'
  BY <1>1, <1>2, <1>3, SearchEndsOwn DEF Searching, Made
<1>5. LocalTypes'
  BY <1>3 DEF FindStored, SearchEnds, LocalTypes, TypeOK
<1> QED BY <1>1, <1>4, <1>5, QuietStep

\* Entering identifyQueue, as owner or as waiter.
LEMMA IdentifyPushStep ==
  ASSUME IInv, NEW r \in Reqs, IdentifyOwn(r) \/ IdentifyWait(r)
  PROVE  IInv'
<1> USE DEF IInv
<1>1. /\ Framed(r) /\ pc[r] = "identify"
      /\ UNCHANGED <<addr, sac, now, hid, cli, sEntry, sSt, sKey, sGot, clients, heap, identified>>
      /\ UNCHANGED clock
  BY ProceedFrame DEF Proceed, IdentifyOwn, IdentifyWait, sq, bg
<1>2. /\ NotYet \notin Clients \cup Hids /\ addr[r] \in Addrs /\ iGot[r] = NotYet
      /\ cli[r] = None /\ sGot[r] = NotYet
  BY <1>1, MarkersAssumption DEF InSearchQueue, InIdentifyQueue, Locals
<1>3. /\ \/ pc'[r] = "source" /\ iSt'[r] = "own" /\ iGot'[r] = NotYet
         \/ pc'[r] = "iwait" /\ iSt'[r] = "wait"
      /\ iKey'[r] = addr[r]
      /\ LocalTypes'
  BY <1>2 DEF IdentifyOwn, IdentifyWait, IQ!PushStore, IQ!PushLoad, TypeOK, IQ!TypeOK, LocalTypes
<1>4. InSearchQueue(r)'
  BY <1>1, <1>3 DEF InSearchQueue, Searching, SearchRequest, FirstMatch, Candidates, Matches
<1>5. InIdentifyQueue(r)' /\ OwnResults(r)'
  BY <1>1, <1>3 DEF InIdentifyQueue, OwnResults
<1>6. Locals(r)'
  BY <1>1, <1>3 DEF Locals, Emptied, Searching
<1>7. IDsOf(r)'
  <2>1. ASSUME iGot'[r] \in Hids PROVE Registered(iGot'[r].id, iGot'[r].until, addr[r])
    <3>1. IP!PushLoad(r, addr[r]) /\ iGot'[r] # NotYet
      BY <1>2, <2>1, IdentifyOps DEF IdentifyOwn, IdentifyWait, IQ!PushStore
    <3>2. PICK o \in Reqs : /\ o # r /\ IP!Owns(o, addr[r]) /\ iSt[o] = "closed"
                           /\ iGot'[r] = iEntry[iKey[o]].out
      BY <1>2, <3>1, IdentifyResults, IP!LoadedFromOwner
    <3>3. pc[o] = "idone" /\ addr[o] = addr[r]
      BY <3>2 DEF InIdentifyQueue, TypeOK, IP!Owns
    <3>4. hid[o] # None /\ iGot'[r] = hid[o]
      BY <2>1, <3>2, <3>3, MarkersAssumption DEF OwnResults
    <3> QED BY <3>3, <3>4 DEF IDsOf
  <2> QED BY <1>1, <1>3, <2>1 DEF IDsOf, Registered
<1>8. RefsOf(r)'
  BY <1>1, <1>2 DEF RefsOf
<1> QED BY <1>1, <1>3, <1>4, <1>5, <1>6, <1>7, <1>8, QuietStep DEF Own

\* identify returns, to a waiter or after done.
LEMMA IdentifyReturnStep ==
  ASSUME IInv, NEW r \in Reqs, IdentifyRecv(r) \/ IdentifyCancel(r) \/ IdentifyDoneDelete(r)
  PROVE  IInv'
<1> USE DEF IInv
<1>1. /\ Framed(r) /\ pc[r] \in {"iwait", "idone"}
      /\ UNCHANGED <<addr, sac, clock, clients, heap, identified>>
  BY ProceedFrame DEF Proceed, Cancel, IdentifyRecv, IdentifyCancel, IdentifyDoneDelete, bg
<1>2. /\ iGot[r] # Zero /\ NotYet \notin Hids /\ hid[r] \in Hids \cup {None}
      /\ iGot[r] \in Hids \cup {Err, Zero, NotYet}
      /\ pc[r] = "idone" => iGot[r] = NotYet
  BY MarkersAssumption DEF InIdentifyQueue, IP!IInv, IP!NeverZero, TypeOK, IQ!TypeOK
<1>3. iSt'[r] = "idle" /\ iGot'[r] = NotYet
  BY <1>2 DEF IdentifyRecv, IdentifyCancel, IdentifyDoneDelete, IQ!Recv, IQ!Cancel,
              IQ!DoneDelete, TypeOK, IQ!TypeOK
<1>4. PICK h \in Hids \cup {None} :
        Identified(r, h) /\ (h # None => Registered(h.id, h.until, addr[r]))
  <2>1. CASE IdentifyRecv(r)
    <3>1. iGot[r] # NotYet /\ Identified(r, IF iGot[r] = Err THEN None ELSE iGot[r])
      BY <1>2, <2>1 DEF IdentifyRecv, IQ!Recv
    <3>2. CASE iGot[r] = Err
      BY <3>1, <3>2
    <3>3. CASE iGot[r] # Err
      <4>1. iGot[r] \in Hids
        BY <1>2, <3>1, <3>3
      <4>2. Identified(r, iGot[r])
        BY ONLY <3>1, <3>3 DEF Identified, SearchEnds
      <4>3. Registered(iGot[r].id, iGot[r].until, addr[r])
        BY <4>1 DEF IDsOf
      <4> QED BY <4>1, <4>2, <4>3
    <3> QED BY <3>2, <3>3
  <2>2. CASE IdentifyCancel(r)
    BY <2>2 DEF IdentifyCancel
  <2>3. CASE IdentifyDoneDelete(r)
    BY <1>2, <2>3 DEF IdentifyDoneDelete, IDsOf
  <2> QED BY <2>1, <2>2, <2>3
<1>5. Own(r)' /\ LocalTypes'
  BY <1>1, <1>3, <1>4, IdentifiedOwn
<1> QED BY <1>1, <1>5, QuietStep

\* The contract of the source: the answer does not shorten what is recorded.
LEMMA SourceAnswersStep ==
  ASSUME IInv, NEW r \in Reqs, SourceAnswers(r)
  PROVE  IInv'
<1> USE DEF IInv
<1>1. /\ Framed(r) /\ pc[r] = "source"
      /\ UNCHANGED <<addr, sac, now, cli, clock, sEntry, sSt, sKey, sGot, iEntry, iSt, iKey, iGot>>
      /\ UNCHANGED <<clients, heap, identified>>
  BY ProceedFrame DEF Proceed, SourceAnswers, sq, iq, bg
<1>2. PICK h \in Answers(addr[r]) : hid' = [hid EXCEPT ![r] = h]
  BY DEF SourceAnswers
<1>3. h \in Hids /\ pc'[r] = "check" /\ hid'[r] = h /\ LocalTypes'
  BY <1>2 DEF SourceAnswers, Answers, TypeOK, LocalTypes
<1>4. addr[r] \in Addrs /\ NotYet \notin Clients \cup Hids /\ sGot[r] = NotYet /\ iGot[r] = NotYet
  BY <1>1, MarkersAssumption DEF InSearchQueue, InIdentifyQueue
<1>5. InSearchQueue(r)'
  BY <1>1, <1>3 DEF InSearchQueue, Searching, SearchRequest, FirstMatch, Candidates, Matches
<1>6. InIdentifyQueue(r)' /\ Locals(r)' /\ OwnResults(r)' /\ RefsOf(r)'
  BY <1>1, <1>3, <1>4 DEF InIdentifyQueue, Locals, OwnResults, RefsOf, Emptied, Searching
<1>7. ASSUME identified[h.id] # None, identified[h.id].addr = addr[r],
             identified[h.id].until > clock
      PROVE  identified[h.id].until <= h.until
  <2> DEFINE g == [id |-> h.id, until |-> identified[h.id].until]
  <2>1. identified[h.id] \in Owners /\ h.id \in HumanIDs
    BY <1>3, <1>7 DEF TypeOK, Hids
  <2>2. g \in Hids /\ identified[g.id] = [addr |-> addr[r], until |-> g.until]
    BY <1>7, <2>1 DEF Owners, Hids
  <2>3. Source!Allowed(addr[r], h)
    BY <1>2 DEF Answers
  <2>4. g.id = h.id => g.until <= h.until
    BY <1>4, <1>7, <2>2, <2>3 DEF Source!Allowed
  <2> QED BY <2>4
<1>8. IDsOf(r)'
  BY <1>1, <1>3, <1>4, <1>7 DEF IDsOf
<1> QED BY <1>1, <1>3, <1>5, <1>6, <1>8, QuietStep DEF Own

\* A source that fails ends the identification without an ID.
LEMMA SourceFailsStep ==
  ASSUME IInv, NEW r \in Reqs, SourceFails(r)
  PROVE  IInv'
<1>1. /\ Framed(r) /\ UNCHANGED <<clients, heap, identified>>
      /\ UNCHANGED <<addr, sac, now, cli, sEntry, sSt, sKey, sGot, clients, clock>>
      /\ pc[r] = "source" /\ IdentifyEnds(r, None)
  BY ProceedFrame DEF Proceed, SourceFails, sq, bg
<1>2. Own(r)' /\ LocalTypes'
  BY <1>1, IdentifyEndsOwn
<1> QED BY <1>1, <1>2, QuietStep

\* done closes its channel.
LEMMA DoneCloseStep ==
  ASSUME IInv, NEW r \in Reqs, IdentifyDoneClose(r) \/ SearchDoneClose(r)
  PROVE  IInv'
<1> USE DEF IInv
<1>1. Framed(r) /\ UNCHANGED <<pc, addr, sac, now, hid, cli, clock, clients, heap, identified>>
  BY ProceedFrame DEF Proceed, IdentifyDoneClose, SearchDoneClose, locals, bg
<1>2. LocalTypes'
  BY <1>1 DEF LocalTypes, TypeOK
<1>3. CASE IdentifyDoneClose(r)
  <2>1. pc[r] = "idone" /\ iSt[r] = "set" /\ UNCHANGED <<sEntry, sSt, sKey, sGot>>
    BY <1>3 DEF IdentifyDoneClose, IQ!DoneClose, sq
  <2>2. iKey[r] \in Addrs /\ iEntry[iKey[r]] \in IQ!EntryType
    BY <2>1 DEF IP!IInv, IP!EntryInFlight, TypeOK, IQ!TypeOK
  <2>3. /\ iSt'[r] = "closed" /\ iGot'[r] = iGot[r] /\ iKey' = iKey
        /\ iEntry'[iKey[r]].out = iEntry[iKey[r]].out
    BY <1>3, <2>1, <2>2 DEF IdentifyDoneClose, IQ!DoneClose, TypeOK, IQ!TypeOK, IQ!EntryType
  <2>4. InSearchQueue(r)'
    BY <1>1, <2>1 DEF InSearchQueue, Searching, SearchRequest, FirstMatch, Candidates, Matches
  <2>5. InIdentifyQueue(r)' /\ Locals(r)' /\ OwnResults(r)'
    BY <1>1, <2>1, <2>3 DEF InIdentifyQueue, Locals, OwnResults, Emptied, Searching
  <2>6. RefsOf(r)' /\ IDsOf(r)'
    BY <1>1, <2>1, <2>3 DEF RefsOf, IDsOf, Made, Registered
  <2> QED BY <1>1, <1>2, <2>4, <2>5, <2>6, QuietStep DEF Own
<1>4. CASE SearchDoneClose(r)
  <2>1. pc[r] = "sdone" /\ sSt[r] = "set" /\ UNCHANGED <<iEntry, iSt, iKey, iGot>>
    BY <1>4 DEF SearchDoneClose, SQ!DoneClose, iq
  <2>2. sKey[r] \in [addr : Addrs, domain : Domains] /\ sEntry[sKey[r]] \in SQ!EntryType
    BY <2>1 DEF SP!IInv, SP!EntryInFlight, TypeOK, SQ!TypeOK
  <2>3. /\ sSt'[r] = "closed" /\ sGot'[r] = sGot[r] /\ sKey' = sKey
        /\ sEntry'[sKey[r]].out = sEntry[sKey[r]].out
    BY <1>4, <2>1, <2>2 DEF SearchDoneClose, SQ!DoneClose, TypeOK, SQ!TypeOK, SQ!EntryType
  <2>4. InSearchQueue(r)'
    BY <1>1, <2>1, <2>3 DEF InSearchQueue, Searching, SearchRequest, FirstMatch, Candidates,
                            Matches
  <2>5. InIdentifyQueue(r)' /\ Locals(r)' /\ OwnResults(r)'
    BY <1>1, <2>1, <2>3 DEF InIdentifyQueue, Locals, OwnResults, Emptied, Searching
  <2>6. RefsOf(r)' /\ IDsOf(r)'
    BY <1>1, <2>1, <2>3 DEF RefsOf, IDsOf, Made, Registered
  <2> QED BY <1>1, <1>2, <2>4, <2>5, <2>6, QuietStep DEF Own
<1> QED BY <1>3, <1>4

\* The search ends without a client, has ended, or its client has been used.
LEMMA SearchOverStep ==
  ASSUME IInv, NEW r \in Reqs, CreateFails(r) \/ SearchDoneDelete(r) \/ Resolve(r)
  PROVE  IInv'
<1> USE DEF IInv
<1>1. Framed(r) /\ UNCHANGED <<iEntry, iSt, iKey, iGot, clock, clients, heap, identified>>
  BY ProceedFrame DEF Proceed, CreateFails, SearchDoneDelete, Resolve, iq, bg
<1>2. /\ NotYet \notin Clients \cup Hids
      /\ pc[r] \in {"create", "sdone", "resolve"} => iSt[r] = "idle" /\ iGot[r] = NotYet
      /\ pc[r] \in {"create", "sdone", "resolve"} => sGot[r] = NotYet
  BY MarkersAssumption DEF InSearchQueue, InIdentifyQueue
<1>3. LocalTypes'
  BY DEF CreateFails, SearchDoneDelete, Resolve, SearchEnds, LocalTypes, TypeOK
<1>4. CASE CreateFails(r)
  <2>1. pc[r] = "create" /\ SearchEnds(r, None) /\ UNCHANGED <<addr, sac>>
    BY <1>4 DEF CreateFails
  <2>2. Own(r)'
    BY <1>1, <1>2, <2>1, SearchEndsOwn DEF Searching
  <2> QED BY <1>1, <1>3, <2>2, QuietStep
<1>5. CASE SearchDoneDelete(r) \/ Resolve(r)
  <2>1. /\ pc[r] \in {"sdone", "resolve"} /\ pc'[r] \in {"resolve", "idle"}
        /\ sSt'[r] = "idle" /\ sGot'[r] = sGot[r]
        /\ pc'[r] = "idle" => cli'[r] = None
        /\ pc'[r] = "resolve" => UNCHANGED <<addr, sac, cli>>
    BY <1>5 DEF SearchDoneDelete, Resolve, SQ!DoneDelete, TypeOK, SQ!TypeOK, sq, InSearchQueue
  <2>2. InSearchQueue(r)' /\ InIdentifyQueue(r)' /\ Locals(r)' /\ OwnResults(r)'
    BY <1>1, <1>2, <2>1 DEF InSearchQueue, InIdentifyQueue, Locals, OwnResults, Searching, Emptied
  <2>3. RefsOf(r)' /\ IDsOf(r)'
    BY <1>1, <1>2, <2>1 DEF RefsOf, IDsOf, Made
  <2> QED BY <1>1, <1>3, <2>2, <2>3, QuietStep DEF Own
<1> QED BY <1>4, <1>5

----------------------------------------------------------------------------
(* The steps of a Get that change the storage's maps *)

\* Clients that exist keep what they were made for, by whatever means they are
\* changed, and are not closed.
HeapKept ==
  \A c \in Clients : heap[c] # None =>
    /\ heap'[c] # None
    /\ heap'[c].addr = heap[c].addr /\ heap'[c].sac = heap[c].sac
    /\ heap'[c].id = heap[c].id /\ heap'[c].until = heap[c].until
    /\ heap'[c].closed = heap[c].closed

\* Finalizers keep it.
LEMMA FinalizerKeeps ==
  ASSUME TypeOK, NEW cs \in SUBSET Clients, heap' = SetFinalizer(heap, cs),
         \A c \in cs : heap[c] # None
  PROVE  /\ HeapKept /\ heap' \in [Clients -> Autodevices \cup {None}]
         /\ \A c \in cs : heap'[c].fin
         /\ \A c \in Clients \ cs : heap'[c] = heap[c]
<1>1. \A c \in cs : /\ heap'[c] \in Autodevices /\ heap'[c].fin
                    /\ heap'[c].addr = heap[c].addr /\ heap'[c].sac = heap[c].sac
                    /\ heap'[c].id = heap[c].id /\ heap'[c].until = heap[c].until
                    /\ heap'[c].closed = heap[c].closed
  <2> SUFFICES ASSUME NEW c \in cs
               PROVE  /\ heap'[c] \in Autodevices /\ heap'[c].fin
                      /\ heap'[c].addr = heap[c].addr /\ heap'[c].sac = heap[c].sac
                      /\ heap'[c].id = heap[c].id /\ heap'[c].until = heap[c].until
                      /\ heap'[c].closed = heap[c].closed
    OBVIOUS
  <2>1. heap'[c] = [heap[c] EXCEPT !.fin = TRUE] /\ heap[c] \in Autodevices
    BY DEF SetFinalizer, TypeOK
  <2> QED BY ONLY <2>1 DEF Autodevices
<1>2. \A c \in Clients \ cs : heap'[c] = heap[c]
  BY DEF SetFinalizer
<1>3. heap' \in [Clients -> Autodevices \cup {None}]
  BY <1>1, <1>2 DEF SetFinalizer, TypeOK
<1>4. None \notin Autodevices
  BY MarkersAssumption
<1> QED BY <1>1, <1>2, <1>3, <1>4 DEF HeapKept

\* Another Get after a step of r that keeps the clients, empties places or fills
\* only r's, and leaves the records of IDs alone.
LEMMA OtherKept ==
  ASSUME IInv, NEW r \in Reqs, Framed(r), HeapKept, UNCHANGED identified, NEW o \in Reqs \ {r},
         pc[o] \in Emptied => clients'[sac[o]][addr[o]] = None
  PROVE  Own(o)'
<1>1. InSearchQueue(o)' /\ InIdentifyQueue(o)' /\ OwnResults(o)'
  BY OtherInQueues
<1>2. /\ sGot'[o] \in Clients => Made(sGot'[o], addr[o], sac[o])
      /\ iGot'[o] \in Hids => Registered(iGot'[o].id, iGot'[o].until, addr[o])
  BY OtherHanded
<1>3. /\ pc'[o] = pc[o] /\ addr'[o] = addr[o] /\ sac'[o] = sac[o] /\ now'[o] = now[o]
      /\ hid'[o] = hid[o] /\ cli'[o] = cli[o] /\ clock' = clock
  BY DEF Framed, bg
<1>4. Locals(o)'
  BY <1>3 DEF IInv, Locals, Emptied, Searching
<1>5. cli[o] # None => cli[o] \in Clients
  BY DEF IInv, TypeOK
<1>6. RefsOf(o)'
  BY <1>2, <1>3, <1>5 DEF IInv, RefsOf, Made, HeapKept
<1>7. IDsOf(o)'
  BY <1>2, <1>3 DEF IInv, IDsOf, Registered
<1> QED BY <1>1, <1>4, <1>6, <1>7 DEF Own

\* A request's step, put together from its parts.
LEMMA MapStep ==
  ASSUME IInv, NEW r \in Reqs, Framed(r), LocalTypes',
         clients' \in [SacIdx -> [Addrs -> Clients \cup {None}]],
         heap' \in [Clients -> Autodevices \cup {None}],
         identified' \in [HumanIDs -> Owners \cup {None}],
         \A o \in Reqs : Own(o)', StoredMade', StoredXorFinalized', ClientIDs',
         shut.pc = "up" => \A c \in Clients : heap'[c] # None => ~heap'[c].closed
  PROVE  IInv'
<1>1. TypeOK' /\ SP!IInv' /\ IP!IInv'
  BY FrameQueues DEF IInv, TypeOK, LocalTypes, Framed, bg
<1>2. Background'
  BY DEF IInv, Background, Framed, bg
<1> QED BY <1>1, <1>2 DEF IInv, Own

\* Removing stored clients, and setting their finalizers.
LEMMA Removal ==
  ASSUME IInv, NEW cs \in SUBSET Clients, \A c \in cs : Stored(c),
         heap' = SetFinalizer(heap, cs),
         \A s \in SacIdx, a \in Addrs :
           clients'[s][a] = IF clients[s][a] \in cs THEN None ELSE clients[s][a],
         UNCHANGED <<identified, clock>>
  PROVE  /\ HeapKept /\ heap' \in [Clients -> Autodevices \cup {None}]
         /\ StoredMade' /\ StoredXorFinalized' /\ ClientIDs'
         /\ shut.pc = "up" => \A c \in Clients : heap'[c] # None => ~heap'[c].closed
<1> USE DEF IInv
<1>1. None \notin Clients /\ \A c \in cs : heap[c] # None
  BY MarkersAssumption DEF Stored, StoredMade, Made
<1>2. /\ HeapKept /\ heap' \in [Clients -> Autodevices \cup {None}]
      /\ \A c \in cs : heap'[c].fin
      /\ \A c \in Clients \ cs : heap'[c] = heap[c]
  BY <1>1, FinalizerKeeps
<1>3. StoredMade'
  <2> SUFFICES ASSUME NEW s \in SacIdx, NEW a \in Addrs, clients'[s][a] # None
               PROVE  Made(clients[s][a], a, s)' /\ ~heap'[clients'[s][a]].fin
    BY DEF StoredMade, Made
  <2>1. clients'[s][a] = clients[s][a] /\ clients[s][a] \in Clients \ cs
    BY DEF TypeOK
  <2> QED BY <1>2, <2>1 DEF StoredMade, Made
<1>4. StoredXorFinalized'
  <2> SUFFICES ASSUME NEW c \in Clients, heap'[c] # None
               PROVE  Stored(c)' <=> ~heap'[c].fin
    BY DEF StoredXorFinalized
  <2>1. CASE c \in cs
    BY <1>1, <1>2, <2>1 DEF Stored
  <2>2. CASE c \notin cs
    <3>1. Stored(c)' <=> Stored(c)
      BY <1>1, <2>2 DEF Stored
    <3> QED BY <1>2, <2>2, <3>1 DEF StoredXorFinalized
  <2> QED BY <2>1, <2>2
<1>5. ClientIDs'
  <2> SUFFICES ASSUME NEW c \in Clients, heap'[c] # None
               PROVE  Registered(heap'[c].id, heap'[c].until, heap'[c].addr)
    BY DEF ClientIDs, Registered
  <2>1. heap[c] # None
    BY <1>1, <1>2
  <2> QED BY <1>2, <2>1 DEF HeapKept, ClientIDs
<1>6. ASSUME shut.pc = "up", NEW c \in Clients, heap'[c] # None PROVE ~heap'[c].closed
  <2>1. heap[c] # None
    BY <1>1, <1>2, <1>6
  <2> QED BY <1>2, <1>6, <2>1 DEF HeapKept, Background
<1> QED BY <1>2, <1>3, <1>4, <1>5, <1>6

\* A search that finds an expired client removes it, with its ID, and goes on.
LEMMA FindExpiredStep ==
  ASSUME IInv, NEW r \in Reqs, FindExpired(r)
  PROVE  IInv'
<1> USE DEF IInv
<1> DEFINE c == clients[sac[r]][addr[r]]
           cs == {c} \ {None}
<1>1. /\ Framed(r) /\ pc[r] = "find" /\ pc'[r] = "identify"
      /\ clients' = [clients EXCEPT ![sac[r]][addr[r]] = None]
      /\ heap' = SetFinalizer(heap, cs)
      /\ UNCHANGED <<addr, sac, now, hid, cli, clock, identified>>
      /\ UNCHANGED <<sEntry, sSt, sKey, sGot, iEntry, iSt, iKey, iGot>>
      /\ LocalTypes'
  BY ProceedFrame DEF Proceed, FindExpired, TypeOK, LocalTypes, sq, iq, bg
<1>2. addr[r] \in Addrs /\ sac[r] \in SacIdx
  BY <1>1 DEF InSearchQueue
<1>3. /\ clients' \in [SacIdx -> [Addrs -> Clients \cup {None}]]
      /\ clients'[sac[r]][addr[r]] = None
      /\ \A s \in SacIdx, a \in Addrs :
           s # sac[r] \/ a # addr[r] => clients'[s][a] = clients[s][a]
  BY <1>1, <1>2 DEF TypeOK
<1>4. cs \in SUBSET Clients /\ \A d \in cs : Stored(d)
  BY <1>2 DEF TypeOK, Stored
<1>5. ASSUME NEW s \in SacIdx, NEW a \in Addrs
      PROVE  clients'[s][a] = IF clients[s][a] \in cs THEN None ELSE clients[s][a]
  BY <1>2, <1>3 DEF StoredMade, Made
<1>6. /\ HeapKept /\ heap' \in [Clients -> Autodevices \cup {None}]
      /\ StoredMade' /\ StoredXorFinalized' /\ ClientIDs'
      /\ shut.pc = "up" => \A d \in Clients : heap'[d] # None => ~heap'[d].closed
  <2> HIDE DEF cs
  <2> QED BY <1>1, <1>4, <1>5, Removal
<1>7. ASSUME NEW o \in Reqs \ {r} PROVE Own(o)'
  <2>1. pc[o] \in Emptied => clients'[sac[o]][addr[o]] = None
    BY <1>3 DEF Locals, InSearchQueue, Emptied, Searching
  <2> QED BY <1>1, <1>6, <2>1, OtherKept
<1>8. Own(r)'
  <2>1. InSearchQueue(r)' /\ InIdentifyQueue(r)'
    BY <1>1 DEF InSearchQueue, InIdentifyQueue, Searching, SearchRequest, FirstMatch, Candidates,
                Matches
  <2>2. Locals(r)' /\ OwnResults(r)'
    BY <1>1, <1>3 DEF Locals, OwnResults, Emptied, Searching
  <2>3. cli[r] = None /\ sGot[r] = NotYet /\ NotYet \notin Clients
    BY <1>1, MarkersAssumption DEF Locals, InSearchQueue
  <2>4. RefsOf(r)' /\ IDsOf(r)'
    BY <1>1, <2>3 DEF RefsOf, IDsOf, Registered
  <2> QED BY <2>1, <2>2, <2>4 DEF Own
<1>9. identified' \in [HumanIDs -> Owners \cup {None}]
  BY <1>1 DEF TypeOK
<1> QED BY <1>1, <1>3, <1>6, <1>7, <1>8, <1>9, MapStep

\* The client is stored where no other Get stores one, and where there is none.
LEMMA CreateStep ==
  ASSUME IInv, NEW r \in Reqs, Create(r)
  PROVE  IInv'
<1> USE DEF IInv
<1> DEFINE new == [addr |-> addr[r], sac |-> sac[r], id |-> hid[r].id,
                   until |-> hid[r].until, fin |-> FALSE, closed |-> FALSE]
<1>1. PICK c \in Clients :
        /\ heap[c] = None
        /\ heap' = [heap EXCEPT ![c] = new]
        /\ clients' = [clients EXCEPT ![sac[r]][addr[r]] = c]
        /\ SearchEnds(r, c)
  BY DEF Create
<1>2. /\ Framed(r) /\ pc[r] = "create"
      /\ UNCHANGED <<addr, sac, now, clock, identified, iEntry, iSt, iKey, iGot>>
  BY ProceedFrame DEF Proceed, Create, iq, bg
<1>3. LocalTypes'
  BY <1>1 DEF Create, SearchEnds, LocalTypes, TypeOK
<1>4. /\ addr[r] \in Addrs /\ sac[r] \in SacIdx /\ hid[r] \in Hids
      /\ clients[sac[r]][addr[r]] = None
      /\ iSt[r] = "idle" /\ iGot[r] = NotYet
  BY <1>2 DEF InSearchQueue, InIdentifyQueue, Locals, Emptied, Searching
<1>5. None \notin Clients \cup Hids \cup Autodevices
  BY MarkersAssumption
<1>6. new \in Autodevices
  BY <1>4 DEF Autodevices, Hids
<1>7. /\ clients' \in [SacIdx -> [Addrs -> Clients \cup {None}]]
      /\ clients'[sac[r]][addr[r]] = c
      /\ \A s \in SacIdx, a \in Addrs :
           s # sac[r] \/ a # addr[r] => clients'[s][a] = clients[s][a]
  BY <1>1, <1>4 DEF TypeOK
<1>8. /\ heap' \in [Clients -> Autodevices \cup {None}]
      /\ heap'[c] = new /\ heap'[c] # None
      /\ \A d \in Clients \ {c} : heap'[d] = heap[d]
  <2> HIDE DEF new
  <2> QED BY <1>1, <1>5, <1>6 DEF TypeOK
<1>9. HeapKept
  <2> HIDE DEF new
  <2> QED BY <1>1, <1>8 DEF HeapKept
<1>10. \A s \in SacIdx, a \in Addrs : clients[s][a] # c
  BY <1>1, <1>5 DEF StoredMade, Made
<1>11. StoredMade'
  <2> SUFFICES ASSUME NEW s \in SacIdx, NEW a \in Addrs, clients'[s][a] # None
               PROVE  Made(clients[s][a], a, s)' /\ ~heap'[clients'[s][a]].fin
    BY DEF StoredMade, Made
  <2>1. CASE s = sac[r] /\ a = addr[r]
    BY <1>7, <1>8, <2>1 DEF Made
  <2>2. CASE s # sac[r] \/ a # addr[r]
    <3>1. clients'[s][a] = clients[s][a] /\ clients[s][a] \in Clients \ {c}
      BY <1>7, <1>10, <2>2 DEF TypeOK
    <3> HIDE DEF new
    <3> QED BY <1>8, <3>1 DEF StoredMade, Made
  <2> QED BY <2>1, <2>2
<1>12. StoredXorFinalized'
  <2> SUFFICES ASSUME NEW d \in Clients, heap'[d] # None
               PROVE  Stored(d)' <=> ~heap'[d].fin
    BY DEF StoredXorFinalized
  <2>1. CASE d = c
    BY <1>4, <1>7, <1>8, <2>1 DEF Stored
  <2>2. CASE d # c
    <3>1. Stored(d)' <=> Stored(d)
      BY <1>4, <1>5, <1>7, <2>2 DEF Stored
    <3> HIDE DEF new
    <3> QED BY <1>8, <2>2, <3>1 DEF StoredXorFinalized
  <2> QED BY <2>1, <2>2
<1>13. ClientIDs'
  <2> SUFFICES ASSUME NEW d \in Clients, heap'[d] # None
               PROVE  Registered(heap'[d].id, heap'[d].until, heap'[d].addr)
    BY <1>2 DEF ClientIDs, Registered
  <2>1. CASE d = c
    <3>1. Registered(hid[r].id, hid[r].until, addr[r])
      BY <1>2, <1>4, <1>5 DEF IDsOf
    <3> QED BY <1>8, <2>1, <3>1
  <2>2. CASE d # c
    <3> HIDE DEF new
    <3> QED BY <1>8, <2>2 DEF ClientIDs
  <2> QED BY <2>1, <2>2
<1>14. ASSUME shut.pc = "up", NEW d \in Clients, heap'[d] # None PROVE ~heap'[d].closed
  <2>1. CASE d = c
    BY <1>8, <2>1
  <2>2. CASE d # c
    <3> HIDE DEF new
    <3> QED BY <1>8, <1>14, <2>2 DEF Background
  <2> QED BY <2>1, <2>2
<1>15. ASSUME NEW o \in Reqs \ {r} PROVE Own(o)'
  <2>1. ASSUME pc[o] \in Emptied PROVE clients'[sac[o]][addr[o]] = None
    <3>1. sac[r] # sac[o] \/ addr[r] # addr[o]
      BY <1>2, <2>1, OwnPlace DEF Emptied, Searching
    <3>2. sac[o] \in SacIdx /\ addr[o] \in Addrs /\ clients[sac[o]][addr[o]] = None
      BY <2>1 DEF InSearchQueue, Locals, Emptied, Searching
    <3> QED BY <1>7, <3>1, <3>2
  <2> QED BY <1>2, <1>9, <2>1, OtherKept
<1>16. Own(r)'
  <2>1. Made(c, addr[r], sac[r])'
    BY <1>2, <1>8 DEF Made
  <2> QED BY <1>1, <1>2, <1>4, <2>1, SearchEndsOwn DEF Searching
<1>17. identified' \in [HumanIDs -> Owners \cup {None}]
  BY <1>2 DEF TypeOK
<1> HIDE DEF new
<1> QED BY <1>2, <1>3, <1>7, <1>8, <1>11, <1>12, <1>13, <1>14, <1>15, <1>16, <1>17, MapStep

\* An ID is recorded: no other address has it, and its own does not lose by it.
LEMMA CheckIdentityStep ==
  ASSUME IInv, NEW r \in Reqs, CheckIdentity(r)
  PROVE  IInv'
<1> USE DEF IInv
<1>1. /\ Framed(r) /\ pc[r] = "check"
      /\ UNCHANGED <<clients, heap>>
      /\ UNCHANGED <<addr, sac, now, cli, sEntry, sSt, sKey, sGot, clients, clock>>
  BY ProceedFrame DEF Proceed, CheckIdentity, sq, bg
<1>2. PICK h \in Hids : h = hid[r]
  BY <1>1 DEF Locals
<1>3. /\ addr[r] \in Addrs /\ now[r] \in Time /\ now[r] <= clock
      /\ h.id \in HumanIDs /\ h.until \in Time
  BY <1>1 DEF Locals, InSearchQueue, Hids
<1>4. CASE Conflicts(r)
  <2>1. IdentifyEnds(r, None) /\ UNCHANGED identified
    BY <1>4 DEF CheckIdentity
  <2>2. Own(r)' /\ LocalTypes'
    BY <1>1, <2>1, IdentifyEndsOwn
  <2> QED BY <1>1, <2>1, <2>2, QuietStep
<1>5. CASE ~Conflicts(r)
  <2>1. /\ IdentifyEnds(r, h)
        /\ identified' = [identified EXCEPT ![h.id] =
                            [addr |-> addr[r], until |-> h.until]]
    BY <1>2, <1>5 DEF CheckIdentity
  <2>2. [addr |-> addr[r], until |-> h.until] \in Owners
    BY <1>3 DEF Owners
  <2>3. /\ identified' \in [HumanIDs -> Owners \cup {None}]
        /\ identified'[h.id] = [addr |-> addr[r], until |-> h.until]
        /\ identified'[h.id] # None
        /\ \A i \in HumanIDs \ {h.id} : identified'[i] = identified[i]
    BY <1>2, <1>3, <2>1, <2>2, MarkersAssumption DEF TypeOK
  <2>4. ASSUME NEW i \in HumanIDs, NEW t \in Time, NEW a \in Addrs, Registered(i, t, a)
        PROVE  Registered(i, t, a)'
    <3> SUFFICES ASSUME t > clock, i = h.id
                 PROVE  addr[r] = a /\ h.until >= t
      BY <1>1, <2>3, <2>4 DEF Registered
    <3>1. identified[h.id] \in Owners /\ identified[h.id].addr = a /\ identified[h.id].until >= t
      BY <1>2, <1>3, <2>4 DEF Registered, TypeOK
    <3>2. identified[h.id].until \in Nat /\ t \in Nat /\ clock \in Nat /\ now[r] \in Nat
          /\ h.until \in Nat
      BY <1>2, <1>3, <3>1 DEF Owners, TypeOK, Time
    <3>3. identified[h.id].until > clock /\ identified[h.id].until > now[r]
      BY <1>2, <1>3, <3>1, <3>2
    <3>4. addr[r] = a
      BY <1>2, <1>3, <1>5, <2>4, <3>1, <3>3, MarkersAssumption DEF Conflicts
    <3>5. identified[h.id].until <= h.until
      BY <1>1, <1>2, <1>3, <3>1, <3>3, <3>4, MarkersAssumption DEF IDsOf
    <3> QED BY <3>1, <3>2, <3>4, <3>5
  <2>5. Registered(h.id, h.until, addr[r])'
    BY <1>1, <1>2, <1>3, <2>1, <2>3, IdentifyEndsFrame DEF Registered, Time
  <2>6. Own(r)' /\ LocalTypes'
    BY <1>1, <1>2, <1>3, <2>1, <2>5, IdentifyEndsOwn
  <2>7. ASSUME NEW o \in Reqs \ {r} PROVE Own(o)'
    <3>1. InSearchQueue(o)' /\ InIdentifyQueue(o)' /\ OwnResults(o)'
      BY <1>1, OtherInQueues
    <3>2. /\ sGot'[o] \in Clients => Made(sGot'[o], addr[o], sac[o])
          /\ iGot'[o] \in Hids => Registered(iGot'[o].id, iGot'[o].until, addr[o])
      BY <1>1, OtherHanded
    <3>3. /\ pc'[o] = pc[o] /\ addr'[o] = addr[o] /\ sac'[o] = sac[o] /\ now'[o] = now[o]
          /\ hid'[o] = hid[o] /\ cli'[o] = cli[o]
      BY <1>1 DEF Framed
    <3>4. Locals(o)' /\ RefsOf(o)'
      BY <1>1, <3>2, <3>3 DEF Locals, RefsOf, Made, Emptied, Searching
    <3>5. IDsOf(o)'
      <4>1. ASSUME pc[o] \in {"idone", "create"}, hid[o] # None
            PROVE  Registered(hid[o].id, hid[o].until, addr[o])'
        <5>1. PICK g \in Hids : g = hid[o]
          BY <4>1 DEF TypeOK
        <5>2. g.id \in HumanIDs /\ g.until \in Time
          BY DEF Hids
        <5>3. PICK b \in Addrs : b = addr[o]
          BY <4>1 DEF InSearchQueue
        <5>4. Registered(g.id, g.until, b)'
          BY <2>4, <4>1, <5>1, <5>2, <5>3 DEF IDsOf
        <5> QED BY <3>3, <5>1, <5>3, <5>4 DEF Registered
      <4>2. ASSUME iGot'[o] \in Hids
            PROVE  Registered(iGot[o].id, iGot[o].until, addr[o])'
        <5>1. PICK g \in Hids : g = iGot'[o]
          BY <4>2
        <5>2. g.id \in HumanIDs /\ g.until \in Time
          BY DEF Hids
        <5>3. iGot'[o] # NotYet
          BY <4>2, MarkersAssumption
        <5>4. pc[o] = "iwait"
          BY <3>1, <3>3, <5>3 DEF InIdentifyQueue
        <5>5. PICK b \in Addrs : b = addr[o]
          BY <5>4 DEF InSearchQueue
        <5>6. Registered(g.id, g.until, b)'
          BY <2>4, <3>2, <5>1, <5>2, <5>5
        <5> QED BY <3>3, <5>1, <5>5, <5>6 DEF Registered
      <4>3. ASSUME pc[o] = "check", identified'[hid[o].id] # None,
                   identified'[hid[o].id].addr = addr[o],
                   identified'[hid[o].id].until > clock
            PROVE  identified'[hid[o].id].until <= hid[o].until
        <5>1. addr[o] # addr[r]
          BY <1>1, <4>3, OwnAddress
        <5>2. hid[o].id \in HumanIDs
          BY <4>3 DEF Locals, Hids
        <5>3. hid[o].id # h.id
          BY <2>3, <4>3, <5>1
        <5>4. identified'[hid[o].id] = identified[hid[o].id]
          BY <2>3, <5>2, <5>3
        <5> QED BY <4>3, <5>4 DEF IDsOf
      <4> QED BY <1>1, <3>3, <4>1, <4>2, <4>3 DEF IDsOf
    <3> QED BY <3>1, <3>4, <3>5 DEF Own
  <2>8. ClientIDs'
    <3> SUFFICES ASSUME NEW c \in Clients, heap[c] # None
                 PROVE  Registered(heap[c].id, heap[c].until, heap[c].addr)'
      BY <1>1 DEF ClientIDs
    <3>1. PICK d \in Autodevices : d = heap[c]
      BY DEF TypeOK
    <3>2. d.id \in HumanIDs /\ d.until \in Time /\ d.addr \in Addrs
      BY DEF Autodevices
    <3>3. Registered(d.id, d.until, d.addr)'
      BY <2>4, <3>1, <3>2 DEF ClientIDs
    <3> QED BY <1>1, <3>1, <3>3 DEF Registered
  <2>9. StoredMade' /\ StoredXorFinalized'
    BY <1>1 DEF StoredMade, StoredXorFinalized, Made, Stored
  <2>10. /\ clients' \in [SacIdx -> [Addrs -> Clients \cup {None}]]
         /\ heap' \in [Clients -> Autodevices \cup {None}]
         /\ shut.pc = "up" => \A c \in Clients : heap'[c] # None => ~heap'[c].closed
    BY <1>1 DEF TypeOK, Background
  <2> QED BY <1>1, <2>3, <2>6, <2>7, <2>8, <2>9, <2>10, MapStep
<1> QED BY <1>4, <1>5
----------------------------------------------------------------------------
(* The collector, Shutdown, the runtime and the clock *)

\* A step in the background, put together from its parts.
LEMMA BackgroundStep ==
  ASSUME IInv, UNCHANGED <<locals, sq, iq>>,
         clock' \in Time, clock <= clock',
         clients' \in [SacIdx -> [Addrs -> Clients \cup {None}]],
         heap' \in [Clients -> Autodevices \cup {None}],
         identified' \in [HumanIDs -> Owners \cup {None}],
         gc' \in [pc : {"select", "clients", "identified", "exited"},
                  now : Time \cup {None}, sac : SacIdx \cup {None}],
         shut' \in [pc : {"up", "closing", "down"}, sac : SacIdx \cup {None}],
         \A s \in SacIdx, a \in Addrs : clients[s][a] = None => clients'[s][a] = None,
         \A r \in Reqs : RefsOf(r)' /\ IDsOf(r)',
         StoredMade', StoredXorFinalized', ClientIDs', Background'
  PROVE  IInv'
<1> USE DEF IInv
<1>1. /\ UNCHANGED <<pc, addr, sac, now, hid, cli>>
      /\ UNCHANGED <<sEntry, sSt, sKey, sGot, iEntry, iSt, iKey, iGot>>
  BY DEF locals, sq, iq
<1>2. SP!IInv' /\ IP!IInv'
  BY <1>1, SearchResults, IdentifyResults, SP!StepIInv, IP!StepIInv DEF SP!qvars, IP!qvars
<1>3. SQ!TypeOK' /\ IQ!TypeOK'
  BY <1>2, QueueTypes, PTL
<1>4. TypeOK'
  BY <1>1, <1>3 DEF TypeOK
<1>5. ASSUME NEW r \in Reqs
      PROVE  InSearchQueue(r)' /\ InIdentifyQueue(r)' /\ Locals(r)' /\ OwnResults(r)'
  <2>1. InSearchQueue(r)'
    BY <1>1 DEF InSearchQueue, SearchRequest, FirstMatch, Candidates, Matches
  <2>2. InIdentifyQueue(r)' /\ OwnResults(r)'
    BY <1>1 DEF InIdentifyQueue, OwnResults
  <2>3. pc[r] \in Emptied => addr[r] \in Addrs /\ sac[r] \in SacIdx
    BY DEF InSearchQueue, Emptied, Searching
  <2>4. clock \in Nat /\ clock' \in Nat /\ (now[r] \in Time => now[r] \in Nat)
    BY DEF TypeOK, Time
  <2>5. Locals(r)'
    BY <1>1, <2>3, <2>4 DEF Locals
  <2> QED BY <2>1, <2>2, <2>5
<1> QED BY <1>2, <1>4, <1>5

\* What a request refers to and has been told stays true when the clients it may
\* refer to and the records of valid IDs are kept.
LEMMA RequestsKept ==
  ASSUME IInv, UNCHANGED <<locals, sq, iq>>, UNCHANGED <<clock, identified>>, HeapKept,
         NEW r \in Reqs
  PROVE  RefsOf(r)' /\ IDsOf(r)'
<1> USE DEF IInv
<1>1. UNCHANGED <<pc, addr, sac, now, hid, cli, sGot, iGot>>
  BY DEF locals, sq, iq
<1>2. cli[r] # None => cli[r] \in Clients
  BY DEF TypeOK
<1>3. RefsOf(r)'
  BY <1>1, <1>2 DEF RefsOf, Made, HeapKept
<1>4. IDsOf(r)'
  BY <1>1 DEF IDsOf, Registered
<1> QED BY <1>3, <1>4

\* Steps of the goroutines themselves, and of the clock.
LEMMA TickStep ==
  ASSUME IInv, GCFire \/ GCExit \/ ShutdownBegin \/ Tick
  PROVE  IInv'
<1> USE DEF IInv
<1>1. UNCHANGED <<locals, sq, iq>> /\ UNCHANGED <<clients, heap, identified>>
  BY DEF GCFire, GCExit, ShutdownBegin, Tick
<1>2. UNCHANGED <<pc, addr, sac, now, hid, cli, sGot, iGot>>
  BY <1>1 DEF locals, sq, iq
<1>3. clock \in Nat /\ clock' \in Nat /\ clock <= clock' /\ clock' \in Time /\ MaxTime \in Nat
  BY StorageAssumption DEF GCFire, GCExit, ShutdownBegin, Tick, TypeOK, Time
<1>4. 1 \in SacIdx
  BY StorageAssumption DEF SacIdx
<1>5. /\ gc' \in [pc : {"select", "clients", "identified", "exited"},
                  now : Time \cup {None}, sac : SacIdx \cup {None}]
      /\ shut' \in [pc : {"up", "closing", "down"}, sac : SacIdx \cup {None}]
  BY <1>4 DEF GCFire, GCExit, ShutdownBegin, Tick, TypeOK
<1>6. Background'
  BY <1>1, <1>3, <1>4 DEF GCFire, GCExit, ShutdownBegin, Tick, TypeOK, Background, Time
<1>7. ASSUME NEW i \in HumanIDs, NEW t \in Time, NEW a, Registered(i, t, a)
      PROVE  Registered(i, t, a)'
  BY <1>1, <1>3, <1>7 DEF Registered, Time
<1>8. ClientIDs'
  <2> SUFFICES ASSUME NEW c \in Clients, heap[c] # None
               PROVE  Registered(heap[c].id, heap[c].until, heap[c].addr)'
    BY <1>1 DEF ClientIDs
  <2>1. PICK d \in Autodevices : d = heap[c]
    BY DEF TypeOK
  <2>2. d.id \in HumanIDs /\ d.until \in Time /\ Registered(d.id, d.until, d.addr)
    BY <2>1 DEF Autodevices, ClientIDs
  <2>3. Registered(d.id, d.until, d.addr)'
    BY <1>7, <2>2
  <2> QED BY <1>1, <2>1, <2>3 DEF Registered
<1>9. ASSUME NEW r \in Reqs PROVE RefsOf(r)' /\ IDsOf(r)'
  <2>1. RefsOf(r)'
    BY <1>1, <1>2 DEF RefsOf, Made
  <2>2. ASSUME NEW h \in Hids, Registered(h.id, h.until, addr[r])
        PROVE  Registered(h.id, h.until, addr[r])'
    BY <1>1, <1>2, <1>3, <2>2 DEF Registered, Hids, Time
  <2>3. hid[r] # None => hid[r] \in Hids
    BY DEF TypeOK
  <2>4. ASSUME pc[r] = "check", identified[hid[r].id] # None
        PROVE  identified[hid[r].id].until \in Nat
    BY <2>4 DEF Locals, TypeOK, Hids, Owners, Time
  <2>5. IDsOf(r)'
    BY <1>1, <1>2, <1>3, <2>2, <2>3, <2>4 DEF IDsOf, Registered
  <2> QED BY <2>1, <2>5
<1>10. StoredMade' /\ StoredXorFinalized'
  BY <1>1 DEF StoredMade, StoredXorFinalized, Made, Stored
<1>11. /\ clients' \in [SacIdx -> [Addrs -> Clients \cup {None}]]
       /\ heap' \in [Clients -> Autodevices \cup {None}]
       /\ identified' \in [HumanIDs -> Owners \cup {None}]
       /\ \A s \in SacIdx, a \in Addrs : clients[s][a] = None => clients'[s][a] = None
  BY <1>1 DEF TypeOK
<1> QED BY <1>1, <1>3, <1>5, <1>6, <1>8, <1>9, <1>10, <1>11, BackgroundStep

\* The collector removes the expired clients of one configuration.
LEMMA GCClientsStep ==
  ASSUME IInv, GCClients
  PROVE  IInv'
<1> USE DEF IInv
<1> DEFINE cs == ExpiredIn(gc.sac, gc.now)
<1>1. /\ UNCHANGED <<locals, sq, iq>> /\ UNCHANGED <<clock, identified>> /\ UNCHANGED shut
      /\ gc.pc = "clients" /\ heap' = SetFinalizer(heap, cs)
      /\ clients' = [clients EXCEPT ![gc.sac] =
                       [a \in Addrs |-> IF @[a] \in cs THEN None ELSE @[a]]]
  BY DEF GCClients
<1>2. gc.sac \in SacIdx /\ gc.now \in Time /\ gc.now <= clock
  BY <1>1 DEF Background
<1>3. /\ cs \in SUBSET Clients
      /\ \A c \in cs : \E a \in Addrs : clients[gc.sac][a] = c
      /\ \A c \in cs : Stored(c)
  BY <1>2 DEF ExpiredIn, Stored
<1>4. ASSUME NEW s \in SacIdx, NEW a \in Addrs
      PROVE  clients'[s][a] = IF clients[s][a] \in cs THEN None ELSE clients[s][a]
  <2>1. CASE s = gc.sac
    <3> HIDE DEF cs
    <3> QED BY <1>1, <1>2, <2>1 DEF TypeOK
  <2>2. CASE s # gc.sac
    <3>1. clients'[s][a] = clients[s][a]
      BY <1>1, <1>2, <2>2 DEF TypeOK
    <3>2. clients[s][a] \notin cs
      <4> HIDE DEF cs
      <4>1. None \notin cs
        BY <1>3, MarkersAssumption
      <4> QED BY <1>2, <1>3, <2>2, <4>1 DEF StoredMade, Made
    <3> QED BY <3>1, <3>2
  <2> QED BY <2>1, <2>2
<1>5. clients' \in [SacIdx -> [Addrs -> Clients \cup {None}]]
  <2> HIDE DEF cs
  <2> QED BY <1>1, <1>2 DEF TypeOK
<1>6. /\ HeapKept /\ heap' \in [Clients -> Autodevices \cup {None}]
      /\ StoredMade' /\ StoredXorFinalized' /\ ClientIDs'
      /\ shut.pc = "up" => \A d \in Clients : heap'[d] # None => ~heap'[d].closed
  <2> HIDE DEF cs
  <2> QED BY <1>1, <1>3, <1>4, Removal
<1>7. \A r \in Reqs : RefsOf(r)' /\ IDsOf(r)'
  BY <1>1, <1>6, RequestsKept
<1>8. /\ gc' \in [pc : {"select", "clients", "identified", "exited"},
                  now : Time \cup {None}, sac : SacIdx \cup {None}]
      /\ gc'.now = gc.now /\ (gc'.pc = "clients" => gc'.sac \in SacIdx)
  <2>1. CASE gc.sac < Len(Sacs)
    <3>1. gc' = [gc EXCEPT !.sac = gc.sac + 1] /\ gc.sac + 1 \in SacIdx
      BY <1>2, <2>1, StorageAssumption DEF GCClients, SacIdx, TypeOK
    <3> QED BY <3>1 DEF TypeOK
  <2>2. CASE ~(gc.sac < Len(Sacs))
    BY <2>2 DEF GCClients, TypeOK
  <2> QED BY <2>1, <2>2
<1>9. Background'
  BY <1>1, <1>2, <1>6, <1>8 DEF Background
<1>10. /\ clock' \in Time /\ clock <= clock' /\ UNCHANGED <<locals, sq, iq>>
       /\ identified' \in [HumanIDs -> Owners \cup {None}]
       /\ shut' \in [pc : {"up", "closing", "down"}, sac : SacIdx \cup {None}]
  BY <1>1 DEF TypeOK, Time
<1>11. \A s \in SacIdx, a \in Addrs : clients[s][a] = None => clients'[s][a] = None
  <2> HIDE DEF cs
  <2> QED BY <1>4
<1> QED BY <1>5, <1>6, <1>7, <1>8, <1>9, <1>10, <1>11, BackgroundStep

\* The IDs that are forgotten have expired.
LEMMA GCIdentifiedStep ==
  ASSUME IInv, GCIdentified
  PROVE  IInv'
<1> USE DEF IInv
<1>1. /\ UNCHANGED <<locals, sq, iq>> /\ UNCHANGED <<clock, clients, heap>> /\ UNCHANGED shut
      /\ gc.pc = "identified" /\ gc' = [pc |-> "select", now |-> None, sac |-> None]
  BY DEF GCIdentified
<1>2. /\ UNCHANGED <<pc, addr, sac, now, hid, cli, sGot, iGot>>
      /\ gc.now \in Nat /\ clock \in Nat /\ gc.now <= clock
  BY <1>1 DEF locals, sq, iq, Background, TypeOK, Time
<1>3. /\ identified' \in [HumanIDs -> Owners \cup {None}]
      /\ \A i \in HumanIDs :
           \/ identified'[i] = identified[i]
           \/ identified'[i] = None /\ identified[i] # None /\ identified[i].until < gc.now
  BY DEF GCIdentified, TypeOK
<1>4. \A i \in HumanIDs : identified[i] # None => identified[i].until \in Nat
  BY DEF TypeOK, Owners, Time
<1>5. ASSUME NEW i \in HumanIDs, NEW t \in Time, NEW a, Registered(i, t, a)
      PROVE  t > clock => /\ identified'[i] # None /\ identified'[i].addr = a
                          /\ identified'[i].until >= t
  BY <1>2, <1>3, <1>4, <1>5 DEF Registered, Time
<1>6. ClientIDs'
  <2> SUFFICES ASSUME NEW c \in Clients, heap[c] # None
               PROVE  Registered(heap[c].id, heap[c].until, heap[c].addr)'
    BY <1>1 DEF ClientIDs
  <2>1. heap[c].id \in HumanIDs /\ heap[c].until \in Time
    BY DEF TypeOK, Autodevices
  <2>2. Registered(heap[c].id, heap[c].until, heap[c].addr)
    BY DEF ClientIDs
  <2> QED BY <1>1, <1>5, <2>1, <2>2 DEF Registered
<1>7. ASSUME NEW r \in Reqs PROVE RefsOf(r)' /\ IDsOf(r)'
  <2>1. RefsOf(r)'
    BY <1>1, <1>2 DEF RefsOf, Made
  <2>2. ASSUME NEW h \in Hids, Registered(h.id, h.until, addr[r])
        PROVE  Registered(h.id, h.until, addr[r])'
    BY <1>1, <1>2, <1>5, <2>2 DEF Registered, Hids
  <2>3. hid[r] # None => hid[r] \in Hids
    BY DEF TypeOK
  <2>4. pc[r] = "check" => hid[r].id \in HumanIDs
    BY DEF Locals, Hids
  <2>5. IDsOf(r)'
    BY <1>1, <1>2, <1>3, <2>2, <2>3, <2>4 DEF IDsOf, Registered
  <2> QED BY <2>1, <2>5
<1>8. StoredMade' /\ StoredXorFinalized' /\ Background'
  BY <1>1 DEF StoredMade, StoredXorFinalized, Made, Stored, Background
<1>9. /\ clock' \in Time /\ clock <= clock'
      /\ clients' \in [SacIdx -> [Addrs -> Clients \cup {None}]]
      /\ heap' \in [Clients -> Autodevices \cup {None}]
      /\ gc' \in [pc : {"select", "clients", "identified", "exited"},
                  now : Time \cup {None}, sac : SacIdx \cup {None}]
      /\ shut' \in [pc : {"up", "closing", "down"}, sac : SacIdx \cup {None}]
      /\ \A s \in SacIdx, a \in Addrs : clients[s][a] = None => clients'[s][a] = None
  BY <1>1 DEF TypeOK, Time
<1> QED BY <1>1, <1>3, <1>6, <1>7, <1>8, <1>9, BackgroundStep

\* What is finalized is not referred to any more.
LEMMA FinalizeStep ==
  ASSUME IInv, NEW c \in Clients, Finalize(c)
  PROVE  IInv'
<1> USE DEF IInv
<1>1. /\ UNCHANGED <<locals, sq, iq>> /\ UNCHANGED <<clock, clients, identified>>
      /\ UNCHANGED <<gc, shut>> /\ heap' = [heap EXCEPT ![c] = None] /\ ~Reachable(c)
  BY DEF Finalize, bg
<1>2. UNCHANGED <<pc, addr, sac, now, hid, cli, sGot, iGot>>
  BY <1>1 DEF locals, sq, iq
<1>3. /\ heap'[c] = None /\ \A d \in Clients \ {c} : heap'[d] = heap[d]
      /\ heap' \in [Clients -> Autodevices \cup {None}]
  BY <1>1 DEF TypeOK
<1>4. /\ \A s \in SacIdx, a \in Addrs : clients[s][a] # c
      /\ \A r \in Reqs : cli[r] # c /\ sGot[r] # c
  BY <1>1 DEF Reachable
<1>5. ASSUME NEW r \in Reqs PROVE RefsOf(r)' /\ IDsOf(r)'
  <2>1. cli[r] # None => cli[r] \in Clients
    BY DEF TypeOK
  <2>2. RefsOf(r)'
    BY <1>2, <1>3, <1>4, <2>1 DEF RefsOf, Made
  <2>3. IDsOf(r)'
    BY <1>1, <1>2 DEF IDsOf, Registered
  <2> QED BY <2>2, <2>3
<1>6. StoredMade'
  <2>1. \A s \in SacIdx, a \in Addrs : clients[s][a] # None => clients[s][a] \in Clients
    BY DEF TypeOK
  <2> QED BY <1>1, <1>3, <1>4, <2>1 DEF StoredMade, Made
<1>7. StoredXorFinalized' /\ ClientIDs' /\ Background'
  BY <1>1, <1>3 DEF StoredXorFinalized, Stored, ClientIDs, Registered, Background
<1>8. /\ clock' \in Time /\ clock <= clock'
      /\ clients' \in [SacIdx -> [Addrs -> Clients \cup {None}]]
      /\ identified' \in [HumanIDs -> Owners \cup {None}]
      /\ gc' \in [pc : {"select", "clients", "identified", "exited"},
                  now : Time \cup {None}, sac : SacIdx \cup {None}]
      /\ shut' \in [pc : {"up", "closing", "down"}, sac : SacIdx \cup {None}]
      /\ \A s \in SacIdx, a \in Addrs : clients[s][a] = None => clients'[s][a] = None
  BY <1>1 DEF TypeOK, Time
<1> QED BY <1>1, <1>3, <1>5, <1>6, <1>7, <1>8, BackgroundStep

\* Shutdown closes clients and nothing else.
LEMMA ShutdownCloseStep ==
  ASSUME IInv, ShutdownClose
  PROVE  IInv'
<1> USE DEF IInv
<1>1. /\ UNCHANGED <<locals, sq, iq>> /\ UNCHANGED <<clock, clients, identified>> /\ UNCHANGED gc
      /\ shut.pc = "closing" /\ shut.sac \in SacIdx
  BY DEF ShutdownClose, Background
<1>2. UNCHANGED <<pc, addr, sac, now, hid, cli, sGot, iGot>>
  BY <1>1 DEF locals, sq, iq
<1>3. ASSUME NEW c \in Clients
      PROVE  /\ heap'[c] \in Autodevices \cup {None}
             /\ heap'[c] = None <=> heap[c] = None
             /\ heap[c] # None => /\ heap'[c].addr = heap[c].addr /\ heap'[c].sac = heap[c].sac
                                  /\ heap'[c].id = heap[c].id /\ heap'[c].until = heap[c].until
                                  /\ heap'[c].fin = heap[c].fin
  <2>1. CASE \E a \in Addrs : clients[shut.sac][a] = c
    <3>1. heap'[c] = [heap[c] EXCEPT !.closed = TRUE]
      BY <2>1 DEF ShutdownClose
    <3>2. heap[c] \in Autodevices /\ None \notin Autodevices \cup Clients
      BY <1>1, <2>1, MarkersAssumption DEF TypeOK, StoredMade, Made
    <3>3. heap'[c] \in Autodevices /\ /\ heap'[c].addr = heap[c].addr /\ heap'[c].sac = heap[c].sac
                                  /\ heap'[c].id = heap[c].id /\ heap'[c].until = heap[c].until
                                  /\ heap'[c].fin = heap[c].fin
      BY ONLY <3>1, <3>2 DEF Autodevices
    <3> QED BY <3>2, <3>3
  <2>2. CASE ~\E a \in Addrs : clients[shut.sac][a] = c
    BY <2>2 DEF ShutdownClose, TypeOK
  <2> QED BY <2>1, <2>2
<1>4. heap' \in [Clients -> Autodevices \cup {None}]
  BY <1>3 DEF ShutdownClose
<1>5. ASSUME NEW r \in Reqs PROVE RefsOf(r)' /\ IDsOf(r)'
  <2>1. cli[r] # None => cli[r] \in Clients
    BY DEF TypeOK
  <2>2. RefsOf(r)'
    BY <1>2, <1>3, <2>1 DEF RefsOf, Made
  <2>3. IDsOf(r)'
    BY <1>1, <1>2 DEF IDsOf, Registered
  <2> QED BY <2>2, <2>3
<1>6. StoredMade'
  <2>1. \A s \in SacIdx, a \in Addrs : clients[s][a] # None => clients[s][a] \in Clients
    BY DEF TypeOK
  <2> QED BY <1>1, <1>3, <2>1 DEF StoredMade, Made
<1>7. StoredXorFinalized' /\ ClientIDs'
  BY <1>1, <1>3 DEF StoredXorFinalized, Stored, ClientIDs, Registered
<1>8. /\ shut' \in [pc : {"up", "closing", "down"}, sac : SacIdx \cup {None}]
      /\ shut'.pc # "up" /\ (shut'.pc = "closing" => shut'.sac \in SacIdx)
  <2>1. CASE shut.sac < Len(Sacs)
    <3>1. shut' = [shut EXCEPT !.sac = shut.sac + 1] /\ shut.sac + 1 \in SacIdx
      BY <1>1, <2>1, StorageAssumption DEF ShutdownClose, SacIdx, TypeOK
    <3> QED BY <1>1, <3>1 DEF TypeOK
  <2>2. CASE ~(shut.sac < Len(Sacs))
    BY <2>2 DEF ShutdownClose
  <2> QED BY <2>1, <2>2
<1>9. Background'
  BY <1>1, <1>8 DEF Background
<1>10. /\ clock' \in Time /\ clock <= clock'
       /\ clients' \in [SacIdx -> [Addrs -> Clients \cup {None}]]
       /\ identified' \in [HumanIDs -> Owners \cup {None}]
       /\ gc' \in [pc : {"select", "clients", "identified", "exited"},
                   now : Time \cup {None}, sac : SacIdx \cup {None}]
       /\ \A s \in SacIdx, a \in Addrs : clients[s][a] = None => clients'[s][a] = None
  BY <1>1 DEF TypeOK, Time
<1> QED BY <1>1, <1>4, <1>5, <1>6, <1>7, <1>8, <1>9, <1>10, BackgroundStep
----------------------------------------------------------------------------
(* The theorems *)

\* The invariant holds of an empty storage.
LEMMA InitInv == Init => IInv
<1> SUFFICES ASSUME Init PROVE IInv
  OBVIOUS
<1> USE DEF Init
<1>1. SP!IInv /\ IP!IInv
  BY SearchResults, IdentifyResults, SP!InitIInv, IP!InitIInv
     DEF SQ!Init, IQ!Init, SP!Init, IP!Init
<1>2. TypeOK
  <2>1. SQ!TypeOK /\ IQ!TypeOK
    BY <1>1, QueueTypes
  <2>2. clock \in Time
    BY StorageAssumption DEF Time
  <2> QED BY <2>1, <2>2 DEF TypeOK
<1>3. ASSUME NEW r \in Reqs
      PROVE  /\ InSearchQueue(r) /\ InIdentifyQueue(r) /\ Locals(r) /\ OwnResults(r)
             /\ RefsOf(r) /\ IDsOf(r)
  BY MarkersAssumption DEF SQ!Init, IQ!Init, InSearchQueue, InIdentifyQueue, Locals, OwnResults,
     RefsOf, IDsOf, Searching, Emptied
<1>4. StoredMade /\ StoredXorFinalized /\ ClientIDs /\ Background
  BY DEF StoredMade, StoredXorFinalized, ClientIDs, Background
<1> QED BY <1>1, <1>2, <1>3, <1>4 DEF IInv

\* Every step of every goroutine keeps it.
LEMMA StepInv == IInv /\ [Next]_vars => IInv'
<1> SUFFICES ASSUME IInv, [Next]_vars PROVE IInv'
  OBVIOUS
<1>1. ASSUME NEW r \in Reqs, Get(r) \/ Proceed(r) \/ Cancel(r) PROVE IInv'
  BY <1>1, GetStep, SearchWaitStep, ReadClockStep, FindStoredStep, FindExpiredStep,
     IdentifyPushStep, IdentifyReturnStep, SourceAnswersStep, SourceFailsStep,
     CheckIdentityStep, DoneCloseStep, CreateStep, SearchOverStep DEF Proceed, Cancel
<1>2. CASE GC \/ GCExit \/ Shutdown \/ Tick
  BY <1>2, TickStep, GCClientsStep, GCIdentifiedStep, ShutdownCloseStep DEF GC, Shutdown
<1>3. CASE \E c \in Clients : Finalize(c)
  BY <1>3, FinalizeStep
<1>4. CASE UNCHANGED vars
  <2>1. UNCHANGED <<locals, sq, iq>> /\ UNCHANGED <<clock, gc, shut, clients, heap, identified>>
    BY <1>4 DEF vars, bg
  <2>2. HeapKept
    BY <2>1 DEF HeapKept
  <2>3. \A r \in Reqs : RefsOf(r)' /\ IDsOf(r)'
    BY <2>1, <2>2, RequestsKept
  <2>4. StoredMade' /\ StoredXorFinalized' /\ ClientIDs' /\ Background'
    BY <2>1 DEF IInv, StoredMade, StoredXorFinalized, ClientIDs, Background, Made, Stored,
                Registered
  <2>5. /\ clock' \in Time /\ clock <= clock'
        /\ clients' \in [SacIdx -> [Addrs -> Clients \cup {None}]]
        /\ heap' \in [Clients -> Autodevices \cup {None}]
        /\ identified' \in [HumanIDs -> Owners \cup {None}]
        /\ gc' \in [pc : {"select", "clients", "identified", "exited"},
                    now : Time \cup {None}, sac : SacIdx \cup {None}]
        /\ shut' \in [pc : {"up", "closing", "down"}, sac : SacIdx \cup {None}]
        /\ \A s \in SacIdx, a \in Addrs : clients[s][a] = None => clients'[s][a] = None
    BY <2>1 DEF IInv, TypeOK, Time
  <2> QED BY <2>1, <2>3, <2>4, <2>5, BackgroundStep
<1> QED BY <1>1, <1>2, <1>3, <1>4 DEF Next

\* The inductive invariant of the storage and its queues.
THEOREM StorageInvariant == Spec => []IInv
  BY InitInv, StepInv, PTL DEF Spec

\* The storage and its queues keep their types.
THEOREM StorageTyped == Spec => []TypeOK
<1>1. IInv => TypeOK
  BY DEF IInv
<1> QED BY <1>1, StorageInvariant, PTL

\* No client is lost without a finalizer, and none that is stored has one.
THEOREM ClientsNotLost == Spec => []StoredXorFinalized
<1>1. IInv => StoredXorFinalized
  BY DEF IInv
<1> QED BY <1>1, StorageInvariant, PTL

\* A request is resolved through a client of its own address and configuration.
THEOREM RequestsServed == Spec => []ServedOwnClient
<1>1. IInv => ServedOwnClient
  BY DEF IInv, RefsOf, Made, ServedOwnClient
<1> QED BY <1>1, StorageInvariant, PTL

\* No request uses closed upstreams before Shutdown.
THEOREM UpstreamsOpen == Spec => []NoUseAfterClose
<1>1. IInv => NoUseAfterClose
  BY DEF IInv, TypeOK, RefsOf, Made, Background, NoUseAfterClose
<1> QED BY <1>1, StorageInvariant, PTL

\* No two addresses have valid clients with the same HumanID.
THEOREM HumanIDsUnique == Spec => []UniqueHumanID
<1>1. IInv => UniqueHumanID
  BY DEF IInv, ClientIDs, Registered, UniqueHumanID
<1> QED BY <1>1, StorageInvariant, PTL

\* The source is asked about an address by one request at a time.
THEOREM SourceExclusive == Spec => []IdentifyExclusive
<1>1. IInv => IdentifyExclusive
  BY OwnAddress DEF IdentifyExclusive
<1> QED BY <1>1, StorageInvariant, PTL

\* Of what a step removes from sac.clients.
LEMMA RemovedExpired ==
  ASSUME IInv, Next, NEW s \in SacIdx, NEW a \in Addrs, clients[s][a] # None,
         clients'[s][a] # clients[s][a]
  PROVE  /\ clients'[s][a] = None
         /\ heap[clients[s][a]].until <= clock
         /\ heap'[clients[s][a]].fin
<1> USE DEF IInv
<1> DEFINE c == clients[s][a]
<1>1. c \in Clients /\ heap[c] \in Autodevices /\ heap[c].until \in Nat /\ clock \in Nat
  BY DEF TypeOK, StoredMade, Made, Autodevices, Time
<1>2. ASSUME NEW r \in Reqs, FindExpired(r)
      PROVE  clients'[s][a] = None /\ heap[c].until <= clock /\ heap'[c].fin
  <2>1. addr[r] \in Addrs /\ sac[r] \in SacIdx /\ now[r] \in Nat /\ now[r] <= clock
    BY <1>2 DEF FindExpired, InSearchQueue, Locals, Time
  <2>2. s = sac[r] /\ a = addr[r] /\ clients'[s][a] = None
    BY <1>2, <2>1 DEF FindExpired, TypeOK
  <2>3. ~(heap[c].until > now[r])
    BY <1>2, <2>2 DEF FindExpired, ValidAt
  <2>4. heap'[c] = [heap[c] EXCEPT !.fin = TRUE]
    BY <1>1, <1>2, <2>2 DEF FindExpired, SetFinalizer
  <2>5. heap'[c].fin
    BY <1>1, <2>4 DEF Autodevices
  <2> QED BY <1>1, <2>1, <2>2, <2>3, <2>5
<1>3. ASSUME GCClients
      PROVE  clients'[s][a] = None /\ heap[c].until <= clock /\ heap'[c].fin
  <2> DEFINE cs == ExpiredIn(gc.sac, gc.now)
  <2>1. gc.sac \in SacIdx /\ gc.now \in Nat /\ gc.now <= clock
    BY <1>3 DEF GCClients, Background, Time
  <2>2. /\ heap' = SetFinalizer(heap, cs)
        /\ clients' = [clients EXCEPT ![gc.sac] =
                         [b \in Addrs |-> IF @[b] \in cs THEN None ELSE @[b]]]
    BY <1>3 DEF GCClients
  <2>3. s = gc.sac /\ c \in cs /\ clients'[s][a] = None
    <3> HIDE DEF cs
    <3> QED BY <2>1, <2>2 DEF TypeOK
  <2>4. gc.now >= heap[c].until
    BY <2>3 DEF ExpiredIn
  <2>5. heap'[c] = [heap[c] EXCEPT !.fin = TRUE]
    BY <1>1, <2>2, <2>3 DEF SetFinalizer
  <2>6. heap'[c].fin
    BY <1>1, <2>5 DEF Autodevices
  <2> QED BY <1>1, <2>1, <2>3, <2>4, <2>6
<1>4. ASSUME NEW r \in Reqs PROVE ~Create(r)
  <2> SUFFICES ASSUME Create(r) PROVE FALSE
    OBVIOUS
  <2>1. /\ addr[r] \in Addrs /\ sac[r] \in SacIdx /\ clients[sac[r]][addr[r]] = None
        /\ \E d \in Clients : clients' = [clients EXCEPT ![sac[r]][addr[r]] = d]
    BY DEF Create, InSearchQueue, Locals, Emptied, Searching
  <2>2. s = sac[r] /\ a = addr[r]
    BY <2>1 DEF TypeOK
  <2> QED BY <2>1, <2>2
<1>5. clients' # clients
  OBVIOUS
<1>6. GCClients \/ \E r \in Reqs : FindExpired(r) \/ Create(r)
  <2>1. ASSUME NEW r \in Reqs, Get(r) \/ Cancel(r) PROVE FALSE
    BY <1>5, <2>1 DEF Get, GetStatic, GetOwn, GetWait, GetAutodevice, Cancel, SearchCancel,
                      IdentifyCancel
  <2>2. ASSUME NEW r \in Reqs, Proceed(r) PROVE FindExpired(r) \/ Create(r)
    BY <1>5, <2>2 DEF Proceed, SearchRecv, ReadClock, FindStored, IdentifyOwn, IdentifyWait,
       IdentifyRecv, SourceAnswers, SourceFails, CheckIdentity, IdentifyDoneClose,
       IdentifyDoneDelete, CreateFails, SearchDoneClose, SearchDoneDelete, Resolve
  <2>3. ASSUME GC \/ GCExit \/ Shutdown \/ Tick \/ \E d \in Clients : Finalize(d) PROVE GCClients
    BY <1>5, <2>3 DEF GC, GCFire, GCIdentified, GCExit, Shutdown, ShutdownBegin, ShutdownClose,
                      Tick, Finalize
  <2> QED BY <2>1, <2>2, <2>3 DEF Next
<1> QED BY <1>2, <1>3, <1>4, <1>6

\* Only expired clients are removed, however old the reading of the clock.
THEOREM RemovalsExpired == Spec => OnlyExpiredRemoved
<1>1. IInv /\ [Next]_vars =>
        [\A s \in SacIdx, a \in Addrs :
           clients[s][a] # None /\ clients'[s][a] # clients[s][a] =>
             /\ clients'[s][a] = None
             /\ heap[clients[s][a]].until <= clock
             /\ heap'[clients[s][a]].fin]_vars
  BY RemovedExpired
<1> QED BY <1>1, StorageInvariant, PTL DEF Spec, OnlyExpiredRemoved

\* Nobody waits for nobody, and nobody waits in a circle: the search that a Get
\* waits for belongs to a Get that is not waiting for a search, and the
\* identification that one waits for belongs to a Get that waits in no queue.
NoCircularWait ==
  \A r \in Reqs :
    /\ pc[r] = "search" /\ sGot[r] = NotYet =>
         \E o \in Reqs : /\ pc[o] \in Searching \cup {"sdone"}
                         /\ addr[o] = addr[r] /\ sac[o] = sac[r]
    /\ pc[r] = "iwait" /\ iGot[r] = NotYet =>
         \E o \in Reqs : pc[o] \in {"source", "check", "idone"} /\ addr[o] = addr[r]

\* Two nested queues and no deadlock between them: a Get that owns a search may
\* wait for an identification, but whoever owns one waits for nobody.
THEOREM WaitsEnd == Spec => []NoCircularWait
<1>1. ASSUME IInv PROVE NoCircularWait
  <2> USE <1>1 DEF IInv
  <2>1. ASSUME NEW r \in Reqs, pc[r] = "search", sGot[r] = NotYet
        PROVE  \E o \in Reqs : /\ pc[o] \in Searching \cup {"sdone"}
                               /\ addr[o] = addr[r] /\ sac[o] = sac[r]
    <3>1. sSt[r] = "wait"
      BY <2>1 DEF InSearchQueue
    <3>2. PICK o \in Reqs : SP!Owns(o, sKey[r])
      BY <2>1, <3>1 DEF SP!IInv, SP!WaiterHasOwner
    <3>3. pc[o] \in Searching \cup {"sdone"} /\ sKey[o] = sKey[r]
      BY <3>2 DEF SP!Owns, InSearchQueue, TypeOK, Searching
    <3>4. addr[o] = addr[r] /\ sac[o] = sac[r]
      BY <2>1, <3>3, SameSearch DEF Searching
    <3> QED BY <3>3, <3>4
  <2>2. ASSUME NEW r \in Reqs, pc[r] = "iwait", iGot[r] = NotYet
        PROVE  \E o \in Reqs : pc[o] \in {"source", "check", "idone"} /\ addr[o] = addr[r]
    <3>1. iSt[r] = "wait" /\ iKey[r] = addr[r]
      BY <2>2 DEF InIdentifyQueue
    <3>2. PICK o \in Reqs : IP!Owns(o, iKey[r])
      BY <2>2, <3>1 DEF IP!IInv, IP!WaiterHasOwner
    <3>3. pc[o] \in {"source", "check", "idone"} /\ iKey[o] = iKey[r]
      BY <3>2 DEF IP!Owns, InIdentifyQueue, TypeOK
    <3> QED BY <3>1, <3>3 DEF InIdentifyQueue
  <2> QED BY <2>1, <2>2 DEF NoCircularWait
<1> QED BY <1>1, StorageInvariant, PTL
=============================================================================
