---------------------------- MODULE QueueProofs ----------------------------
(***************************************************************************)
(* Proofs about Queue, for every set of goroutines, keys and results.      *)
(*                                                                         *)
(* None of the queue's invariants is inductive by itself.  That a key has  *)
(* one owner depends on no waiter ever being handed the zero result, for   *)
(* push would report it as an owner; that depends on the result being set  *)
(* before the channel is closed; and that depends on the entry belonging   *)
(* to the one owner of its key.  IInv is their conjunction.                *)
(***************************************************************************)
EXTENDS Queue, TLAPS

\* An owner that has gone past the assignment of queue.go:66 has set the
\* result.
ResultSet ==
  \A p \in Procs : st[p] \in {"set", "closed"} => entry[key[p]].out \in Results

\* No waiter is handed the zero result, which it would take for ownership.
NeverZero == \A p \in Procs : got[p] # Zero

\* A waiter, like an owner, has a key.
WaiterKey == \A p \in Procs : st[p] = "wait" => key[p] \in Keys

IInv ==
  /\ TypeOK
  /\ SingleFlight
  /\ EntryInFlight
  /\ WaiterHasOwner
  /\ ResultSet
  /\ NeverZero
  /\ WaiterKey

\* The initial state, with an empty map, satisfies the invariant.
LEMMA InitIInv == Init => IInv
  BY ResultsAssumption
  DEF Init, IInv, TypeOK, SingleFlight, EntryInFlight, WaiterHasOwner,
      ResultSet, NeverZero, WaiterKey, Owns

\* An entry that is closed holds a result that was set.
LEMMA ClosedIsSet ==
  ASSUME IInv, NEW k \in Keys, entry[k] # NoEntry, entry[k].done = "closed"
  PROVE  entry[k].out \in Results
  BY DEF IInv, EntryInFlight, ResultSet, Owns

\* Every step of push and done preserves the invariant.
LEMMA StepIInv == IInv /\ [Next]_qvars => IInv'
<1> SUFFICES ASSUME IInv, [Next]_qvars PROVE IInv'
  OBVIOUS
<1> USE DEF IInv
<1>1. CASE UNCHANGED qvars
  BY <1>1 DEF qvars, TypeOK, SingleFlight, EntryInFlight, WaiterHasOwner,
              ResultSet, NeverZero, WaiterKey, Owns
<1>2. ASSUME NEW p \in Procs, NEW k \in Keys, PushStore(p, k)
      PROVE  IInv'
  <2> NewQueueResult \in EntryType
    BY DEF NewQueueResult, EntryType
  <2> USE <1>2 DEF PushStore
  <2>1. TypeOK'
    BY DEF TypeOK
  <2>2. SingleFlight'
    BY DEF SingleFlight, EntryInFlight, TypeOK, Owns
  <2>3. EntryInFlight'
    BY ResultsAssumption DEF EntryInFlight, TypeOK, Owns, NewQueueResult, EntryType
  <2>4. WaiterHasOwner'
    BY DEF WaiterHasOwner, TypeOK, Owns
  <2>5. ResultSet' /\ NeverZero' /\ WaiterKey'
    BY DEF ResultSet, NeverZero, WaiterKey, TypeOK, EntryInFlight
  <2> QED BY <2>1, <2>2, <2>3, <2>4, <2>5
<1>3. ASSUME NEW p \in Procs, NEW k \in Keys, PushLoad(p, k)
      PROVE  IInv'
  <2> USE <1>3 DEF PushLoad
  <2>1. entry[k].done = "closed" => entry[k].out \in Results
    BY ClosedIsSet
  <2>2. TypeOK'
    BY <2>1 DEF TypeOK
  <2>3. SingleFlight' /\ EntryInFlight'
    BY DEF SingleFlight, EntryInFlight, TypeOK, Owns
  <2>4. WaiterHasOwner'
    <3>1. PICK q \in Procs : Owns(q, k)
      BY DEF EntryInFlight
    <3>2. entry[k].done # "closed" => st[q] # "closed"
      BY <3>1 DEF EntryInFlight, Owns
    <3> QED BY <2>1, <3>1, <3>2, ResultsAssumption
            DEF WaiterHasOwner, TypeOK, Owns
  <2>5. ResultSet' /\ NeverZero' /\ WaiterKey'
    BY <2>1, ResultsAssumption DEF ResultSet, NeverZero, WaiterKey, TypeOK
  <2> QED BY <2>2, <2>3, <2>4, <2>5
<1>4. ASSUME NEW p \in Procs, Recv(p)
      PROVE  IInv'
  <2>1. got[p] # Zero
    BY DEF NeverZero
  <2> USE <1>4, <2>1 DEF Recv
  <2>2. TypeOK'
    BY DEF TypeOK
  <2>3. SingleFlight' /\ EntryInFlight'
    BY DEF SingleFlight, EntryInFlight, TypeOK, Owns
  <2>4. WaiterHasOwner'
    BY DEF WaiterHasOwner, TypeOK, Owns
  <2>5. ResultSet' /\ NeverZero' /\ WaiterKey'
    BY ResultsAssumption DEF ResultSet, NeverZero, WaiterKey, TypeOK
  <2> QED BY <2>2, <2>3, <2>4, <2>5
<1>5. ASSUME NEW p \in Procs, Cancel(p)
      PROVE  IInv'
  <2> USE <1>5 DEF Cancel
  <2>1. TypeOK'
    BY DEF TypeOK
  <2>2. SingleFlight' /\ EntryInFlight'
    BY DEF SingleFlight, EntryInFlight, TypeOK, Owns
  <2>3. WaiterHasOwner'
    BY DEF WaiterHasOwner, TypeOK, Owns
  <2>4. ResultSet' /\ NeverZero' /\ WaiterKey'
    BY ResultsAssumption DEF ResultSet, NeverZero, WaiterKey, TypeOK
  <2> QED BY <2>1, <2>2, <2>3, <2>4
<1>6. ASSUME NEW p \in Procs, NEW r \in Results, DoneSet(p, r)
      PROVE  IInv'
  <2>1. key[p] \in Keys /\ entry[key[p]] \in EntryType /\ entry[key[p]].done = "open"
    BY <1>6 DEF DoneSet, EntryInFlight, TypeOK, EntryType
  <2>2. \A q \in Procs : Owns(q, key[p]) => q = p
    BY <1>6, <2>1 DEF SingleFlight, Owns, DoneSet
  <2>3. entry'[key[p]] = [out |-> r, done |-> "open"]
    BY <1>6, <2>1 DEF DoneSet, TypeOK, EntryType
  <2>4. \A k \in Keys : k # key[p] => entry'[k] = entry[k]
    BY <1>6, <2>1 DEF DoneSet, TypeOK
  <2> USE <1>6, <2>1 DEF DoneSet
  <2>5. TypeOK'
    BY <2>3 DEF TypeOK, EntryType
  <2>6. SingleFlight'
    BY DEF SingleFlight, TypeOK, Owns
  <2>7. EntryInFlight'
    BY <2>2, <2>3, <2>4, ResultsAssumption DEF EntryInFlight, TypeOK, Owns
  <2>8. WaiterHasOwner'
    BY DEF WaiterHasOwner, TypeOK, Owns
  <2>9. ResultSet' /\ NeverZero' /\ WaiterKey'
    BY <2>2, <2>3, <2>4
    DEF ResultSet, NeverZero, WaiterKey, TypeOK, EntryInFlight, Owns
  <2> QED BY <2>5, <2>6, <2>7, <2>8, <2>9
<1>7. ASSUME NEW p \in Procs, DoneClose(p)
      PROVE  IInv'
  <2>1. key[p] \in Keys /\ entry[key[p]] \in EntryType
        /\ entry[key[p]].out \in Results
    BY <1>7 DEF DoneClose, EntryInFlight, TypeOK, ResultSet
  <2>2. \A q \in Procs : Owns(q, key[p]) => q = p
    BY <1>7, <2>1 DEF SingleFlight, Owns, DoneClose
  <2>3. entry'[key[p]] = [out |-> entry[key[p]].out, done |-> "closed"]
    BY <1>7, <2>1 DEF DoneClose, TypeOK, EntryType
  <2>4. \A k \in Keys : k # key[p] => entry'[k] = entry[k]
    BY <1>7, <2>1 DEF DoneClose, TypeOK
  <2> USE <1>7, <2>1 DEF DoneClose
  <2>5. TypeOK'
    BY <2>3 DEF TypeOK, EntryType
  <2>6. SingleFlight'
    BY DEF SingleFlight, TypeOK, Owns
  <2>7. EntryInFlight'
    BY <2>2, <2>3, <2>4, ResultsAssumption DEF EntryInFlight, TypeOK, Owns
  <2>8. WaiterHasOwner'
    BY <2>2, ResultsAssumption DEF WaiterHasOwner, TypeOK, Owns
  <2>9. ResultSet' /\ NeverZero' /\ WaiterKey'
    BY <2>2, <2>3, <2>4, ResultsAssumption
    DEF ResultSet, NeverZero, WaiterKey, TypeOK, EntryInFlight, Owns
  <2> QED BY <2>5, <2>6, <2>7, <2>8, <2>9
<1>8. ASSUME NEW p \in Procs, DoneDelete(p)
      PROVE  IInv'
  <2>1. key[p] \in Keys
    BY <1>8 DEF DoneDelete, EntryInFlight
  <2>2. \A q \in Procs : Owns(q, key[p]) => q = p
    BY <1>8, <2>1 DEF SingleFlight, Owns, DoneDelete
  <2> USE <1>8, <2>1 DEF DoneDelete
  <2>3. TypeOK'
    BY DEF TypeOK
  <2>4. SingleFlight'
    BY DEF SingleFlight, TypeOK, Owns
  <2>5. EntryInFlight'
    BY <2>2 DEF EntryInFlight, TypeOK, Owns
  <2>6. WaiterHasOwner'
    BY DEF WaiterHasOwner, TypeOK, Owns
  <2>7. ResultSet' /\ NeverZero' /\ WaiterKey'
    BY <2>2 DEF ResultSet, NeverZero, WaiterKey, TypeOK, EntryInFlight, Owns
  <2> QED BY <2>3, <2>4, <2>5, <2>6, <2>7
<1> QED
  BY <1>1, <1>2, <1>3, <1>4, <1>5, <1>6, <1>7, <1>8 DEF Next, ProcStep

\* What a step of p leaves alone of another goroutine q: its place in the queue
\* and, if it is an owner, its result.  A waiter may be handed p's result.
LEMMA OthersKept ==
  \A p, q \in Procs : IInv /\ ProcStep(p) /\ q # p =>
    /\ st'[q] = st[q] /\ key'[q] = key[q]
    /\ st[q] # "wait" => got'[q] = got[q]
    /\ st[q] \in {"own", "set", "closed"} => entry'[key[q]].out = entry[key[q]].out
    /\ \/ got'[q] = got[q]
       \/ st[q] = "wait" /\ st[p] = "set" /\ key[q] = key[p] /\ got'[q] = entry[key[p]].out
<1> SUFFICES ASSUME NEW p \in Procs, NEW q \in Procs, IInv, ProcStep(p), q # p
             PROVE  /\ st'[q] = st[q] /\ key'[q] = key[q]
                    /\ st[q] # "wait" => got'[q] = got[q]
                    /\ st[q] \in {"own", "set", "closed"} =>
                         entry'[key[q]].out = entry[key[q]].out
                    /\ \/ got'[q] = got[q]
                       \/ /\ st[q] = "wait" /\ st[p] = "set" /\ key[q] = key[p]
                          /\ got'[q] = entry[key[p]].out
  OBVIOUS
<1>1. st[p] \in {"own", "set", "closed"} /\ st[q] \in {"own", "set", "closed"} =>
        key[q] # key[p]
  BY DEF IInv, SingleFlight, EntryInFlight, Owns
<1>2. st[q] \in {"own", "set", "closed"} => key[q] \in Keys /\ entry[key[q]] # NoEntry
  BY DEF IInv, EntryInFlight
<1>3. CASE \E k \in Keys : PushStore(p, k) \/ PushLoad(p, k)
  BY <1>2, <1>3 DEF PushStore, PushLoad, IInv, TypeOK
<1>4. CASE Recv(p) \/ Cancel(p)
  BY <1>4 DEF Recv, Cancel, IInv, TypeOK
<1>5. CASE (\E r \in Results : DoneSet(p, r)) \/ DoneDelete(p)
  BY <1>1, <1>2, <1>5 DEF DoneSet, DoneDelete, IInv, TypeOK
<1>6. CASE DoneClose(p)
  BY <1>1, <1>2, <1>6 DEF DoneClose, IInv, TypeOK
<1> QED BY <1>3, <1>4, <1>5, <1>6 DEF ProcStep

\* DoneSet sets the result of its own entry.
LEMMA DoneSetSets ==
  \A p \in Procs, r \in Results : IInv /\ DoneSet(p, r) =>
    entry'[key[p]].out = r /\ st'[p] = "set" /\ key'[p] = key[p] /\ got'[p] = got[p]
  BY DEF DoneSet, IInv, TypeOK, EntryInFlight, EntryType

\* Of what a waiter is handed at once when it pushes: the result of an owner that
\* has closed its channel.
LEMMA LoadedFromOwner ==
  \A p \in Procs, k \in Keys : IInv /\ PushLoad(p, k) =>
    \/ got'[p] = NotYet
    \/ \E o \in Procs : o # p /\ Owns(o, k) /\ st[o] = "closed" /\ got'[p] = entry[key[o]].out
  BY DEF PushLoad, IInv, TypeOK, EntryInFlight, Owns

\* The inductive invariant holds in every reachable state.
THEOREM QueueInvariant == Spec => []IInv
  BY InitIInv, StepIInv, PTL DEF Spec

\* The queue's state stays well typed.
THEOREM QueueTyped == Spec => []TypeOK
<1>1. IInv => TypeOK
  BY DEF IInv
<1> QED BY <1>1, QueueInvariant, PTL

\* The queue deduplicates: however pushes interleave with the three steps of
\* done, no key ever has two owners.
THEOREM QueueSingleFlight == Spec => []SingleFlight
<1>1. IInv => SingleFlight
  BY DEF IInv
<1> QED BY <1>1, QueueInvariant, PTL

\* done always finds its entry, so its panic is unreachable, and it never
\* closes a channel twice.
THEOREM QueueEntryInFlight == Spec => []EntryInFlight
<1>1. IInv => EntryInFlight
  BY DEF IInv
<1> QED BY <1>1, QueueInvariant, PTL

\* No waiter is left behind by an operation that has finished.
THEOREM QueueWaiterHasOwner == Spec => []WaiterHasOwner
<1>1. IInv => WaiterHasOwner
  BY DEF IInv
<1> QED BY <1>1, QueueInvariant, PTL
============================================================================
