------------------------------- MODULE Queue -------------------------------
(***************************************************************************)
(* The deduplicating queue of internal/client/queue.go: a map from keys to *)
(* operations in progress.  The first goroutine to push a key owns the     *)
(* operation and must complete it with done; goroutines that push the same *)
(* key meanwhile wait on the operation's channel and are given its result. *)
(*                                                                         *)
(* push tells the owner apart by what it returns: the zero value and a nil *)
(* error mean "you own the key".  The model keeps that convention, so a    *)
(* waiter that was handed the zero result would take itself for an owner   *)
(* (action Recv).  push and done are split at every access to shared       *)
(* state; a queueResult is named by its key, and the result a waiter reads *)
(* through its pointer once the channel is closed is put in its mailbox    *)
(* got when the channel is closed: nothing writes res and err after that.  *)
(*                                                                         *)
(* The module is used twice by ClientStorage, as searchQueue and as        *)
(* identifyQueue, by conjoining its actions to the caller's steps.         *)
(***************************************************************************)

CONSTANTS
  Procs,    \* the goroutines that use the queue
  Keys,     \* the keys
  Results,  \* the (res, err) pairs done is called with
  Zero,     \* the pair (zero value, nil)
  NoKey,    \* "this goroutine is not in the queue"
  NoEntry,  \* "the map has nothing under this key"
  NotYet    \* "the channel is still open"

\* Both callers pass done a non-nil value or a non-nil error.
ASSUME ResultsAssumption ==
  /\ Zero \notin Results \cup {NotYet}
  /\ NotYet \notin Results
  /\ NoKey \notin Keys
  /\ NoEntry \notin [out : Results \cup {Zero}, done : {"open", "closed"}]

VARIABLES
  entry,    \* the map: key -> *queueResult
  st,       \* where each goroutine is in push or done
  key,      \* the key it is using
  got       \* what a waiter has been handed

qvars == <<entry, st, key, got>>

\* Mutant of NewQueueResult: the result does not start as the zero value.
NewQueueResultUnset == [out |-> NotYet, done |-> "open"]

\* A fresh &queueResult[V]{done: make(chan unit)}.
NewQueueResult == [out |-> Zero, done |-> "open"]

Init ==
  /\ entry = [k \in Keys |-> NoEntry]
  /\ st = [p \in Procs |-> "idle"]
  /\ key = [p \in Procs |-> NoKey]
  /\ got = [p \in Procs |-> NotYet]

----------------------------------------------------------------------------
(* push *)

\* LoadOrStore stores: push returns at once and the caller owns k.
PushStore(p, k) ==
  /\ st[p] = "idle"
  /\ entry[k] = NoEntry
  /\ entry' = [entry EXCEPT ![k] = NewQueueResult]
  /\ st' = [st EXCEPT ![p] = "own"]
  /\ key' = [key EXCEPT ![p] = k]
  /\ UNCHANGED got

\* Mutant of PushLoad: the wake-up is lost when the channel is closed already.
PushLoadMissesClose(p, k) ==
  /\ st[p] = "idle"
  /\ entry[k] # NoEntry
  /\ st' = [st EXCEPT ![p] = "wait"]
  /\ key' = [key EXCEPT ![p] = k]
  /\ UNCHANGED <<entry, got>>

\* LoadOrStore loads: the caller selects on the channel, which may already be
\* closed when done has not deleted the key yet.
PushLoad(p, k) ==
  /\ st[p] = "idle"
  /\ entry[k] # NoEntry
  /\ st' = [st EXCEPT ![p] = "wait"]
  /\ key' = [key EXCEPT ![p] = k]
  /\ got' = [got EXCEPT ![p] = IF entry[k].done = "closed" THEN entry[k].out ELSE NotYet]
  /\ UNCHANGED entry

\* The channel is closed: push returns the result.  A zero result reads as
\* ownership.
Recv(p) ==
  /\ st[p] = "wait"
  /\ got[p] # NotYet
  /\ st' = [st EXCEPT ![p] = IF got[p] = Zero THEN "own" ELSE "idle"]
  /\ key' = [key EXCEPT ![p] = IF got[p] = Zero THEN @ ELSE NoKey]
  /\ got' = [got EXCEPT ![p] = NotYet]
  /\ UNCHANGED entry

\* ctx is done: push returns (zero, ctx.Err()).  When the channel is closed as
\* well the select may still take this case.
Cancel(p) ==
  /\ st[p] = "wait"
  /\ st' = [st EXCEPT ![p] = "idle"]
  /\ key' = [key EXCEPT ![p] = NoKey]
  /\ got' = [got EXCEPT ![p] = NotYet]
  /\ UNCHANGED entry

----------------------------------------------------------------------------
(* done *)

\* Mutant of DoneSet: the channel will be closed on a result that was not set.
DoneSetForgetsResult(p, r) ==
  /\ st[p] = "own"
  /\ entry[key[p]] # NoEntry
  /\ st' = [st EXCEPT ![p] = "set"]
  /\ UNCHANGED <<entry, key, got>>

\* Load the entry, which must be there, and set its result.
DoneSet(p, r) ==
  /\ st[p] = "own"
  /\ entry[key[p]] # NoEntry
  /\ entry' = [entry EXCEPT ![key[p]].out = r]
  /\ st' = [st EXCEPT ![p] = "set"]
  /\ UNCHANGED <<key, got>>

\* Mutant of DoneClose: the channel is never closed.
DoneCloseForgets(p) ==
  /\ st[p] = "set"
  /\ st' = [st EXCEPT ![p] = "closed"]
  /\ UNCHANGED <<entry, key, got>>

\* Close the channel: every goroutine blocked on it can read the result.
DoneClose(p) ==
  /\ st[p] = "set"
  /\ entry' = [entry EXCEPT ![key[p]].done = "closed"]
  /\ got' = [q \in Procs |->
               IF st[q] = "wait" /\ key[q] = key[p] /\ got[q] = NotYet
               THEN entry[key[p]].out ELSE got[q]]
  /\ st' = [st EXCEPT ![p] = "closed"]
  /\ UNCHANGED key

\* Mutant of DoneDelete: the finished operation stays in the map.
DoneDeleteForgets(p) ==
  /\ st[p] = "closed"
  /\ st' = [st EXCEPT ![p] = "idle"]
  /\ key' = [key EXCEPT ![p] = NoKey]
  /\ UNCHANGED <<entry, got>>

\* Delete the key: the next push of it starts a new operation.
DoneDelete(p) ==
  /\ st[p] = "closed"
  /\ entry' = [entry EXCEPT ![key[p]] = NoEntry]
  /\ st' = [st EXCEPT ![p] = "idle"]
  /\ key' = [key EXCEPT ![p] = NoKey]
  /\ UNCHANGED got

----------------------------------------------------------------------------

ProcStep(p) ==
  \/ \E k \in Keys : PushStore(p, k) \/ PushLoad(p, k)
  \/ Recv(p)
  \/ Cancel(p)
  \/ \E r \in Results : DoneSet(p, r)
  \/ DoneClose(p)
  \/ DoneDelete(p)

Next == \E p \in Procs : ProcStep(p)

Spec == Init /\ [][Next]_qvars

(***************************************************************************)
(* A goroutine that is in the queue keeps running: both callers defer done *)
(* right after push returns ownership.  Starting a push and cancelling a   *)
(* context are never forced.                                               *)
(***************************************************************************)
Progress(p) ==
  \/ Recv(p)
  \/ \E r \in Results : DoneSet(p, r)
  \/ DoneClose(p)
  \/ DoneDelete(p)

FairSpec == Spec /\ \A p \in Procs : WF_qvars(Progress(p))

----------------------------------------------------------------------------
(* Properties *)

EntryType == [out : Results \cup {Zero}, done : {"open", "closed"}]

\* Type invariant of the queue's state.
TypeOK ==
  /\ entry \in [Keys -> EntryType \cup {NoEntry}]
  /\ st \in [Procs -> {"idle", "wait", "own", "set", "closed"}]
  /\ key \in [Procs -> Keys \cup {NoKey}]
  /\ got \in [Procs -> Results \cup {Zero, NotYet}]

\* p has pushed k as its owner and has not finished done.
Owns(p, k) == st[p] \in {"own", "set", "closed"} /\ key[p] = k

\* Between push and the end of done a key has one owner at most, however the
\* three steps of done interleave with other pushes: this is what makes the
\* queue deduplicate "concurrent operations" (queue.go:11).
SingleFlight ==
  \A p, q \in Procs : \A k \in Keys : Owns(p, k) /\ Owns(q, k) => p = q

\* The map has an entry exactly while an operation is in flight, and the entry
\* stays open until its owner closes it.  So done always finds its entry and
\* never panics, never closes a closed channel, and a push that begins after
\* done has returned is never answered from the finished operation.
EntryInFlight ==
  /\ \A k \in Keys : entry[k] # NoEntry => \E p \in Procs : Owns(p, k)
  /\ \A p \in Procs : st[p] \in {"own", "set", "closed"} =>
        /\ key[p] \in Keys
        /\ entry[key[p]] # NoEntry
        /\ entry[key[p]].done = "closed" <=> st[p] = "closed"

\* A goroutine that waits for a result waits for an operation that is still in
\* flight and whose channel is still open, so that its wake-up cannot be lost
\* in the window between close and Delete (queue.go:68-69).
WaiterHasOwner ==
  \A p \in Procs : st[p] = "wait" /\ got[p] = NotYet =>
    \E q \in Procs : Owns(q, key[p]) /\ st[q] # "closed"

\* A waiter whose context stays alive is woken: its push returns.
WaiterReleased == \A p \in Procs : st[p] = "wait" ~> st[p] # "wait"

=============================================================================
