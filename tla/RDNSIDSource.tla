---------------------------- MODULE RDNSIDSource ----------------------------
(***************************************************************************)
(* The identifier source of internal/client/rdnsidsource.go: the HumanID   *)
(* of an address is made from the PTR records of its reverse lookup.       *)
(* Answers are cached by address, for the TTL of the record, in a go-cache *)
(* whose janitor evicts expired items from a goroutine of its own;         *)
(* existingIDs indexes the IDs that have been given out.                   *)
(*                                                                         *)
(* Identify is not called concurrently for one address (see                *)
(* ClientStorage!IdentifyExclusive), so a call is named by its address.    *)
(* fqdnToHumanID is abstracted to its outcome: a PTR record either yields  *)
(* an ID or is invalid (NoID).  The records of a response are chosen one   *)
(* by one as the loop reads them.                                          *)
(***************************************************************************)
EXTENDS Integers, FiniteSets

CONSTANTS
  Addrs, HumanIDs,
  NoID,         \* the outcome of fqdnToHumanID for an invalid name
  None,
  MaxTTL,       \* bound: the longest TTL of a record
  NegTTL,       \* defaultCacheTTL, for negative answers
  MaxPTRs,      \* bound: the records of a response
  MaxCleanups,  \* bound: how often the janitor runs
  MaxTime       \* bound: the clock stops here

ASSUME RDNSAssumption ==
  /\ NoID \notin HumanIDs
  /\ {MaxTTL, NegTTL, MaxPTRs, MaxCleanups, MaxTime} \subseteq Nat

Hids == [id : HumanIDs, until : Nat]
PTRs == [id : HumanIDs \cup {NoID}, ttl : 0..MaxTTL]

\* What go-cache keeps of an answer, whose id is None if it is a negative one.
Items == [id : Hids \cup {None}, exp : Nat]

ASSUME NoneAssumption == None \notin Nat \cup Hids \cup Items

VARIABLES
  clock,
  pc, now, left, hid,  \* each call: its step, its now, the records left, its id
  existingIDs,         \* ID -> the time until which it is valid
  cache,               \* address -> item
  evicted,             \* the items the janitor has removed and not reported yet
  cleanups             \* how often the janitor has run

vars == <<clock, pc, now, left, hid, existingIDs, cache, evicted, cleanups>>

Init ==
  /\ clock = 0
  /\ pc = [a \in Addrs |-> "idle"]
  /\ now = [a \in Addrs |-> None]
  /\ left = [a \in Addrs |-> 0]
  /\ hid = [a \in Addrs |-> None]
  /\ existingIDs = [h \in HumanIDs |-> None]
  /\ cache = [a \in Addrs |-> None]
  /\ evicted = {}
  /\ cleanups = 0

----------------------------------------------------------------------------
(* go-cache *)

\* Get finds an item that has not expired.
Fresh(a) == cache[a] # None /\ clock <= cache[a].exp

\* Set replaces whatever item there is, without reporting it as evicted.
CacheSet(a, h, ttl) ==
  cache' = [cache EXCEPT ![a] = [id |-> h, exp |-> clock + ttl]]

----------------------------------------------------------------------------
(* Identify *)

\* replyFromCache has an answer, which is returned.
ReplyFromCache(a) ==
  /\ pc[a] = "idle"
  /\ Fresh(a)
  /\ UNCHANGED vars

\* It has none: the PTR request is sent.
SendDNSRequest(a) ==
  /\ pc[a] = "idle"
  /\ ~Fresh(a)
  /\ pc' = [pc EXCEPT ![a] = "exchange"]
  /\ UNCHANGED <<clock, now, left, hid, existingIDs, cache, evicted, cleanups>>

\* The exchange fails; the failure is not cached.
ExchangeFails(a) ==
  /\ pc[a] = "exchange"
  /\ pc' = [pc EXCEPT ![a] = "idle"]
  /\ UNCHANGED <<clock, now, left, hid, existingIDs, cache, evicted, cleanups>>

\* The response has an rcode other than success, which is cached.
BadRcode(a) ==
  /\ pc[a] = "exchange"
  /\ CacheSet(a, None, NegTTL)
  /\ pc' = [pc EXCEPT ![a] = "idle"]
  /\ UNCHANGED <<clock, now, left, hid, existingIDs, evicted, cleanups>>

\* humanIDFromResponse reads the clock and begins its loop over n records.
ReadResponse(a, n) ==
  /\ pc[a] = "exchange"
  /\ now' = [now EXCEPT ![a] = clock]
  /\ left' = [left EXCEPT ![a] = n]
  /\ pc' = [pc EXCEPT ![a] = "parse"]
  /\ UNCHANGED <<clock, hid, existingIDs, cache, evicted, cleanups>>

\* checkDuplicates rejects h at time t.
Duplicated(h, t) == existingIDs[h] # None /\ existingIDs[h] > t

\* humanIDFromPTR rejects the record: no TTL, an invalid name, a duplicate.
SkipPTR(a, ptr) ==
  /\ pc[a] = "parse"
  /\ left[a] > 0
  /\ ptr.ttl = 0 \/ ptr.id = NoID \/ (ptr.id \in HumanIDs /\ Duplicated(ptr.id, now[a]))
  /\ left' = [left EXCEPT ![a] = @ - 1]
  /\ UNCHANGED <<clock, pc, now, hid, existingIDs, cache, evicted, cleanups>>

\* Mutant of TakePTR: the ID is checked and not indexed.
TakePTRNoIndex(a, ptr) ==
  /\ pc[a] = "parse"
  /\ left[a] > 0
  /\ ptr.ttl > 0
  /\ ptr.id \in HumanIDs
  /\ ~Duplicated(ptr.id, now[a])
  /\ hid' = [hid EXCEPT ![a] = [id |-> ptr.id, until |-> now[a] + ptr.ttl]]
  /\ pc' = [pc EXCEPT ![a] = "set"]
  /\ UNCHANGED <<clock, now, left, existingIDs, cache, evicted, cleanups>>

\* Mutant of TakePTR: the ID is indexed for as long as a negative answer.
TakePTRLongIndex(a, ptr) ==
  /\ pc[a] = "parse"
  /\ left[a] > 0
  /\ ptr.ttl > 0
  /\ ptr.id \in HumanIDs
  /\ ~Duplicated(ptr.id, now[a])
  /\ existingIDs' = [existingIDs EXCEPT ![ptr.id] = now[a] + NegTTL]
  /\ hid' = [hid EXCEPT ![a] = [id |-> ptr.id, until |-> now[a] + ptr.ttl]]
  /\ pc' = [pc EXCEPT ![a] = "set"]
  /\ UNCHANGED <<clock, now, left, cache, evicted, cleanups>>

\* It accepts the record: checkDuplicates indexes the ID under mu.
TakePTR(a, ptr) ==
  /\ pc[a] = "parse"
  /\ left[a] > 0
  /\ ptr.ttl > 0
  /\ ptr.id \in HumanIDs
  /\ ~Duplicated(ptr.id, now[a])
  /\ existingIDs' = [existingIDs EXCEPT ![ptr.id] = now[a] + ptr.ttl]
  /\ hid' = [hid EXCEPT ![a] = [id |-> ptr.id, until |-> now[a] + ptr.ttl]]
  /\ pc' = [pc EXCEPT ![a] = "set"]
  /\ UNCHANGED <<clock, now, left, cache, evicted, cleanups>>

\* The ID is cached for its TTL, counted from now on, and returned.
CacheID(a) ==
  /\ pc[a] = "set"
  /\ CacheSet(a, hid[a], hid[a].until - now[a])
  /\ pc' = [pc EXCEPT ![a] = "idle"]
  /\ now' = [now EXCEPT ![a] = None]
  /\ left' = [left EXCEPT ![a] = 0]
  /\ hid' = [hid EXCEPT ![a] = None]
  /\ UNCHANGED <<clock, existingIDs, evicted, cleanups>>

\* No record was accepted: the negative answer is cached.
NoValidPTR(a) ==
  /\ pc[a] = "parse"
  /\ left[a] = 0
  /\ CacheSet(a, None, NegTTL)
  /\ pc' = [pc EXCEPT ![a] = "idle"]
  /\ now' = [now EXCEPT ![a] = None]
  /\ UNCHANGED <<clock, left, hid, existingIDs, evicted, cleanups>>

----------------------------------------------------------------------------
(* The janitor and the clock *)

\* DeleteExpired removes the expired items under the cache's lock.
DeleteExpired ==
  /\ cleanups < MaxCleanups
  /\ evicted = {}
  /\ LET expired == {a \in Addrs : cache[a] # None /\ cache[a].exp < clock} IN
       /\ evicted' = {cache[a].id : a \in expired}
       /\ cache' = [a \in Addrs |-> IF a \in expired THEN None ELSE cache[a]]
  /\ cleanups' = cleanups + 1
  /\ UNCHANGED <<clock, pc, now, left, hid, existingIDs>>

\* Then, without that lock, it reports them one by one: OnEvicted forgets the
\* item's ID, whoever it belongs to by now.
OnEvicted(h) ==
  /\ h \in evicted
  /\ existingIDs' = IF h = None THEN existingIDs
                    ELSE [existingIDs EXCEPT ![h.id] = None]
  /\ evicted' = evicted \ {h}
  /\ UNCHANGED <<clock, pc, now, left, hid, cache, cleanups>>

Tick ==
  /\ clock < MaxTime
  /\ clock' = clock + 1
  /\ UNCHANGED <<pc, now, left, hid, existingIDs, cache, evicted, cleanups>>

Identify(a) ==
  \/ ReplyFromCache(a)
  \/ SendDNSRequest(a)
  \/ ExchangeFails(a)
  \/ BadRcode(a)
  \/ \E n \in 0..MaxPTRs : ReadResponse(a, n)
  \/ \E ptr \in PTRs : SkipPTR(a, ptr) \/ TakePTR(a, ptr)
  \/ CacheID(a)
  \/ NoValidPTR(a)

Next ==
  \/ \E a \in Addrs : Identify(a)
  \/ DeleteExpired
  \/ \E h \in evicted : OnEvicted(h)
  \/ Tick

Spec == Init /\ [][Next]_vars

----------------------------------------------------------------------------
(* Properties *)

\* The types of the source, for the reader; the runs check what follows.
TypeOK ==
  /\ clock \in 0..MaxTime
  /\ pc \in [Addrs -> {"idle", "exchange", "parse", "set"}]
  /\ now \in [Addrs -> 0..MaxTime \cup {None}]
  /\ left \in [Addrs -> 0..MaxPTRs]
  /\ hid \in [Addrs -> Hids \cup {None}]
  /\ existingIDs \in [HumanIDs -> Nat \cup {None}]
  /\ cache \in [Addrs -> Items \cup {None}]
  /\ evicted \subseteq Hids \cup {None}
  /\ cleanups \in 0..MaxCleanups

\* a has been given h: the ID is cached, or about to be.
Holds(a, h) == hid[a] = h \/ (cache[a] # None /\ cache[a].id = h)

\* No two addresses hold the same ID while both are valid: existingIDs is there
\* "to avoid duplicated IDs" (rdnsidsource.go:57).
NoDuplicateIDs ==
  \A a, b \in Addrs : \A h \in HumanIDs : \A t, u \in clock + 1..MaxTime + MaxTTL :
    Holds(a, [id |-> h, until |-> t]) /\ Holds(b, [id |-> h, until |-> u]) => a = b

\* Two identifications that race for an ID never both get it, as long as nothing
\* has been evicted: the check and the indexing are one critical section.
NoDuplicateIDsInRace == cleanups = 0 => NoDuplicateIDs

\* An ID that is reserved in the index is held by an address, for exactly as
\* long: checkDuplicates rejects an ID only if some address has it, and no
\* path from the check to the cache gives up half way.
IndexBacked ==
  \A h \in HumanIDs :
    existingIDs[h] # None /\ existingIDs[h] > clock =>
      \E a \in Addrs : Holds(a, [id |-> h, until |-> existingIDs[h]])
=============================================================================
