--------------------------- MODULE HumanIDSources ---------------------------
(***************************************************************************)
(* The identifier source that newHumanIDSource gives to the storage        *)
(* (internal/cmd/clientstorage.go): a ConsequentHumanIDSource that asks    *)
(* the source of RDNSIDSource and, when that has no answer, a              *)
(* DefaultHumanIDSource (internal/client/humanidsource.go).  Without       *)
(* private upstreams it is the latter alone, which answers as if every     *)
(* exchange had failed.                                                    *)
(*                                                                         *)
(* The default ID is made from the address, here the pair <<"dev", a>>.    *)
(* It is assumed that no PTR record yields such an ID (DefaultAssumption). *)
(***************************************************************************)
EXTENDS RDNSIDSource

CONSTANT ValidityIvl   \* defaultClientValidityIvl

ASSUME ValidityAssumption == ValidityIvl \in Nat

DefaultID(a) == <<"dev", a>>

ASSUME DefaultAssumption == \A a \in Addrs : DefaultID(a) \notin HumanIDs

AllIDs == HumanIDs \cup {DefaultID(a) : a \in Addrs}

VARIABLES
  src,    \* the source that each call of the chain asks
  given   \* history: the answers that have not expired, as in IDContract

chainVars == <<vars, src, given>>

Validity == IF MaxTTL > ValidityIvl THEN MaxTTL ELSE ValidityIvl

Contract == INSTANCE IDContract WITH
              IDs <- AllIDs, Times <- 0..MaxTime + Validity, MaxValidity <- Validity

ChainInit ==
  /\ Init
  /\ src = [a \in Addrs |-> "rdns"]
  /\ Contract!Init

----------------------------------------------------------------------------
(* ConsequentHumanIDSource.Identify *)

\* A source has answered: h is returned, and the next call begins anew.
Return(a, h) ==
  /\ given' = Contract!Given(a, h, clock)
  /\ src' = [src EXCEPT ![a] = "rdns"]

\* The first source has returned an error: the second one is asked.
Continue(a) ==
  /\ src' = [src EXCEPT ![a] = "default"]
  /\ UNCHANGED given

\* Mutant of Cached: what is cached is not trusted for longer than a tick.
CachedBriefly(a) ==
  /\ src[a] = "rdns"
  /\ ReplyFromCache(a)
  /\ IF cache[a].id = None THEN Continue(a)
     ELSE Return(a, [id |-> cache[a].id.id, until |-> clock + 1])

\* Mutant of Cached: the loop goes on after an answer from the cache.
CachedContinues(a) ==
  /\ src[a] = "rdns"
  /\ ReplyFromCache(a)
  /\ Continue(a)

\* The first source answers from its cache, which is an error for None.
Cached(a) ==
  /\ src[a] = "rdns"
  /\ ReplyFromCache(a)
  /\ IF cache[a].id = None THEN Continue(a) ELSE Return(a, cache[a].id)

Answered(a) == CacheID(a) /\ Return(a, hid[a])

Failed(a) == (ExchangeFails(a) \/ BadRcode(a) \/ NoValidPTR(a)) /\ Continue(a)

\* The first source is still at work.
Works(a) ==
  /\ \/ src[a] = "rdns" /\ SendDNSRequest(a)
     \/ \E n \in 0..MaxPTRs : ReadResponse(a, n)
     \/ \E ptr \in PTRs : SkipPTR(a, ptr) \/ TakePTR(a, ptr)
  /\ UNCHANGED <<src, given>>

\* DefaultHumanIDSource.Identify.
DefaultIdentify(a) ==
  /\ src[a] = "default"
  /\ Return(a, [id |-> DefaultID(a), until |-> clock + ValidityIvl])
  /\ UNCHANGED vars

ChainTick == Tick /\ given' = Contract!Unexpired(clock') /\ UNCHANGED src

Janitor ==
  /\ DeleteExpired \/ \E h \in evicted : OnEvicted(h)
  /\ UNCHANGED <<src, given>>

ChainNext ==
  \/ \E a \in Addrs :
       Cached(a) \/ Answered(a) \/ Failed(a) \/ Works(a) \/ DefaultIdentify(a)
  \/ Janitor
  \/ ChainTick

ChainSpec == ChainInit /\ [][ChainNext]_chainVars

----------------------------------------------------------------------------
(* Properties *)

\* The sources implement what the storage expects of them: an ID that an address
\* has is never shortened by a later answer, although the source reads the clock
\* before it sets a cache that counts from then on, forgets what it has indexed,
\* and answers with another source's IDs in between.
ContractKept == Contract!Spec

\* An address that has an ID from a PTR record gets no other answer until that
\* has expired: its name does not change back and forth with failing exchanges.
IDStable ==
  [][\A a \in Addrs : \A g \in given[a] :
       g.id \in HumanIDs /\ clock' = clock =>
         {h.id : h \in given'[a]} = {h.id : h \in given[a]}]_chainVars
=============================================================================
