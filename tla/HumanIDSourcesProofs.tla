------------------------ MODULE HumanIDSourcesProofs ------------------------
(***************************************************************************)
(* Proofs about RDNSIDSource and HumanIDSources, for every set of          *)
(* addresses and IDs and every bound.                                      *)
(*                                                                         *)
(* ChainInv says how long an answer is remembered: the cache counts the    *)
(* TTL from a later moment than the answer does, so an item outlives its   *)
(* ID; an identification begins only when there is no fresh item; hence an *)
(* address that has been given an ID is not identified again before the ID *)
(* has expired.                                                            *)
(***************************************************************************)
EXTENDS HumanIDSources, TLAPS

----------------------------------------------------------------------------
(* The inductive invariant *)

\* An identification works on its own data, and on an address that has no fresh
\* answer.
CallInv(a) ==
  /\ pc[a] # "idle" => ~Fresh(a) /\ src[a] = "rdns"
  /\ pc[a] \in {"parse", "set"} => now[a] \in Nat /\ now[a] <= clock
  /\ pc[a] = "set" =>
       /\ hid[a] \in Hids
       /\ hid[a].until > now[a] /\ hid[a].until <= now[a] + MaxTTL
  /\ pc[a] # "set" => hid[a] = None

\* A cached ID is valid for no longer than it is cached.
ItemInv(a) ==
  cache[a] # None /\ cache[a].id # None =>
    cache[a].id.until <= cache[a].exp /\ cache[a].id.until <= clock + MaxTTL

\* What a has been given: valid IDs of its own.  One from a PTR record is still
\* cached, and no identification is under way.
GivenInv(a) ==
  \A g \in given[a] :
    /\ g.until > clock
    /\ \/ /\ g.id = DefaultID(a)
          /\ g.until <= clock + ValidityIvl
       \/ /\ g.id \in HumanIDs
          /\ pc[a] = "idle" /\ src[a] = "rdns"
          /\ cache[a] # None /\ cache[a].id = g

\* Before the janitor has run, an ID that is held and valid is indexed for
\* exactly as long, and held by one address.
RaceInv ==
  cleanups = 0 =>
    /\ evicted = {}
    /\ \A a \in Addrs : \A h \in Hids : Holds(a, h) /\ h.until > clock =>
         /\ existingIDs[h.id] = h.until
         /\ \A b \in Addrs : \A g \in Hids :
              Holds(b, g) /\ g.id = h.id /\ g.until > clock => b = a

ChainInv ==
  /\ TypeOK
  /\ src \in [Addrs -> {"rdns", "default"}]
  /\ given \in [Addrs -> SUBSET Contract!Hids]
  /\ \A a \in Addrs : CallInv(a) /\ ItemInv(a) /\ GivenInv(a)
  /\ IndexBacked
  /\ RaceInv
----------------------------------------------------------------------------
(* Facts that several steps need *)

\* While an address is being identified its cached ID, if there is one, has
\* expired, and it has not been given an ID from a PTR record.
LEMMA NothingFresh ==
  ASSUME ChainInv, NEW a \in Addrs, pc[a] # "idle"
  PROVE  /\ cache[a] # None /\ cache[a].id # None => cache[a].id.until < clock
         /\ \A g \in given[a] : g.id = DefaultID(a) /\ g.until <= clock + ValidityIvl
<1>1. ASSUME cache[a] # None, cache[a].id # None PROVE cache[a].id.until < clock
  <2>1. /\ cache[a].exp \in Nat /\ cache[a].id.until \in Nat /\ clock \in Nat
        /\ cache[a].id.until <= cache[a].exp /\ ~(clock <= cache[a].exp)
    BY <1>1 DEF ChainInv, TypeOK, Items, Hids, CallInv, ItemInv, Fresh
  <2> QED BY <2>1
<1>2. \A g \in given[a] : g.id = DefaultID(a) /\ g.until <= clock + ValidityIvl
  BY DEF ChainInv, GivenInv
<1> QED BY <1>1, <1>2

\* An address that has been given an ID from a PTR record has it cached.
LEMMA GivenFresh ==
  ASSUME ChainInv, NEW a \in Addrs, NEW g \in given[a], g.id \in HumanIDs
  PROVE  pc[a] = "idle" /\ src[a] = "rdns" /\ Fresh(a) /\ cache[a].id = g
<1>1. pc[a] = "idle" /\ src[a] = "rdns" /\ cache[a] # None /\ cache[a].id = g /\ g.until > clock
  BY DefaultAssumption DEF ChainInv, GivenInv
<1>2. g # None /\ cache[a].exp \in Nat /\ g.until \in Nat /\ clock \in Nat
  <2>1. cache[a] \in Items /\ clock \in Nat
    BY <1>1 DEF ChainInv, TypeOK
  <2>2. g \in Contract!Hids
    BY DEF ChainInv
  <2>3. g.until \in Nat /\ g = [id |-> g.id, until |-> g.until]
    BY <2>2, RDNSAssumption, ValidityAssumption DEF Contract!Hids, Validity
  <2>4. g \in Hids
    BY <2>3 DEF Hids
  <2> QED BY <2>1, <2>3, <2>4, NoneAssumption DEF Items
<1>3. g.until <= cache[a].exp
  BY <1>1, <1>2 DEF ChainInv, ItemInv
<1> QED BY <1>1, <1>2, <1>3 DEF Fresh

\* The answer h has been returned for a.
LEMMA Returned ==
  ASSUME ChainInv, NEW a \in Addrs, NEW h \in Contract!Hids, Return(a, h)
  PROVE  /\ given' \in [Addrs -> SUBSET Contract!Hids]
         /\ src' \in [Addrs -> {"rdns", "default"}]
         /\ src'[a] = "rdns"
         /\ \A b \in Addrs \ {a} : given'[b] = given[b] /\ src'[b] = src[b]
         /\ given'[a] = {g \in given[a] \cup {h} : g.until > clock /\ (g.id = h.id => g = h)}
  BY DEF ChainInv, Return, Contract!Given

\* The index is not concerned when the valid IDs that are held do not change.
LEMMA HoldersKept ==
  ASSUME ChainInv, UNCHANGED <<clock, existingIDs, evicted, cleanups>>,
         \A a \in Addrs : \A h \in Hids : h.until > clock => (Holds(a, h)' <=> Holds(a, h))
  PROVE  IndexBacked' /\ RaceInv'
<1>1. IndexBacked'
  <2> SUFFICES ASSUME NEW h \in HumanIDs, existingIDs[h] # None, existingIDs[h] > clock
               PROVE  \E a \in Addrs : Holds(a, [id |-> h, until |-> existingIDs[h]])'
    BY DEF IndexBacked
  <2>1. PICK t \in Nat : t = existingIDs[h]
    BY DEF ChainInv, TypeOK
  <2>2. PICK a \in Addrs : Holds(a, [id |-> h, until |-> t])
    BY <2>1 DEF ChainInv, IndexBacked
  <2>3. [id |-> h, until |-> t] \in Hids
    BY DEF Hids
  <2>4. Holds(a, [id |-> h, until |-> t])'
    BY <2>1, <2>2, <2>3
  <2> QED BY <2>1, <2>4 DEF Holds
<1>2. RaceInv'
  BY DEF ChainInv, RaceInv
<1> QED BY <1>1, <1>2
----------------------------------------------------------------------------
(* The steps *)

\* An ID in the cache is one that the contract knows.
LEMMA ItemHid ==
  ASSUME ChainInv, NEW a \in Addrs, cache[a] # None, cache[a].id # None
  PROVE  /\ cache[a].id \in Contract!Hids /\ cache[a].id.id \in HumanIDs
         /\ cache[a].id.until <= clock + Validity
<1>1. PICK h \in Hids : h = cache[a].id
  BY DEF ChainInv, TypeOK, Items
<1>2. h.id \in HumanIDs /\ h.until \in Nat /\ h = [id |-> h.id, until |-> h.until]
  BY DEF Hids
<1>3. clock \in 0..MaxTime /\ h.until <= clock + MaxTTL
  BY <1>1 DEF ChainInv, TypeOK, ItemInv
<1>4. MaxTTL <= Validity /\ Validity \in Nat /\ MaxTTL \in Nat /\ MaxTime \in Nat
  BY RDNSAssumption, ValidityAssumption DEF Validity
<1>5. h.until \in 0..MaxTime + Validity /\ h.until <= clock + Validity
  BY <1>2, <1>3, <1>4
<1>6. h \in Contract!Hids
  BY <1>2, <1>5 DEF Contract!Hids, AllIDs
<1> QED BY <1>1, <1>2, <1>5, <1>6

\* The chain answers, or asks the next source, without a step of the first one.
LEMMA ChainOnlyStep ==
  ASSUME ChainInv, NEW a \in Addrs, Cached(a) \/ DefaultIdentify(a)
  PROVE  ChainInv'
<1> USE DEF ChainInv
<1>1. UNCHANGED <<clock, pc, now, left, hid, existingIDs, cache, evicted, cleanups>>
  BY DEF Cached, ReplyFromCache, DefaultIdentify, vars
<1>2. TypeOK' /\ IndexBacked'
  BY <1>1 DEF TypeOK, IndexBacked, Holds
<1>3. RaceInv'
  BY <1>1 DEF RaceInv, Holds
<1>4. \A b \in Addrs : ItemInv(b)'
  BY <1>1 DEF ItemInv
<1>5. CASE Cached(a) /\ cache[a].id = None
  <2>1. src' = [src EXCEPT ![a] = "default"] /\ UNCHANGED given /\ pc[a] = "idle" /\ Fresh(a)
    BY <1>5 DEF Cached, Continue, ReplyFromCache
  <2>2. src' \in [Addrs -> {"rdns", "default"}]
    BY <2>1
  <2>3. \A b \in Addrs : CallInv(b)'
    BY <1>1, <2>1 DEF CallInv, Fresh
  <2>4. \A g \in given[a] : g.id \notin HumanIDs
    <3>1. ASSUME NEW g \in given[a], g.id \in HumanIDs PROVE FALSE
      <4>1. cache[a].id = g /\ cache[a] # None
        BY <3>1, GivenFresh DEF Fresh
      <4>2. g = None
        BY <1>5, <4>1
      <4>3. g \in Contract!Hids
        BY <3>1
      <4>4. g = [id |-> g.id, until |-> g.until] /\ g.until \in Nat
        BY <4>3, RDNSAssumption, ValidityAssumption DEF Contract!Hids, Validity
      <4>5. g \in Hids
        BY <3>1, <4>4 DEF Hids
      <4> QED BY <4>2, <4>5, NoneAssumption
    <3> QED BY <3>1
  <2>5. \A b \in Addrs : GivenInv(b)'
    BY <1>1, <2>1, <2>4 DEF GivenInv
  <2> QED BY <1>2, <1>3, <1>4, <2>1, <2>2, <2>3, <2>5
<1>6. CASE ~(Cached(a) /\ cache[a].id = None)
  <2>1. PICK h \in Contract!Hids :
          /\ Return(a, h) /\ pc[a] = "idle"
          /\ \/ h.id = DefaultID(a) /\ h.until = clock + ValidityIvl
             \/ h.id \in HumanIDs /\ cache[a] # None /\ cache[a].id = h
    <3>1. CASE Cached(a)
      <4>1. cache[a] # None /\ cache[a].id # None /\ Return(a, cache[a].id) /\ pc[a] = "idle"
        BY <1>6, <3>1 DEF Cached, ReplyFromCache, Fresh
      <4> QED BY <4>1, ItemHid
    <3>2. CASE DefaultIdentify(a)
      <4>1. src[a] = "default" /\ Return(a, [id |-> DefaultID(a), until |-> clock + ValidityIvl])
        BY <3>2 DEF DefaultIdentify
      <4>2. pc[a] = "idle"
        BY <4>1 DEF CallInv
      <4>3. clock + ValidityIvl \in 0..MaxTime + Validity
        BY RDNSAssumption, ValidityAssumption DEF TypeOK, Validity
      <4>4. [id |-> DefaultID(a), until |-> clock + ValidityIvl] \in Contract!Hids
        BY <4>3 DEF Contract!Hids, AllIDs
      <4> QED BY <4>1, <4>2, <4>4
    <3> QED BY <3>1, <3>2
  <2>2. /\ given' \in [Addrs -> SUBSET Contract!Hids]
        /\ src' \in [Addrs -> {"rdns", "default"}]
        /\ src'[a] = "rdns"
        /\ \A b \in Addrs \ {a} : given'[b] = given[b] /\ src'[b] = src[b]
        /\ given'[a] = {g \in given[a] \cup {h} : g.until > clock /\ (g.id = h.id => g = h)}
    BY <2>1, Returned
  <2>3. \A b \in Addrs : CallInv(b)'
    BY <1>1, <2>1, <2>2 DEF CallInv, Fresh
  <2>4. ASSUME NEW b \in Addrs \ {a} PROVE GivenInv(b)'
    BY <1>1, <2>2 DEF GivenInv
  <2>5. GivenInv(a)'
    <3> SUFFICES ASSUME NEW g \in given'[a]
                 PROVE  /\ g.until > clock
                        /\ \/ g.id = DefaultID(a) /\ g.until <= clock + ValidityIvl
                           \/ /\ g.id \in HumanIDs /\ pc[a] = "idle" /\ src'[a] = "rdns"
                              /\ cache[a] # None /\ cache[a].id = g
      BY <1>1 DEF GivenInv, DefaultID
    <3>1. g.until > clock /\ (g \in given[a] \/ g = h)
      BY <2>2
    <3>2. clock + ValidityIvl \in Nat
      BY RDNSAssumption, ValidityAssumption DEF TypeOK
    <3>3. CASE g = h
      BY <2>1, <2>2, <3>1, <3>2, <3>3
    <3>4. CASE g \in given[a]
      BY <2>2, <3>1, <3>4 DEF GivenInv
    <3> QED BY <3>1, <3>3, <3>4
  <2> QED BY <1>2, <1>3, <1>4, <2>2, <2>3, <2>4, <2>5
<1> QED BY <1>5, <1>6

\* A call goes on without an answer.
LEMMA WorksStep ==
  ASSUME ChainInv, NEW a \in Addrs,
         \/ src[a] = "rdns" /\ SendDNSRequest(a)
         \/ \E n \in 0..MaxPTRs : ReadResponse(a, n)
         \/ \E ptr \in PTRs : SkipPTR(a, ptr),
         UNCHANGED <<src, given>>
  PROVE  ChainInv'
<1> USE DEF ChainInv
<1>1. UNCHANGED <<clock, hid, existingIDs, cache, evicted, cleanups>>
  BY DEF SendDNSRequest, ReadResponse, SkipPTR
<1>2. IndexBacked' /\ RaceInv'
  BY <1>1, HoldersKept DEF Holds
<1>3. TypeOK'
  BY <1>1, RDNSAssumption DEF TypeOK, SendDNSRequest, ReadResponse, SkipPTR
<1>4. /\ \A b \in Addrs \ {a} : pc'[b] = pc[b] /\ now'[b] = now[b]
      /\ \/ pc[a] = "idle" /\ pc'[a] = "exchange" /\ ~Fresh(a) /\ src[a] = "rdns"
         \/ pc[a] = "exchange" /\ pc'[a] = "parse" /\ now'[a] = clock
         \/ pc[a] = "parse" /\ pc'[a] = "parse" /\ now'[a] = now[a]
  BY DEF TypeOK, SendDNSRequest, ReadResponse, SkipPTR
<1>5. clock \in Nat
  BY DEF TypeOK
<1>6. \A b \in Addrs : CallInv(b)'
  BY <1>1, <1>4, <1>5 DEF CallInv, Fresh
<1>7. \A b \in Addrs : ItemInv(b)'
  BY <1>1 DEF ItemInv
<1>8. \A g \in given[a] : g.id \notin HumanIDs
  BY <1>4, GivenFresh
<1>9. \A b \in Addrs : GivenInv(b)'
  BY <1>1, <1>4, <1>8 DEF GivenInv
<1> QED BY <1>2, <1>3, <1>6, <1>7, <1>9

\* checkDuplicates accepts an ID that no address holds and that is valid.
LEMMA TakePTRStep ==
  ASSUME ChainInv, NEW a \in Addrs, NEW ptr \in PTRs, TakePTR(a, ptr), UNCHANGED <<src, given>>
  PROVE  ChainInv'
<1> USE DEF ChainInv
<1> DEFINE t == now[a] + ptr.ttl
<1>1. /\ UNCHANGED <<clock, now, left, cache, evicted, cleanups>>
      /\ pc[a] = "parse" /\ ptr.id \in HumanIDs /\ ~Duplicated(ptr.id, now[a])
      /\ existingIDs' = [existingIDs EXCEPT ![ptr.id] = t]
      /\ hid' = [hid EXCEPT ![a] = [id |-> ptr.id, until |-> t]]
      /\ pc' = [pc EXCEPT ![a] = "set"]
  BY DEF TakePTR
<1>2. /\ now[a] \in Nat /\ now[a] <= clock /\ clock \in Nat /\ ptr.ttl \in 0..MaxTTL /\ ptr.ttl > 0
      /\ MaxTTL \in Nat
  BY <1>1, RDNSAssumption DEF CallInv, TypeOK, PTRs, TakePTR
<1>3. PICK h0 \in Hids : h0 = [id |-> ptr.id, until |-> t]
  <2>1. t \in Nat
    BY <1>2
  <2> HIDE DEF t
  <2> QED BY <1>1, <2>1 DEF Hids
<1>4. h0.id = ptr.id /\ h0.until = t /\ t \in Nat /\ t > now[a] /\ t <= now[a] + MaxTTL
  BY <1>2, <1>3
<1>5. /\ hid'[a] = h0 /\ hid[a] = None /\ pc'[a] = "set"
      /\ \A b \in Addrs \ {a} : hid'[b] = hid[b] /\ pc'[b] = pc[b]
      /\ existingIDs'[ptr.id] = t
      /\ \A i \in HumanIDs \ {ptr.id} : existingIDs'[i] = existingIDs[i]
  <2>1. hid[a] = None
    BY <1>1 DEF CallInv
  <2> HIDE DEF t
  <2> QED BY <1>1, <1>3, <2>1 DEF TypeOK
<1>6. TypeOK'
  <2> HIDE DEF t
  <2> QED BY <1>1, <1>3, <1>4 DEF TypeOK
<1>7. \A b \in Addrs : CallInv(b)'
  <2> HIDE DEF t
  <2>1. ASSUME NEW b \in Addrs \ {a} PROVE CallInv(b)'
    BY <1>1, <1>5 DEF CallInv, Fresh
  <2>2. CallInv(a)'
    BY <1>1, <1>2, <1>4, <1>5 DEF CallInv, Fresh
  <2> QED BY <2>1, <2>2
<1>8. \A b \in Addrs : ItemInv(b)'
  BY <1>1 DEF ItemInv
<1>9. \A b \in Addrs : GivenInv(b)'
  <2>1. \A g \in given[a] : g.id \notin HumanIDs
    BY <1>1, GivenFresh
  <2> QED BY <1>1, <1>5, <2>1 DEF GivenInv
<1>10. \A b \in Addrs : \A h \in Hids :
         /\ Holds(b, h) => Holds(b, h)'
         /\ Holds(b, h)' => Holds(b, h) \/ (b = a /\ h = h0)
         /\ Holds(a, h0)'
  BY <1>1, <1>5, NoneAssumption DEF Holds
<1>11. IndexBacked'
  <2> HIDE DEF t
  <2> SUFFICES ASSUME NEW i \in HumanIDs, existingIDs'[i] # None, existingIDs'[i] > clock
               PROVE  \E b \in Addrs : Holds(b, [id |-> i, until |-> existingIDs[i]])'
    BY <1>1 DEF IndexBacked
  <2>1. CASE i = ptr.id
    BY <1>3, <1>5, <2>1 DEF Holds
  <2>2. CASE i # ptr.id
    <3>1. PICK u \in Nat : u = existingIDs[i] /\ u = existingIDs'[i]
      BY <1>5, <2>2 DEF TypeOK
    <3>2. PICK b \in Addrs : Holds(b, [id |-> i, until |-> u])
      BY <2>2, <3>1 DEF IndexBacked
    <3>3. [id |-> i, until |-> u] \in Hids
      BY DEF Hids
    <3>4. Holds(b, [id |-> i, until |-> u])'
      BY <1>10, <3>2, <3>3
    <3> QED BY <3>1, <3>4 DEF Holds
  <2> QED BY <2>1, <2>2
<1>12. RaceInv'
  <2> HIDE DEF t
  <2> SUFFICES ASSUME cleanups = 0
               PROVE  /\ evicted = {}
                      /\ \A b \in Addrs : \A h \in Hids : Holds(b, h)' /\ h.until > clock =>
                           /\ existingIDs'[h.id] = h.until
                           /\ \A d \in Addrs : \A g \in Hids :
                                Holds(d, g)' /\ g.id = h.id /\ g.until > clock => d = b
    BY <1>1 DEF RaceInv
  <2>1. \A b \in Addrs : \A h \in Hids : Holds(b, h) /\ h.until > clock => h.id # ptr.id
    <3> SUFFICES ASSUME NEW b \in Addrs, NEW h \in Hids, Holds(b, h), h.until > clock, h.id = ptr.id
                 PROVE  FALSE
      OBVIOUS
    <3>1. existingIDs[ptr.id] = h.until /\ h.until \in Nat
      BY DEF RaceInv, Hids
    <3>2. existingIDs[ptr.id] # None /\ existingIDs[ptr.id] > now[a]
      BY <1>2, <3>1, NoneAssumption
    <3> QED BY <1>1, <3>2 DEF Duplicated
  <2>2. evicted = {}
    BY DEF RaceInv
  <2>3. ASSUME NEW b \in Addrs, NEW h \in Hids, Holds(b, h)', h.until > clock
        PROVE  /\ existingIDs'[h.id] = h.until
               /\ \A d \in Addrs : \A g \in Hids :
                    Holds(d, g)' /\ g.id = h.id /\ g.until > clock => d = b
    <3>1. CASE b = a /\ h = h0
      BY <1>4, <1>5, <1>10, <2>1, <3>1
    <3>2. CASE Holds(b, h)
      <4>1. h.id \in HumanIDs /\ h.id # ptr.id
        BY <2>1, <2>3, <3>2 DEF Hids
      <4> QED BY <1>4, <1>5, <1>10, <2>3, <3>2, <4>1 DEF RaceInv
    <3> QED BY <1>10, <2>3, <3>1, <3>2
  <2> QED BY <2>2, <2>3
<1> QED BY <1>6, <1>7, <1>8, <1>9, <1>11, <1>12

\* An identification ends without an answer.
LEMMA FailedStep ==
  ASSUME ChainInv, NEW a \in Addrs, Failed(a)
  PROVE  ChainInv'
<1> USE DEF ChainInv
<1>1. /\ UNCHANGED <<clock, left, hid, existingIDs, evicted, cleanups, given>>
      /\ src' = [src EXCEPT ![a] = "default"]
      /\ pc[a] \in {"exchange", "parse"} /\ pc' = [pc EXCEPT ![a] = "idle"]
      /\ UNCHANGED now \/ now' = [now EXCEPT ![a] = None]
      /\ UNCHANGED cache \/ cache' = [cache EXCEPT ![a] = [id |-> None, exp |-> clock + NegTTL]]
  BY DEF Failed, ExchangeFails, BadRcode, NoValidPTR, Continue, CacheSet
<1>2. [id |-> None, exp |-> clock + NegTTL] \in Items
  BY RDNSAssumption DEF TypeOK, Items
<1>3. /\ \A b \in Addrs \ {a} : pc'[b] = pc[b] /\ now'[b] = now[b] /\ cache'[b] = cache[b]
                              /\ src'[b] = src[b]
      /\ pc'[a] = "idle" /\ hid[a] = None
      /\ cache'[a] = cache[a] \/ cache'[a] = [id |-> None, exp |-> clock + NegTTL]
      /\ src' \in [Addrs -> {"rdns", "default"}]
  BY <1>1 DEF TypeOK, CallInv
<1>4. TypeOK'
  BY <1>1, <1>2 DEF TypeOK
<1>5. \A b \in Addrs : CallInv(b)' /\ ItemInv(b)'
  BY <1>1, <1>3 DEF CallInv, ItemInv, Fresh
<1>6. /\ cache[a] # None /\ cache[a].id # None => cache[a].id.until < clock
      /\ \A g \in given[a] : g.id = DefaultID(a) /\ g.until <= clock + ValidityIvl
  BY <1>1, NothingFresh
<1>7. \A b \in Addrs : GivenInv(b)'
  <2>1. GivenInv(a)'
    BY <1>1, <1>6 DEF GivenInv, DefaultID
  <2>2. \A b \in Addrs \ {a} : GivenInv(b)'
    BY <1>1, <1>3 DEF GivenInv
  <2> QED BY <2>1, <2>2
<1>8. ASSUME NEW b \in Addrs, NEW h \in Hids, h.until > clock
      PROVE  Holds(b, h)' <=> Holds(b, h)
  <2>1. h # None /\ h.until \in Nat /\ clock \in Nat
    BY NoneAssumption DEF Hids, TypeOK
  <2>2. CASE b = a
    BY <1>1, <1>3, <1>6, <1>8, <2>1, <2>2 DEF Holds
  <2>3. CASE b # a
    BY <1>1, <1>3, <2>3 DEF Holds
  <2> QED BY <2>2, <2>3
<1>9. IndexBacked' /\ RaceInv'
  BY <1>1, <1>8, HoldersKept
<1> QED BY <1>3, <1>4, <1>5, <1>7, <1>9, <1>1

\* CacheID caches the answer and returns it: counted from the present the TTL ends
\* no earlier than the ID, so what was valid before is still held.
LEMMA AnsweredStep ==
  ASSUME ChainInv, NEW a \in Addrs, Answered(a)
  PROVE  ChainInv'
<1> USE DEF ChainInv
<1>1. PICK h \in Hids : h = hid[a]
  BY DEF Answered, CacheID, CallInv
<1>2. PICK e \in Int : e = clock + (h.until - now[a])
  BY <1>1 DEF Answered, CacheID, CallInv, Hids, TypeOK
<1>3. /\ UNCHANGED <<clock, existingIDs, evicted, cleanups>>
      /\ pc[a] = "set"
      /\ cache' = [cache EXCEPT ![a] = [id |-> h, exp |-> e]]
      /\ pc' = [pc EXCEPT ![a] = "idle"]
      /\ now' = [now EXCEPT ![a] = None]
      /\ left' = [left EXCEPT ![a] = 0]
      /\ hid' = [hid EXCEPT ![a] = None]
      /\ Return(a, h)
  BY <1>1, <1>2 DEF Answered, CacheID, CacheSet, Return, Contract!Given
<1>4. /\ h.id \in HumanIDs /\ h.until \in Nat /\ h = [id |-> h.id, until |-> h.until] /\ h # None
      /\ clock \in 0..MaxTime /\ now[a] \in Nat /\ now[a] <= clock /\ MaxTTL \in Nat /\ MaxTime \in Nat
      /\ h.until > now[a] /\ h.until <= now[a] + MaxTTL
  BY <1>1, <1>3, RDNSAssumption, NoneAssumption DEF Hids, CallInv, TypeOK
<1>5. e \in Nat /\ h.until <= e /\ clock <= e /\ h.until <= clock + MaxTTL
  BY <1>2, <1>4
<1>6. h \in Contract!Hids
  <2>1. MaxTTL <= Validity /\ Validity \in Nat
    BY RDNSAssumption, ValidityAssumption DEF Validity
  <2>2. h.until \in 0..MaxTime + Validity
    BY <1>4, <1>5, <2>1
  <2> QED BY <1>4, <2>2 DEF Contract!Hids, AllIDs
<1>7. [id |-> h, exp |-> e] \in Items
  BY <1>5 DEF Items
<1>8. /\ cache'[a] = [id |-> h, exp |-> e] /\ cache'[a] # None
      /\ cache'[a].id = h /\ cache'[a].exp = e
      /\ pc'[a] = "idle" /\ now'[a] = None /\ hid'[a] = None
      /\ \A b \in Addrs \ {a} : /\ cache'[b] = cache[b] /\ pc'[b] = pc[b]
                               /\ now'[b] = now[b] /\ hid'[b] = hid[b]
  <2>1. /\ cache'[a] = [id |-> h, exp |-> e]
        /\ pc'[a] = "idle" /\ now'[a] = None /\ hid'[a] = None
        /\ \A b \in Addrs \ {a} : /\ cache'[b] = cache[b] /\ pc'[b] = pc[b]
                                 /\ now'[b] = now[b] /\ hid'[b] = hid[b]
    BY <1>3 DEF TypeOK
  <2> QED BY <1>7, <2>1, NoneAssumption
<1>9. TypeOK'
  BY <1>3, <1>7, RDNSAssumption DEF TypeOK
<1>10. /\ given' \in [Addrs -> SUBSET Contract!Hids]
       /\ src' \in [Addrs -> {"rdns", "default"}]
       /\ src'[a] = "rdns"
       /\ \A b \in Addrs \ {a} : given'[b] = given[b] /\ src'[b] = src[b]
       /\ given'[a] = {g \in given[a] \cup {h} : g.until > clock /\ (g.id = h.id => g = h)}
  BY <1>3, <1>6, Returned
<1>11. /\ cache[a] # None /\ cache[a].id # None => cache[a].id.until < clock
       /\ \A g \in given[a] : g.id = DefaultID(a) /\ g.until <= clock + ValidityIvl
  BY <1>3, NothingFresh
<1>12. \A b \in Addrs : CallInv(b)'
  BY <1>3, <1>8, <1>10 DEF CallInv, Fresh
<1>13. \A b \in Addrs : ItemInv(b)'
  BY <1>3, <1>5, <1>8 DEF ItemInv
<1>14. \A b \in Addrs : GivenInv(b)'
  <2>1. ASSUME NEW b \in Addrs \ {a} PROVE GivenInv(b)'
    BY <1>3, <1>8, <1>10 DEF GivenInv
  <2>2. GivenInv(a)'
    <3> SUFFICES ASSUME NEW g \in given'[a]
                 PROVE  /\ g.until > clock
                        /\ \/ g.id = DefaultID(a) /\ g.until <= clock + ValidityIvl
                           \/ /\ g.id \in HumanIDs /\ pc'[a] = "idle" /\ src'[a] = "rdns"
                              /\ cache'[a] # None /\ cache'[a].id = g
      BY <1>3 DEF GivenInv, DefaultID
    <3>1. g.until > clock /\ (g \in given[a] \/ g = h)
      BY <1>10
    <3> QED BY <1>4, <1>8, <1>10, <1>11, <3>1
  <2> QED BY <2>1, <2>2
<1>15. ASSUME NEW b \in Addrs, NEW g \in Hids, g.until > clock
       PROVE  Holds(b, g)' <=> Holds(b, g)
  <2>1. g # None /\ g.until \in Nat /\ clock \in Nat
    BY NoneAssumption DEF Hids, TypeOK
  <2>2. CASE b = a
    <3>1. Holds(a, g)' <=> g = h
      BY <1>8, <2>1 DEF Holds
    <3>2. Holds(a, g) <=> g = h
      BY <1>1, <1>11, <1>15, <2>1 DEF Holds
    <3> QED BY <2>2, <3>1, <3>2
  <2>3. CASE b # a
    BY <1>8, <2>3 DEF Holds
  <2> QED BY <2>2, <2>3
<1>16. IndexBacked' /\ RaceInv'
  BY <1>3, <1>15, HoldersKept
<1> QED BY <1>9, <1>10, <1>12, <1>13, <1>14, <1>16

\* DeleteExpired removes items whose IDs have expired before them.
LEMMA DeleteExpiredStep ==
  ASSUME ChainInv, DeleteExpired, UNCHANGED <<src, given>>
  PROVE  ChainInv'
<1> USE DEF ChainInv
<1> DEFINE expired == {a \in Addrs : cache[a] # None /\ cache[a].exp < clock}
<1>1. /\ UNCHANGED <<clock, pc, now, left, hid, existingIDs>>
      /\ cleanups < MaxCleanups /\ cleanups' = cleanups + 1
      /\ evicted' = {cache[a].id : a \in expired}
      /\ cache' = [a \in Addrs |-> IF a \in expired THEN None ELSE cache[a]]
  BY DEF DeleteExpired
<1>2. \A a \in expired : cache[a] # None /\ ~Fresh(a) /\ cache[a].id \in Hids \cup {None}
  BY DEF TypeOK, Items, Fresh
<1>3. \A a \in Addrs : cache'[a] = IF a \in expired THEN None ELSE cache[a]
  BY <1>1
<1>4. \A a \in expired : cache'[a] = None
  BY <1>3
<1>5. \A a \in Addrs \ expired : cache'[a] = cache[a]
  BY <1>3
<1>6. TypeOK'
  <2>1. cleanups' \in 0..MaxCleanups
    BY <1>1, RDNSAssumption DEF TypeOK
  <2>2. evicted' \subseteq Hids \cup {None}
    BY <1>1, <1>2
  <2>3. cache' \in [Addrs -> Items \cup {None}]
    BY <1>1 DEF TypeOK
  <2> QED BY <1>1, <2>1, <2>2, <2>3 DEF TypeOK
<1>7. ASSUME NEW a \in Addrs PROVE CallInv(a)' /\ ItemInv(a)' /\ GivenInv(a)'
  <2> HIDE DEF expired
  <2>1. CASE a \in expired
    <3>1. \A g \in given[a] : g.id \notin HumanIDs
      BY <1>2, <2>1, GivenFresh
    <3>2. CallInv(a)' /\ ItemInv(a)'
      BY <1>1, <1>4, <2>1 DEF CallInv, ItemInv, Fresh
    <3>3. GivenInv(a)'
      BY <1>1, <3>1 DEF GivenInv, DefaultID
    <3> QED BY <3>2, <3>3
  <2>2. CASE a \notin expired
    BY <1>1, <1>5, <2>2 DEF CallInv, ItemInv, GivenInv, Fresh, DefaultID
  <2> QED BY <2>1, <2>2
<1>8. ASSUME NEW a \in Addrs, NEW h \in Hids, h.until > clock, Holds(a, h) PROVE Holds(a, h)'
  <2>1. h # None /\ h.until \in Nat /\ clock \in Nat
    BY NoneAssumption DEF Hids, TypeOK
  <2>2. CASE hid[a] = h
    BY <1>1, <2>2 DEF Holds
  <2>3. CASE cache[a] # None /\ cache[a].id = h
    <3>1. cache[a].exp \in Nat /\ h.until <= cache[a].exp
      BY <2>1, <2>3 DEF TypeOK, Items, ItemInv
    <3>2. a \notin expired
      BY <1>8, <2>1, <3>1
    <3> QED BY <1>5, <2>3, <3>2 DEF Holds
  <2> QED BY <1>8, <2>2, <2>3 DEF Holds
<1>9. IndexBacked'
  <2> SUFFICES ASSUME NEW h \in HumanIDs, existingIDs[h] # None, existingIDs[h] > clock
               PROVE  \E a \in Addrs : Holds(a, [id |-> h, until |-> existingIDs[h]])'
    BY <1>1 DEF IndexBacked
  <2>1. PICK t \in Nat : t = existingIDs[h]
    BY DEF TypeOK
  <2>2. PICK a \in Addrs : Holds(a, [id |-> h, until |-> t])
    BY <2>1 DEF IndexBacked
  <2>3. [id |-> h, until |-> t] \in Hids
    BY DEF Hids
  <2>4. Holds(a, [id |-> h, until |-> t])'
    BY <1>8, <2>1, <2>2, <2>3
  <2> QED BY <1>1, <2>1, <2>4 DEF Holds
<1>10. RaceInv'
  <2>1. cleanups' # 0
    BY <1>1, RDNSAssumption DEF TypeOK
  <2> QED BY <2>1 DEF RaceInv
<1> QED BY <1>6, <1>7, <1>9, <1>10

\* OnEvicted only forgets.
LEMMA OnEvictedStep ==
  ASSUME ChainInv, NEW h \in evicted, OnEvicted(h), UNCHANGED <<src, given>>
  PROVE  ChainInv'
<1> USE DEF ChainInv
<1>1. /\ UNCHANGED <<clock, pc, now, left, hid, cache, cleanups>>
      /\ existingIDs' = IF h = None THEN existingIDs ELSE [existingIDs EXCEPT ![h.id] = None]
      /\ evicted' = evicted \ {h}
  BY DEF OnEvicted
<1>2. /\ existingIDs' \in [HumanIDs -> Nat \cup {None}]
      /\ \A i \in HumanIDs : existingIDs'[i] = existingIDs[i] \/ existingIDs'[i] = None
  <2>1. h = None \/ h.id \in HumanIDs
    BY DEF TypeOK, Hids
  <2> QED BY <1>1, <2>1 DEF TypeOK
<1>3. TypeOK'
  BY <1>1, <1>2 DEF TypeOK
<1>4. \A a \in Addrs : CallInv(a)' /\ ItemInv(a)' /\ GivenInv(a)'
  BY <1>1 DEF CallInv, ItemInv, GivenInv, Fresh, DefaultID
<1>5. IndexBacked'
  BY <1>1, <1>2 DEF IndexBacked, Holds
<1>6. RaceInv'
  BY <1>1 DEF RaceInv
<1> QED BY <1>3, <1>4, <1>5, <1>6

\* As time passes, less is valid.
LEMMA TickStep ==
  ASSUME ChainInv, ChainTick
  PROVE  ChainInv'
<1> USE DEF ChainInv
<1>1. /\ UNCHANGED <<pc, now, left, hid, existingIDs, cache, evicted, cleanups, src>>
      /\ clock' = clock + 1 /\ clock < MaxTime
      /\ given' = [a \in Addrs |-> {g \in given[a] : g.until > clock'}]
  BY DEF ChainTick, Tick, Contract!Unexpired
<1>2. clock \in Nat /\ MaxTime \in Nat /\ clock' \in 0..MaxTime /\ clock' \in Nat /\ clock' > clock
      /\ MaxTTL \in Nat /\ ValidityIvl \in Nat
  BY <1>1, RDNSAssumption, ValidityAssumption DEF TypeOK
<1>3. TypeOK'
  BY <1>1, <1>2 DEF TypeOK
<1>4. given' \in [Addrs -> SUBSET Contract!Hids]
  BY <1>1
<1>5. ASSUME NEW a \in Addrs PROVE CallInv(a)'
  <2>1. ~Fresh(a) => ~Fresh(a)'
    BY <1>1, <1>2 DEF Fresh, TypeOK, Items
  <2>2. pc[a] \in {"parse", "set"} => now[a] \in Nat /\ now[a] <= clock'
    BY <1>2 DEF CallInv
  <2> QED BY <1>1, <2>1, <2>2 DEF CallInv
<1>6. ASSUME NEW a \in Addrs PROVE ItemInv(a)'
  <2>1. cache[a] # None /\ cache[a].id # None => cache[a].id.until \in Nat
    BY DEF TypeOK, Items, Hids
  <2> QED BY <1>1, <1>2, <2>1 DEF ItemInv
<1>7. ASSUME NEW a \in Addrs PROVE GivenInv(a)'
  <2>1. ASSUME NEW g \in given'[a]
        PROVE  /\ g.until > clock'
               /\ \/ g.id = DefaultID(a) /\ g.until <= clock' + ValidityIvl
                  \/ /\ g.id \in HumanIDs /\ pc[a] = "idle" /\ src[a] = "rdns"
                     /\ cache[a] # None /\ cache[a].id = g
    <3>1. g \in given[a] /\ g.until > clock'
      BY <1>1
    <3>2. g \in Contract!Hids
      BY <3>1
    <3>3. g.until \in Nat
      BY <3>2, RDNSAssumption, ValidityAssumption DEF Contract!Hids, Validity
    <3> QED BY <1>2, <3>1, <3>3 DEF GivenInv
  <2> QED BY <1>1, <2>1 DEF GivenInv, DefaultID
<1>8. IndexBacked'
  <2>1. \A h \in HumanIDs : existingIDs[h] # None /\ existingIDs[h] > clock' => existingIDs[h] > clock
    BY <1>2 DEF TypeOK
  <2> QED BY <1>1, <2>1 DEF IndexBacked, Holds
<1>9. RaceInv'
  <2>1. \A h \in Hids : h.until > clock' => h.until > clock
    BY <1>2 DEF Hids
  <2> QED BY <1>1, <2>1 DEF RaceInv, Holds
<1> QED BY <1>1, <1>3, <1>4, <1>5, <1>6, <1>7, <1>8, <1>9
----------------------------------------------------------------------------
(* The invariant *)

\* Nothing has been answered at the beginning.
LEMMA ChainStarts ==
  ASSUME ChainInit
  PROVE  ChainInv
<1> USE DEF ChainInit, Init, Contract!Init
<1>1. TypeOK
  BY RDNSAssumption DEF TypeOK
<1>2. /\ src \in [Addrs -> {"rdns", "default"}]
      /\ given \in [Addrs -> SUBSET Contract!Hids]
  OBVIOUS
<1>3. \A a \in Addrs : CallInv(a) /\ ItemInv(a) /\ GivenInv(a)
  BY DEF CallInv, ItemInv, GivenInv
<1>4. IndexBacked
  BY DEF IndexBacked
<1>5. RaceInv
  <2>1. \A a \in Addrs : \A h \in Hids : ~Holds(a, h)
    BY NoneAssumption DEF Holds
  <2> QED BY <2>1 DEF RaceInv
<1> QED BY <1>1, <1>2, <1>3, <1>4, <1>5 DEF ChainInv

\* Every step of the chain, the janitor and the clock keeps the invariant.
LEMMA ChainStep ==
  ASSUME ChainInv, [ChainNext]_chainVars
  PROVE  ChainInv'
<1>1. CASE UNCHANGED chainVars
  <2>1. UNCHANGED <<clock, pc, now, left, hid, existingIDs, cache, evicted, cleanups, src, given>>
    BY <1>1 DEF chainVars, vars
  <2>2. TypeOK' /\ IndexBacked'
    BY <2>1 DEF ChainInv, TypeOK, IndexBacked, Holds
  <2>3. RaceInv'
    BY <2>1 DEF ChainInv, RaceInv, Holds
  <2>4. \A a \in Addrs : CallInv(a)' /\ ItemInv(a)' /\ GivenInv(a)'
    BY <2>1 DEF ChainInv, CallInv, ItemInv, GivenInv, Fresh, DefaultID
  <2> QED BY <2>1, <2>2, <2>3, <2>4 DEF ChainInv
<1>2. ASSUME NEW a \in Addrs, Cached(a) \/ DefaultIdentify(a) PROVE ChainInv'
  BY <1>2, ChainOnlyStep
<1>3. ASSUME NEW a \in Addrs, Answered(a) PROVE ChainInv'
  BY <1>3, AnsweredStep
<1>4. ASSUME NEW a \in Addrs, Failed(a) PROVE ChainInv'
  BY <1>4, FailedStep
<1>5. ASSUME NEW a \in Addrs, Works(a) PROVE ChainInv'
  <2>1. CASE \E ptr \in PTRs : TakePTR(a, ptr)
    BY <1>5, <2>1, TakePTRStep DEF Works
  <2>2. CASE ~\E ptr \in PTRs : TakePTR(a, ptr)
    BY <1>5, <2>2, WorksStep DEF Works
  <2> QED BY <2>1, <2>2
<1>6. CASE Janitor
  BY <1>6, DeleteExpiredStep, OnEvictedStep DEF Janitor
<1>7. CASE ChainTick
  BY <1>7, TickStep
<1> QED BY <1>1, <1>2, <1>3, <1>4, <1>5, <1>6, <1>7 DEF ChainNext

\* The invariant holds in every state of the chain of sources.
THEOREM ChainInvariant == ChainSpec => []ChainInv
  BY ChainStarts, ChainStep, PTL DEF ChainSpec

----------------------------------------------------------------------------
(* What it says of the sources *)

\* An ID that checkDuplicates rejects is one that an address has, for as long
\* as it is rejected: no path from the check to the cache leaves an ID reserved
\* for nobody.
THEOREM ReservedIsHeld == ChainSpec => []IndexBacked
<1>1. ChainInv => IndexBacked
  BY DEF ChainInv
<1> QED BY <1>1, ChainInvariant, PTL

\* However many identifications race, no two get one ID before the janitor has
\* run: checkDuplicates checks and indexes in one critical section.
THEOREM RaceHasOneWinner == ChainSpec => []NoDuplicateIDsInRace
<1>1. ASSUME ChainInv PROVE NoDuplicateIDsInRace
  <2> SUFFICES ASSUME cleanups = 0, NEW a \in Addrs, NEW b \in Addrs, NEW h \in HumanIDs,
                      NEW t \in clock + 1..MaxTime + MaxTTL, NEW u \in clock + 1..MaxTime + MaxTTL,
                      Holds(a, [id |-> h, until |-> t]), Holds(b, [id |-> h, until |-> u])
               PROVE  a = b
    BY DEF NoDuplicateIDsInRace, NoDuplicateIDs
  <2>1. t \in Nat /\ u \in Nat /\ t > clock /\ u > clock
    BY <1>1, RDNSAssumption DEF ChainInv, TypeOK
  <2>2. PICK g \in Hids : g = [id |-> h, until |-> t]
    BY <2>1 DEF Hids
  <2>3. PICK k \in Hids : k = [id |-> h, until |-> u]
    BY <2>1 DEF Hids
  <2>4. Holds(a, g) /\ Holds(b, k) /\ k.id = g.id /\ g.until > clock /\ k.until > clock
    BY <2>1, <2>2, <2>3
  <2> QED BY <1>1, <2>4 DEF ChainInv, RaceInv
<1> QED BY <1>1, ChainInvariant, PTL

\* What a step does to the answers that have been given: the contract's Answer
\* for one address, its Tick, or nothing.
LEMMA ContractStep ==
  ASSUME ChainInv, [ChainNext]_chainVars
  PROVE  [Contract!Next]_<<clock, given>>
<1> USE DEF ChainInv
<1>1. clock \in 0..MaxTime /\ ValidityIvl \in Nat /\ MaxTTL \in Nat /\ MaxTime \in Nat
      /\ Validity \in Nat /\ ValidityIvl <= Validity /\ MaxTTL <= Validity
  BY RDNSAssumption, ValidityAssumption DEF TypeOK, Validity
<1>2. ASSUME NEW a \in Addrs, NEW h \in Contract!Hids, Return(a, h), UNCHANGED clock,
             Contract!Allowed(a, h)
      PROVE  Contract!Next
  BY <1>2 DEF Contract!Next, Contract!Answer, Return
<1>3. ASSUME NEW a \in Addrs, Cached(a) PROVE [Contract!Next]_<<clock, given>>
  <2>1. CASE cache[a].id = None
    BY <1>3, <2>1 DEF Cached, Continue, ReplyFromCache, vars
  <2>2. CASE cache[a].id # None
    <3>1. cache[a] # None /\ Return(a, cache[a].id) /\ UNCHANGED clock
      BY <1>3, <2>2 DEF Cached, ReplyFromCache, vars, Fresh
    <3>2. PICK h \in Contract!Hids : h = cache[a].id
      BY <2>2, <3>1, ItemHid
    <3>3. h.id \in HumanIDs /\ h.until <= clock + Validity /\ h.until \in Nat
      BY <1>1, <2>2, <3>1, <3>2, ItemHid DEF Contract!Hids
    <3>4. \A g \in given[a] : g.id = h.id => g = h
      BY <3>2, <3>3, GivenFresh
    <3>5. Contract!Allowed(a, h)
      BY <3>3, <3>4 DEF Contract!Allowed
    <3> QED BY <1>2, <3>1, <3>2, <3>5
  <2> QED BY <2>1, <2>2
<1>4. ASSUME NEW a \in Addrs, Answered(a) PROVE [Contract!Next]_<<clock, given>>
  <2>1. PICK h \in Hids : h = hid[a]
    BY <1>4 DEF Answered, CacheID, CallInv
  <2>2. Return(a, h) /\ UNCHANGED clock /\ pc[a] = "set"
    BY <1>4, <2>1 DEF Answered, CacheID, Return, Contract!Given
  <2>3. /\ h.id \in HumanIDs /\ h.until \in Nat /\ h = [id |-> h.id, until |-> h.until]
        /\ now[a] \in Nat /\ now[a] <= clock /\ h.until <= now[a] + MaxTTL
    BY <2>1, <2>2 DEF Hids, CallInv
  <2>4. h.until <= clock + Validity /\ h.until \in 0..MaxTime + Validity
    BY <1>1, <2>3
  <2>5. h \in Contract!Hids
    BY <2>3, <2>4 DEF Contract!Hids, AllIDs
  <2>6. \A g \in given[a] : g.id # h.id
    BY <2>2, <2>3, NothingFresh, DefaultAssumption
  <2>7. Contract!Allowed(a, h)
    BY <2>4, <2>6 DEF Contract!Allowed
  <2> QED BY <1>2, <2>2, <2>5, <2>7
<1>5. ASSUME NEW a \in Addrs, DefaultIdentify(a) PROVE [Contract!Next]_<<clock, given>>
  <2>1. clock + ValidityIvl \in 0..MaxTime + Validity /\ clock + ValidityIvl <= clock + Validity
    BY <1>1
  <2>2. PICK t \in 0..MaxTime + Validity : t = clock + ValidityIvl
    BY <2>1
  <2>3. PICK h \in Contract!Hids : h = [id |-> DefaultID(a), until |-> t]
    BY DEF Contract!Hids, AllIDs
  <2>4. Return(a, h) /\ UNCHANGED clock
    BY <1>5, <2>2, <2>3 DEF DefaultIdentify, Return, Contract!Given, vars
  <2>5. \A g \in given[a] : g.id = h.id => g.until <= h.until
    BY <2>2, <2>3, DefaultAssumption DEF GivenInv
  <2>6. Contract!Allowed(a, h)
    BY <2>1, <2>2, <2>3, <2>5 DEF Contract!Allowed
  <2> QED BY <1>2, <2>4, <2>6
<1>6. ASSUME NEW a \in Addrs, Failed(a) \/ Works(a) PROVE UNCHANGED <<clock, given>>
  BY <1>6 DEF Failed, Works, Continue, ExchangeFails, BadRcode, NoValidPTR,
              SendDNSRequest, ReadResponse, SkipPTR, TakePTR
<1>7. CASE Janitor
  BY <1>7 DEF Janitor, DeleteExpired, OnEvicted
<1>8. CASE ChainTick
  BY <1>8 DEF ChainTick, Tick, Contract!Next, Contract!Tick, Contract!Unexpired
<1>9. CASE UNCHANGED chainVars
  BY <1>9 DEF chainVars, vars
<1> QED BY <1>3, <1>4, <1>5, <1>6, <1>7, <1>8, <1>9 DEF ChainNext

\* The chain of sources implements IDContract: a later answer never shortens an
\* ID that the address has.
THEOREM SourcesKeepContract == ChainSpec => ContractKept
<1>1. ChainInit => Contract!Init
  BY DEF ChainInit
<1>2. ChainInv /\ [ChainNext]_chainVars => [Contract!Next]_<<clock, given>>
  BY ContractStep
<1> QED BY <1>1, <1>2, ChainInvariant, PTL DEF ChainSpec, ContractKept, Contract!Spec

\* While an ID from a PTR record is valid the address gets no other answer: the
\* item outlives the ID, so that the exchange, which might fail, is not reached.
THEOREM NamesAreStable == ChainSpec => IDStable
<1>1. ASSUME ChainInv, [ChainNext]_chainVars, NEW a \in Addrs, NEW g \in given[a],
             g.id \in HumanIDs, clock' = clock
      PROVE  given'[a] = given[a]
  <2> USE <1>1 DEF ChainInv
  <2>1. pc[a] = "idle" /\ src[a] = "rdns" /\ Fresh(a) /\ cache[a].id = g
    BY GivenFresh
  <2>2. \A k \in given[a] : k.until > clock /\ (k.id = g.id => k = g)
    BY GivenFresh DEF GivenInv
  <2>4. ASSUME NEW b \in Addrs, Cached(b) PROVE given'[a] = given[a]
    <3>1. CASE cache[b].id = None
      BY <2>4, <3>1 DEF Cached, Continue
    <3>2. CASE cache[b].id # None /\ b # a
      BY <2>4, <3>2 DEF Cached, Return, Contract!Given
    <3>3. CASE cache[b].id # None /\ b = a
      <4>1. given'[a] = {k \in given[a] \cup {g} : k.until > clock /\ (k.id = g.id => k = g)}
        BY <2>1, <2>4, <3>3 DEF Cached, Return, Contract!Given
      <4> QED BY <2>2, <4>1
    <3> QED BY <3>1, <3>2, <3>3
  <2>5. ASSUME NEW b \in Addrs, Answered(b) PROVE given'[a] = given[a]
    <3>1. b # a
      BY <2>1, <2>5 DEF Answered, CacheID
    <3> QED BY <2>5, <3>1 DEF Answered, Return, Contract!Given
  <2>6. ASSUME NEW b \in Addrs, DefaultIdentify(b) PROVE given'[a] = given[a]
    <3>1. b # a
      BY <2>1, <2>6 DEF DefaultIdentify
    <3> QED BY <2>6, <3>1 DEF DefaultIdentify, Return, Contract!Given
  <2>7. ASSUME NEW b \in Addrs, Failed(b) \/ Works(b) PROVE given'[a] = given[a]
    BY <2>7 DEF Failed, Works, Continue
  <2>8. CASE Janitor
    BY <2>8 DEF Janitor
  <2>9. ~ChainTick
    BY DEF ChainTick, Tick, TypeOK
  <2>10. CASE UNCHANGED chainVars
    BY <2>10 DEF chainVars
  <2> QED BY <2>4, <2>5, <2>6, <2>7, <2>8, <2>9, <2>10 DEF ChainNext
<1>2. ChainInv /\ [ChainNext]_chainVars =>
        [\A a \in Addrs : \A g \in given[a] :
           g.id \in HumanIDs /\ clock' = clock =>
             {h.id : h \in given'[a]} = {h.id : h \in given[a]}]_chainVars
  BY <1>1
<1> QED BY <1>2, ChainInvariant, PTL DEF ChainSpec, IDStable
=============================================================================
