----------------------------- MODULE ClientMatch -----------------------------
(***************************************************************************)
(* From the upstream groups of the configuration to the client that serves *)
(* a request: the validation of the groups' match criteria and the         *)
(* classification of the groups (internal/cmd/upstream.go), the two sorted *)
(* lists of the storage and the first match in them                        *)
(* (internal/client/defaultstorage.go, autodevice.go).                     *)
(*                                                                         *)
(* Addresses have Width bits and one family.  A domain is the sequence of  *)
(* its labels, and a label a number that stands for its place among the    *)
(* strings; the configuration's domains may also have capitals in them,    *)
(* which strings.ToLower removes.                                          *)
(***************************************************************************)
EXTENDS Integers, Sequences, FiniteSets, SequencesExt

CONSTANTS
  Groups,      \* the names of the custom groups
  Automatic,   \* those of them with autodevice enabled
  Matches,     \* the match criteria a user may write
  Questions,   \* the lower-cased question domains
  Width,       \* bits of an address
  MaxMatches,  \* bound: the match criteria in the configuration
  NoPrefix     \* the empty netip.Prefix

Addrs == 0..2^Width - 1

Networks == [addr : Addrs, bits : 0..Width]
Domains  == Seq(Nat)

\* The addresses that agree in the bits the prefix leaves open.
Block(p) == 2^(Width - p.bits)

ASSUME MatchAssumption ==
  /\ Width \in Nat /\ MaxMatches \in Nat
  /\ IsFiniteSet(Groups) /\ Automatic \subseteq Groups
  /\ NoPrefix \notin Networks
  /\ Matches \subseteq [client : Networks \cup {NoPrefix}, domain : Domains, capitals : BOOLEAN]
  /\ Questions \subseteq Domains

VARIABLES
  pc,            \* how far the program has come
  defaultAuto,   \* whether the default group has autodevice enabled
  match,         \* the match criteria of each custom group
  static,        \* DefaultStorage.static
  autodevice     \* DefaultStorage.autodevice

vars == <<pc, defaultAuto, match, static, autodevice>>

Init ==
  /\ pc = "writing"
  /\ defaultAuto \in BOOLEAN
  /\ match = [g \in Groups |-> <<>>]
  /\ static = <<>>
  /\ autodevice = <<>>

----------------------------------------------------------------------------
(* Validation *)

\* The places of the match criteria: group and index.
Places == UNION {{g} \X (1..Len(match[g])) : g \in Groups}
At(x)  == match[x[1]][x[2]]

\* toIndexedMatch and the keys of newUpstreams: the domain is lower-cased.
Key(m) == [prefix |-> m.client, domain |-> m.domain]

\* Mutant of IndexedMatch: the domain keeps its capitals.
IndexedMatchKeepsCase(m) ==
  [prefix |-> m.client, domain |-> m.domain, capitals |-> m.capitals]

IndexedMatch(m) == Key(m)

Masked(p) == p = NoPrefix \/ p.addr % Block(p) = 0

\* validate and validateValues without addMatch: the criteria are not empty and
\* the prefix has no bits of an address in it.
ValidMatch(m) == Key(m) # [prefix |-> NoPrefix, domain |-> <<>>] /\ Masked(m.client)

\* addMatch: all criteria of all groups are different.
NoConflicts ==
  \A x, y \in Places : IndexedMatch(At(x)) = IndexedMatch(At(y)) => x = y

----------------------------------------------------------------------------
(* Comparison and matching *)

\* The last label of a without its last n labels.
Label(a, n) == a[Len(a) - n]

\* The loop of compareDomains returns after n labels.
Returns(a, b, n) == n = Len(a) \/ n = Len(b) \/ Label(a, n) # Label(b, n)

\* compareDomains: labels from right to left; a domain that ends first is last.
CompareDomains(a, b) ==
  LET n == CHOOSE n \in 0..Len(a) : Returns(a, b, n) /\ \A k \in 0..n - 1 : ~Returns(a, b, k) IN
  IF n = Len(a) THEN IF n = Len(b) THEN 0 ELSE 1
  ELSE IF n = Len(b) \/ Label(a, n) < Label(b, n) THEN -1 ELSE 1

\* netip.Prefix.Compare for masked prefixes of one family.
PrefixCompare(p, q) ==
  IF p.addr # q.addr THEN IF p.addr < q.addr THEN -1 ELSE 1
  ELSE IF p.bits = q.bits THEN 0 ELSE IF p.bits < q.bits THEN -1 ELSE 1

IsSingleIP(p) == p.bits = Width

\* Mutant of AutodeviceCompare: the empty prefix is sorted first.
AutodeviceCompareEmptyFirst(c, other) ==
  IF c.prefix = NoPrefix
  THEN IF other.prefix = NoPrefix THEN CompareDomains(c.domain, other.domain) ELSE -1
  ELSE IF other.prefix = NoPrefix THEN 1
  ELSE IF c.prefix = other.prefix THEN CompareDomains(c.domain, other.domain)
  ELSE PrefixCompare(c.prefix, other.prefix)

\* storedAutodeviceClient.compare.
AutodeviceCompare(c, other) ==
  IF c.prefix = NoPrefix
  THEN IF other.prefix = NoPrefix THEN CompareDomains(c.domain, other.domain) ELSE 1
  ELSE IF other.prefix = NoPrefix THEN -1
  ELSE IF c.prefix = other.prefix THEN CompareDomains(c.domain, other.domain)
  ELSE PrefixCompare(c.prefix, other.prefix)

\* Mutant of StaticCompare: a single address is not told apart on one side.
StaticCompareOneSided(c, other) ==
  IF NoPrefix \notin {c.prefix, other.prefix} /\ IsSingleIP(c.prefix)
  THEN -1
  ELSE AutodeviceCompare(c, other)

\* Mutant of StaticCompare: the parent domain comes before its subdomains.
StaticCompareParentFirst(c, other) ==
  IF c.prefix = other.prefix
  THEN CompareDomains(other.domain, c.domain)
  ELSE AutodeviceCompare(c, other)

\* storedClient.compare: a single address comes before every subnet.
StaticCompare(c, other) ==
  IF NoPrefix \notin {c.prefix, other.prefix}
     /\ IsSingleIP(c.prefix) # IsSingleIP(other.prefix)
  THEN IF IsSingleIP(c.prefix) THEN -1 ELSE 1
  ELSE AutodeviceCompare(c, other)

PrefixContains(p, a) == a \div Block(p) = p.addr \div Block(p)

\* matches and matchesDomain, the same for both kinds of client.
IsMatch(c, a, q) ==
  /\ c.prefix = NoPrefix \/ PrefixContains(c.prefix, a)
  /\ c.domain = <<>> \/ q = c.domain \/ IsSuffix(c.domain, q)

\* The first client of the list that matches; 0 if none does.
FirstMatch(list, a, q) ==
  SelectInSeq(list, LAMBDA c : IsMatch(c, a, q))

\* The comparison function of each list.
Compare(kind, c, other) ==
  IF kind = "static" THEN StaticCompare(c, other) ELSE AutodeviceCompare(c, other)

\* An element is inserted behind the last one that it does not precede.
Insert(kind, sorted, c) ==
  LET k == CHOOSE k \in 0..Len(sorted) :
             /\ k = 0 \/ Compare(kind, c, sorted[k]) >= 0
             /\ \A j \in k + 1..Len(sorted) : Compare(kind, c, sorted[j]) < 0
  IN  InsertAt(sorted, k + 1, c)

\* slices.SortStableFunc: insertion from the right, for lists of this length.
SortStableFunc(kind, list) ==
  LET sorted[n \in 0..Len(list)] ==
        IF n = 0 THEN <<>> ELSE Insert(kind, sorted[n - 1], list[n])
  IN  sorted[Len(list)]

----------------------------------------------------------------------------
(* The program *)

\* The user writes one more match criterion, group by group.
WriteMatch(g, m) ==
  /\ pc = "writing"
  /\ \A x \in Places : x[1] <= g
  /\ FoldSet(LAMBDA h, n : n + Len(match[h]), 0, Groups) < MaxMatches
  /\ match' = [match EXCEPT ![g] = Append(@, m)]
  /\ UNCHANGED <<pc, defaultAuto, static, autodevice>>

\* upstreamGroupsConfig.Validate.
Validate ==
  /\ pc = "writing"
  /\ pc' = IF (\A x \in Places : ValidMatch(At(x))) /\ NoConflicts
           THEN "valid" ELSE "rejected"
  /\ UNCHANGED <<defaultAuto, match, static, autodevice>>

\* The criteria newUpstreams adds for the groups gs, as sets of keys.
KeysOf(gs) == {Key(At(x)) : x \in {x \in Places : x[1] \in gs}}

\* addAutodeviceGroup or addCommonGroup finds a key in its map already.
Duplicated ==
  \E x, y \in Places :
    /\ x # y
    /\ x[1] \in Automatic <=> y[1] \in Automatic
    /\ Key(At(x)) = Key(At(y))

\* The default group with autodevice matches everything that is left.
DefaultKeys == IF defaultAuto THEN {[prefix |-> NoPrefix, domain |-> <<>>]} ELSE {}

\* newUpstreams succeeds and NewDefaultStorage sorts what it finds in the maps,
\* whatever the order in which it ranges over them; or newUpstreams fails.
NewStorage ==
  /\ pc = "valid"
  /\ pc' = IF Duplicated THEN "failed" ELSE "serving"
  /\ \E s \in SetToSeqs(KeysOf(Groups \ Automatic)) :
       static' = SortStableFunc("static", s)
  /\ \E s \in SetToSeqs(KeysOf(Automatic) \cup DefaultKeys) :
       autodevice' = SortStableFunc("autodevice", s)
  /\ UNCHANGED <<defaultAuto, match>>

Next ==
  \/ \E g \in Groups, m \in Matches : WriteMatch(g, m)
  \/ Validate
  \/ NewStorage

Spec == Init /\ [][Next]_vars

----------------------------------------------------------------------------
(* Properties *)

Clients == [prefix : {m.client : m \in Matches} \cup {NoPrefix},
            domain : {m.domain : m \in Matches} \cup {<<>>}]

\* The types of the configuration and the storage's lists, for the reader; the runs check what follows.
TypeOK ==
  /\ pc \in {"writing", "rejected", "valid", "failed", "serving"}
  /\ defaultAuto \in BOOLEAN
  /\ match \in [Groups -> Seq(Matches)]
  /\ static \in Seq(Clients) /\ Len(static) <= MaxMatches
  /\ autodevice \in Seq(Clients) /\ Len(autodevice) <= MaxMatches + 1

\* What Validate accepts newUpstreams builds: the duplicates it looks for once
\* more (upstream.go:434-439 and 472-478) have been ruled out by addMatch.
ValidatedBuilds == pc # "failed"

\* The lists are in strict order, each pair of their elements: the comparison
\* functions are a total order on what they sort, so that the client a request
\* gets does not depend on the order in which Go ranges over the maps.
SortedStrictly ==
  \A kind \in {"static", "autodevice"} :
    LET list == IF kind = "static" THEN static ELSE autodevice IN
    \A i, j \in 1..Len(list) : i < j =>
      Compare(kind, list[i], list[j]) < 0 /\ Compare(kind, list[j], list[i]) > 0

\* The client that is found has the most specific domain of all clients of its
\* subnet that match: stopping at the first match is right because more specific
\* domains are sorted first (defaultstorage.go:579).
MostSpecificDomain ==
  \A list \in {static, autodevice}, a \in Addrs, q \in Questions :
    LET i == FirstMatch(list, a, q) IN
    i # 0 => \A j \in 1..Len(list) :
      IsMatch(list[j], a, q) /\ list[j].prefix = list[i].prefix =>
        Len(list[j].domain) <= Len(list[i].domain)

\* A client without a prefix "is only used if no other configuration matches"
\* (autodevice.go:158-159), and a static client of a single address is
\* preferred to those of the subnets around it.
MostSpecificPrefix ==
  \A a \in Addrs, q \in Questions :
    /\ \A list \in {static, autodevice} :
         LET i == FirstMatch(list, a, q) IN
         i # 0 /\ list[i].prefix = NoPrefix =>
           \A j \in 1..Len(list) : IsMatch(list[j], a, q) => list[j].prefix = NoPrefix
    /\ LET i == FirstMatch(static, a, q) IN
       \A j \in 1..Len(static) :
         IsMatch(static[j], a, q) /\ static[j].prefix # NoPrefix /\ IsSingleIP(static[j].prefix)
           => static[i].prefix = static[j].prefix

Overlap(p, q) == \E a \in Addrs : PrefixContains(p, a) /\ PrefixContains(q, a)

\* "Networks must not overlap" in the map of static clients the storage is given
\* (defaultstorage.go:33; "must not contain [...] overlapping prefixes", 107).
StaticPrefixesDisjoint ==
  \A i, j \in 1..Len(static) :
    /\ NoPrefix \notin {static[i].prefix, static[j].prefix}
    /\ Overlap(static[i].prefix, static[j].prefix)
    => static[i].prefix = static[j].prefix
==============================================================================
