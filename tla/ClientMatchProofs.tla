-------------------------- MODULE ClientMatchProofs --------------------------
(***************************************************************************)
(* Proofs about ClientMatch, for any groups and criteria, addresses of any *)
(* width, and domains of any number of labels.                             *)
(*                                                                         *)
(* The comparison functions are shown to be strict total orders, although  *)
(* they are made of a loop and of nested cases; insertion therefore keeps  *)
(* a list in order, and so SortStableFunc orders any list without          *)
(* repetitions.  In an ordered list the first match is the most specific.  *)
(* Where an argument is by induction it is about the least natural number  *)
(* for which the statement fails.                                          *)
(***************************************************************************)
EXTENDS ClientMatch, FiniteSetTheorems, SequenceTheorems, WellFoundedInduction, TLAPS

\* Every non-empty set of natural numbers has a least element.
LEMMA LeastNat ==
  ASSUME NEW T \in SUBSET Nat, T # {}
  PROVE  \E x \in T : \A y \in T : x <= y
<1>1. PICK x \in T : \A y \in T : ~ (<<y, x>> \in OpToRel(<, Nat))
  BY NatLessThanWellFounded, WFMin, Zenon
<1>2. \A y \in T : ~(y < x)
  BY <1>1 DEF OpToRel
<1> QED BY <1>2

----------------------------------------------------------------------------
(* compareDomains *)

\* The two domains agree in their last n labels.
Agree(a, b, n) == \A k \in 0..n - 1 : Label(a, k) = Label(b, k)

\* a is sorted before b: at the first label where they part, a's is the lesser
\* one or b has none.
DomainBefore(a, b) ==
  \E n \in Nat :
    /\ n < Len(a) /\ n <= Len(b) /\ Agree(a, b, n)
    /\ n = Len(b) \/ Label(a, n) < Label(b, n)

\* The labels of a domain are numbers, which stand for strings.
LEMMA LabelType ==
  ASSUME NEW a \in Domains, NEW n \in Nat, n < Len(a)
  PROVE  Label(a, n) \in Nat
<1>1. Len(a) \in Nat /\ Len(a) - n \in 1..Len(a)
  BY DEF Domains
<1> QED BY <1>1 DEF Domains, Label

\* The loop of compareDomains returns, after the labels in which a and b agree.
LEMMA LoopReturns ==
  ASSUME NEW a \in Domains, NEW b \in Domains
  PROVE  \E n \in Nat :
           /\ n <= Len(a) /\ n <= Len(b) /\ Agree(a, b, n) /\ Returns(a, b, n)
           /\ CompareDomains(a, b) = IF n = Len(a) THEN IF n = Len(b) THEN 0 ELSE 1
                                     ELSE IF n = Len(b) \/ Label(a, n) < Label(b, n) THEN -1 ELSE 1
<1> DEFINE First(n) == Returns(a, b, n) /\ \A k \in 0..n - 1 : ~Returns(a, b, k)
           n0 == CHOOSE n \in 0..Len(a) : First(n)
<1>1. Len(a) \in Nat /\ Len(b) \in Nat
  BY DEF Domains
<1>2. \E n \in 0..Len(a) : First(n)
  <2> DEFINE T == {n \in 0..Len(a) : Returns(a, b, n)}
  <2>1. Len(a) \in T /\ T \subseteq Nat
    BY <1>1 DEF Returns
  <2>2. PICK m \in T : \A y \in T : m <= y
    BY <2>1, LeastNat
  <2>3. \A k \in 0..m - 1 : ~Returns(a, b, k)
    BY <1>1, <2>2
  <2> QED BY <2>2, <2>3
<1>3. n0 \in 0..Len(a) /\ First(n0)
  BY <1>2
<1>4. n0 <= Len(b)
  <2>1. Returns(a, b, Len(b))
    BY DEF Returns
  <2> QED BY <1>1, <1>3, <2>1
<1>5. Agree(a, b, n0)
  BY <1>3 DEF Agree, Returns
<1>6. CompareDomains(a, b) =
        IF n0 = Len(a) THEN IF n0 = Len(b) THEN 0 ELSE 1
        ELSE IF n0 = Len(b) \/ Label(a, n0) < Label(b, n0) THEN -1 ELSE 1
  BY DEF CompareDomains
<1> HIDE DEF n0
<1> QED BY <1>1, <1>3, <1>4, <1>5, <1>6

\* DomainBefore is a strict order.
LEMMA DomainBeforeStrict ==
  ASSUME NEW a \in Domains, NEW b \in Domains, DomainBefore(a, b)
  PROVE  a # b /\ ~DomainBefore(b, a)
<1>1. Len(a) \in Nat /\ Len(b) \in Nat
  BY DEF Domains
<1>2. PICK n \in Nat : /\ n < Len(a) /\ n <= Len(b) /\ Agree(a, b, n)
                       /\ n = Len(b) \/ Label(a, n) < Label(b, n)
  BY DEF DomainBefore
<1>3. a # b
  <2>1. CASE a = b
    BY <1>1, <1>2, <2>1, LabelType
  <2> QED BY <2>1
<1>4. ASSUME DomainBefore(b, a) PROVE FALSE
  <2>1. PICK m \in Nat : /\ m < Len(b) /\ m <= Len(a) /\ Agree(b, a, m)
                         /\ m = Len(a) \/ Label(b, m) < Label(a, m)
    BY <1>4 DEF DomainBefore
  <2>2. CASE n < m
    BY <1>1, <1>2, <2>1, <2>2, LabelType DEF Agree
  <2>3. CASE m < n
    BY <1>1, <1>2, <2>1, <2>3, LabelType DEF Agree
  <2>4. CASE n = m
    BY <1>1, <1>2, <2>1, <2>4, LabelType
  <2> QED BY <2>2, <2>3, <2>4
<1> QED BY <1>3, <1>4

\* And it is transitive.
LEMMA DomainBeforeTransitive ==
  ASSUME NEW a \in Domains, NEW b \in Domains, NEW c \in Domains,
         DomainBefore(a, b), DomainBefore(b, c)
  PROVE  DomainBefore(a, c)
<1>1. Len(a) \in Nat /\ Len(b) \in Nat /\ Len(c) \in Nat
  BY DEF Domains
<1>2. PICK n \in Nat : /\ n < Len(a) /\ n <= Len(b) /\ Agree(a, b, n)
                       /\ n = Len(b) \/ Label(a, n) < Label(b, n)
  BY DEF DomainBefore
<1>3. PICK m \in Nat : /\ m < Len(b) /\ m <= Len(c) /\ Agree(b, c, m)
                       /\ m = Len(c) \/ Label(b, m) < Label(c, m)
  BY DEF DomainBefore
<1>4. CASE n < m
  <2>1. n < Len(a) /\ n <= Len(c) /\ n < Len(b) /\ n < Len(c) /\ Label(a, n) < Label(c, n)
    BY <1>1, <1>2, <1>3, <1>4 DEF Agree
  <2>2. Agree(a, c, n)
    BY <1>2, <1>3, <1>4 DEF Agree
  <2> QED BY <2>1, <2>2 DEF DomainBefore
<1>5. CASE m < n
  <2>1. m < Len(a) /\ m <= Len(c) /\ Label(a, m) = Label(b, m)
    BY <1>1, <1>2, <1>3, <1>5 DEF Agree
  <2>2. Agree(a, c, m)
    BY <1>2, <1>3, <1>5 DEF Agree
  <2> QED BY <1>3, <2>1, <2>2 DEF DomainBefore
<1>6. CASE n = m
  <2>1. n < Len(a) /\ n < Len(b) /\ n <= Len(c) /\ Label(a, n) < Label(b, n)
    BY <1>1, <1>2, <1>3, <1>6
  <2>2. n = Len(c) \/ Label(a, n) < Label(c, n)
    <3>1. CASE n < Len(c)
      <4>1. Label(a, n) \in Nat /\ Label(b, n) \in Nat /\ Label(c, n) \in Nat
        BY <2>1, <3>1, LabelType
      <4> QED BY <1>3, <1>6, <2>1, <3>1, <4>1
    <3> QED BY <1>1, <2>1, <3>1
  <2>3. Agree(a, c, n)
    BY <1>2, <1>3, <1>6 DEF Agree
  <2> QED BY <2>1, <2>2, <2>3 DEF DomainBefore
<1> QED BY <1>4, <1>5, <1>6

\* What compareDomains returns.
LEMMA CompareDomainsIs ==
  ASSUME NEW a \in Domains, NEW b \in Domains
  PROVE  /\ CompareDomains(a, b) \in {-1, 0, 1}
         /\ CompareDomains(a, b) = -1 <=> DomainBefore(a, b)
         /\ CompareDomains(a, b) = 1 <=> DomainBefore(b, a)
         /\ CompareDomains(a, b) = 0 <=> a = b
<1>1. Len(a) \in Nat /\ Len(b) \in Nat
  BY DEF Domains
<1>2. PICK n \in Nat :
        /\ n <= Len(a) /\ n <= Len(b) /\ Agree(a, b, n) /\ Returns(a, b, n)
        /\ CompareDomains(a, b) = IF n = Len(a) THEN IF n = Len(b) THEN 0 ELSE 1
                                  ELSE IF n = Len(b) \/ Label(a, n) < Label(b, n) THEN -1 ELSE 1
  BY LoopReturns
<1>3. Agree(b, a, n)
  BY <1>2 DEF Agree
<1>4. CASE n = Len(a) /\ n = Len(b)
  <2>1. \A i \in 1..Len(a) : a[i] = b[i]
    <3> SUFFICES ASSUME NEW i \in 1..Len(a) PROVE a[i] = b[i]
      OBVIOUS
    <3>1. n - i \in 0..n - 1 /\ n - (n - i) = i
      BY <1>1, <1>4
    <3>2. Label(a, n - i) = Label(b, n - i)
      BY <1>2, <3>1 DEF Agree
    <3> QED BY <1>4, <3>1, <3>2 DEF Label
  <2>2. a = b
    BY <1>4, <2>1, SeqEqual DEF Domains
  <2>3. ~DomainBefore(a, b) /\ ~DomainBefore(b, a)
    BY <2>2, DomainBeforeStrict
  <2> QED BY <1>2, <1>4, <2>2, <2>3
<1>5. CASE n = Len(a) /\ n # Len(b)
  <2>1. DomainBefore(b, a)
    BY <1>1, <1>2, <1>3, <1>5 DEF DomainBefore
  <2> QED BY <1>2, <1>5, <2>1, DomainBeforeStrict
<1>6. CASE n # Len(a) /\ n = Len(b)
  <2>1. DomainBefore(a, b)
    BY <1>1, <1>2, <1>6 DEF DomainBefore
  <2> QED BY <1>2, <1>6, <2>1, DomainBeforeStrict
<1>7. CASE n # Len(a) /\ n # Len(b)
  <2>1. n < Len(a) /\ n < Len(b) /\ Label(a, n) # Label(b, n)
    BY <1>1, <1>2, <1>7 DEF Returns
  <2>2. Label(a, n) \in Nat /\ Label(b, n) \in Nat
    BY <2>1, LabelType
  <2>3. CASE Label(a, n) < Label(b, n)
    <3>1. DomainBefore(a, b)
      BY <1>1, <1>2, <2>1, <2>3 DEF DomainBefore
    <3> QED BY <1>2, <1>7, <2>3, <3>1, DomainBeforeStrict
  <2>4. CASE Label(b, n) < Label(a, n)
    <3>1. DomainBefore(b, a)
      BY <1>1, <1>2, <1>3, <2>1, <2>4 DEF DomainBefore
    <3>2. ~(Label(a, n) < Label(b, n))
      BY <2>2, <2>4
    <3> QED BY <1>2, <1>7, <3>1, <3>2, DomainBeforeStrict
  <2> QED BY <2>1, <2>2, <2>3, <2>4
<1> QED BY <1>4, <1>5, <1>6, <1>7
----------------------------------------------------------------------------
(* The comparison functions of the two lists *)

\* What the lists consist of.
Keys == [prefix : Networks \cup {NoPrefix}, domain : Domains]

Kinds == {"static", "autodevice"}

\* netip.Prefix.Compare is a strict total order.
LEMMA PrefixOrder ==
  ASSUME NEW p \in Networks, NEW q \in Networks
  PROVE  /\ PrefixCompare(p, q) \in {-1, 0, 1}
         /\ PrefixCompare(p, q) = 0 <=> p = q
         /\ PrefixCompare(p, q) = -1 <=> PrefixCompare(q, p) = 1
         /\ \A r \in Networks : PrefixCompare(p, q) = -1 /\ PrefixCompare(q, r) = -1
                                  => PrefixCompare(p, r) = -1
<1>1. \A x \in Networks : x.addr \in Int /\ x.bits \in Int /\ x = [addr |-> x.addr, bits |-> x.bits]
  BY DEF Networks, Addrs
<1>2. p.addr = q.addr /\ p.bits = q.bits => p = q
  BY <1>1
<1>3. PrefixCompare(p, q) \in {-1, 0, 1} /\ (PrefixCompare(p, q) = 0 <=> p = q)
  BY <1>1, <1>2 DEF PrefixCompare
<1>4. PrefixCompare(p, q) = -1 <=> PrefixCompare(q, p) = 1
  BY <1>1 DEF PrefixCompare
<1>5. ASSUME NEW r \in Networks, PrefixCompare(p, q) = -1, PrefixCompare(q, r) = -1
      PROVE  PrefixCompare(p, r) = -1
  <2>1. p.addr < q.addr \/ (p.addr = q.addr /\ p.bits < q.bits)
    BY <1>1, <1>5 DEF PrefixCompare
  <2>2. q.addr < r.addr \/ (q.addr = r.addr /\ q.bits < r.bits)
    BY <1>1, <1>5 DEF PrefixCompare
  <2>3. p.addr < r.addr \/ (p.addr = r.addr /\ p.bits < r.bits)
    BY <1>1, <2>1, <2>2
  <2> QED BY <1>1, <2>3 DEF PrefixCompare
<1> QED BY <1>3, <1>4, <1>5

\* compareDomains is one, too.
LEMMA DomainOrder ==
  ASSUME NEW a \in Domains, NEW b \in Domains
  PROVE  /\ CompareDomains(a, b) \in {-1, 0, 1}
         /\ CompareDomains(a, b) = 0 <=> a = b
         /\ CompareDomains(a, b) = -1 <=> CompareDomains(b, a) = 1
         /\ \A c \in Domains : CompareDomains(a, b) = -1 /\ CompareDomains(b, c) = -1
                                 => CompareDomains(a, c) = -1
  BY CompareDomainsIs, DomainBeforeTransitive

\* Each list orders first by what kind of prefix there is.
Rank(kind, p) ==
  IF p = NoPrefix THEN 2 ELSE IF kind = "static" /\ IsSingleIP(p) THEN 0 ELSE 1

\* Then by prefix and by domain.
LEMMA CompareIs ==
  ASSUME NEW kind \in Kinds, NEW c \in Keys, NEW d \in Keys
  PROVE  Compare(kind, c, d) =
           IF Rank(kind, c.prefix) # Rank(kind, d.prefix)
           THEN IF Rank(kind, c.prefix) < Rank(kind, d.prefix) THEN -1 ELSE 1
           ELSE IF c.prefix = d.prefix THEN CompareDomains(c.domain, d.domain)
           ELSE PrefixCompare(c.prefix, d.prefix)
<1>1. CASE kind = "autodevice"
  BY <1>1 DEF Compare, AutodeviceCompare, Rank
<1>2. CASE kind = "static"
  <2>1. Compare(kind, c, d) = StaticCompare(c, d)
    BY <1>2 DEF Compare
  <2>2. CASE c.prefix = NoPrefix \/ d.prefix = NoPrefix
    BY <1>2, <2>1, <2>2 DEF StaticCompare, AutodeviceCompare, Rank
  <2>3. CASE c.prefix # NoPrefix /\ d.prefix # NoPrefix
    <3>1. CASE IsSingleIP(c.prefix) /\ ~IsSingleIP(d.prefix)
      <4>1. StaticCompare(c, d) = -1
        BY <2>3, <3>1 DEF StaticCompare, IsSingleIP
      <4>2. Rank(kind, c.prefix) = 0 /\ Rank(kind, d.prefix) = 1
        BY <1>2, <2>3, <3>1 DEF Rank
      <4> QED BY <2>1, <4>1, <4>2
    <3>2. CASE ~IsSingleIP(c.prefix) /\ IsSingleIP(d.prefix)
      <4>1. StaticCompare(c, d) = 1
        BY <2>3, <3>2 DEF StaticCompare, IsSingleIP
      <4>2. Rank(kind, c.prefix) = 1 /\ Rank(kind, d.prefix) = 0
        BY <1>2, <2>3, <3>2 DEF Rank
      <4> QED BY <2>1, <4>1, <4>2
    <3>3. CASE IsSingleIP(c.prefix) <=> IsSingleIP(d.prefix)
      <4>1. Compare(kind, c, d) = AutodeviceCompare(c, d)
        BY <2>1, <3>3 DEF StaticCompare, IsSingleIP
      <4> QED BY <1>2, <2>3, <3>3, <4>1 DEF AutodeviceCompare, Rank
    <3> QED BY <3>1, <3>2, <3>3
  <2> QED BY <2>2, <2>3
<1> QED BY <1>1, <1>2 DEF Kinds

\* The comparison function of each list is a strict total order on the keys that
\* the validation lets through, and returns zero for equal keys only.
THEOREM CompareOrder ==
  ASSUME NEW kind \in Kinds, NEW c \in Keys, NEW d \in Keys
  PROVE  /\ Compare(kind, c, d) \in {-1, 0, 1}
         /\ Compare(kind, c, d) = 0 <=> c = d
         /\ Compare(kind, c, d) = -1 <=> Compare(kind, d, c) = 1
         /\ \A e \in Keys : Compare(kind, c, d) = -1 /\ Compare(kind, d, e) = -1
                              => Compare(kind, c, e) = -1
<1>1. \A x \in Keys : /\ x.domain \in Domains
                      /\ x.prefix = NoPrefix \/ x.prefix \in Networks
                      /\ x = [prefix |-> x.prefix, domain |-> x.domain]
  BY DEF Keys
<1>2. \A x \in Keys : /\ Rank(kind, x.prefix) \in {0, 1, 2}
                      /\ Rank(kind, x.prefix) = 2 <=> x.prefix = NoPrefix
  BY DEF Rank
<1>3. c.prefix = d.prefix /\ c.domain = d.domain => c = d
  BY <1>1
<1>4. Compare(kind, c, d) \in {-1, 0, 1} /\ (Compare(kind, c, d) = 0 <=> c = d)
  BY <1>1, <1>2, <1>3, CompareIs, PrefixOrder, DomainOrder
<1>5. Compare(kind, c, d) = -1 <=> Compare(kind, d, c) = 1
  BY <1>1, <1>2, CompareIs, PrefixOrder, DomainOrder
<1>6. ASSUME NEW e \in Keys, Compare(kind, c, d) = -1, Compare(kind, d, e) = -1
      PROVE  Compare(kind, c, e) = -1
  <2>1. Rank(kind, c.prefix) <= Rank(kind, d.prefix) /\ Rank(kind, d.prefix) <= Rank(kind, e.prefix)
    BY <1>2, <1>6, CompareIs
  <2>2. CASE Rank(kind, c.prefix) # Rank(kind, e.prefix)
    BY <1>2, <2>1, <2>2, CompareIs
  <2>3. CASE Rank(kind, c.prefix) = Rank(kind, e.prefix)
    <3>1. Rank(kind, c.prefix) = Rank(kind, d.prefix) /\ Rank(kind, d.prefix) = Rank(kind, e.prefix)
      BY <1>2, <2>1, <2>3
    <3>2. CASE c.prefix = d.prefix /\ d.prefix = e.prefix
      BY <1>1, <1>6, <3>1, <3>2, CompareIs, DomainOrder
    <3>3. CASE c.prefix # d.prefix \/ d.prefix # e.prefix
      <4>1. c.prefix \in Networks /\ d.prefix \in Networks /\ e.prefix \in Networks
        BY <1>1, <1>2, <3>1, <3>3
      <4>2. /\ c.prefix = d.prefix \/ PrefixCompare(c.prefix, d.prefix) = -1
            /\ d.prefix = e.prefix \/ PrefixCompare(d.prefix, e.prefix) = -1
        BY <1>6, <3>1, CompareIs
      <4>3. PrefixCompare(c.prefix, e.prefix) = -1
        BY <3>3, <4>1, <4>2, PrefixOrder
      <4>4. c.prefix # e.prefix
        BY <4>1, <4>3, PrefixOrder
      <4> QED BY <2>3, <4>3, <4>4, CompareIs
    <3> QED BY <3>2, <3>3
  <2> QED BY <2>2, <2>3
<1> QED BY <1>4, <1>5, <1>6
----------------------------------------------------------------------------
(* slices.SortStableFunc *)

Ordered(kind, s) == \A i, j \in 1..Len(s) : i < j => Compare(kind, s[i], s[j]) = -1

Elements(s) == {s[i] : i \in 1..Len(s)}

\* A sequence with an element inserted.
LEMMA InsertAtIs ==
  ASSUME NEW s \in Seq(Keys), NEW c \in Keys, NEW k \in 0..Len(s),
         NEW t, t = InsertAt(s, k + 1, c)
  PROVE  /\ t \in Seq(Keys) /\ Len(t) = Len(s) + 1
         /\ \A j \in 1..k : t[j] = s[j]
         /\ t[k + 1] = c
         /\ \A j \in k + 2..Len(s) + 1 : t[j] = s[j - 1]
<1> DEFINE u == SubSeq(s, 1, k)
           v == SubSeq(s, k + 1, Len(s))
<1>1. Len(s) \in Nat /\ k \in Nat /\ k <= Len(s)
  OBVIOUS
<1>2. u \in Seq(Keys) /\ Len(u) = k /\ \A j \in 1..k : u[j] = s[j]
  <2>1. \A j \in 1..k : s[j] \in Keys
    BY <1>1, ElementOfSeq
  <2>2. u \in Seq(Keys) /\ Len(u) = (IF 1 <= k THEN k - 1 + 1 ELSE 0)
        /\ \A j \in 1..k - 1 + 1 : u[j] = s[1 + j - 1]
    BY <1>1, <2>1, SubSeqProperties
  <2> HIDE DEF u
  <2> QED BY <1>1, <2>2
<1>3. v \in Seq(Keys) /\ Len(v) = Len(s) - k /\ \A j \in 1..Len(s) - k : v[j] = s[k + j]
  <2>1. \A j \in k + 1..Len(s) : s[j] \in Keys
    BY <1>1, ElementOfSeq
  <2>2. v \in Seq(Keys) /\ Len(v) = (IF k + 1 <= Len(s) THEN Len(s) - (k + 1) + 1 ELSE 0)
        /\ \A j \in 1..Len(s) - (k + 1) + 1 : v[j] = s[(k + 1) + j - 1]
    BY <1>1, <2>1, SubSeqProperties
  <2>3. \A j \in 1..Len(s) - k : (k + 1) + j - 1 = k + j /\ j \in 1..Len(s) - (k + 1) + 1
    BY <1>1
  <2> HIDE DEF v
  <2> QED BY <1>1, <2>2, <2>3
<1>4. InsertAt(s, k + 1, c) = u \o <<c>> \o v
  <2>1. PICK i : i = k + 1
    OBVIOUS
  <2>2. i - 1 = k
    BY <1>1, <2>1
  <2>3. InsertAt(s, i, c) = SubSeq(s, 1, i - 1) \o <<c>> \o SubSeq(s, i, Len(s))
    BY Zenon DEF InsertAt
  <2> QED BY <2>1, <2>2, <2>3, Zenon
<1> HIDE DEF u, v
<1>5. <<c>> \in Seq(Keys) /\ Len(<<c>>) = 1 /\ <<c>>[1] = c
  OBVIOUS
<1> DEFINE w == u \o <<c>>
<1>6. w \in Seq(Keys) /\ Len(w) = k + 1 /\ w[k + 1] = c /\ \A j \in 1..k : w[j] = u[j]
  <2>1. w \in Seq(Keys) /\ Len(w) = k + 1
        /\ \A j \in 1..k + 1 : w[j] = IF j <= k THEN u[j] ELSE <<c>>[j - k]
    BY <1>2, <1>5, ConcatProperties
  <2> HIDE DEF w
  <2>2. k + 1 - k = 1
    BY <1>1
  <2> QED BY <1>1, <1>5, <2>1, <2>2
<1>8. t = w \o v
  BY <1>4, Zenon DEF w
<1> HIDE DEF w
<1>7. t \in Seq(Keys) /\ Len(t) = (k + 1) + (Len(s) - k)
      /\ \A j \in 1..(k + 1) + (Len(s) - k) : t[j] = IF j <= k + 1 THEN w[j] ELSE v[j - (k + 1)]
  <2>1. /\ t \in Seq(Keys) /\ Len(t) = Len(w) + Len(v)
        /\ \A j \in 1..Len(w) + Len(v) : t[j] = IF j <= Len(w) THEN w[j] ELSE v[j - Len(w)]
    <3>1. /\ w \o v \in Seq(Keys) /\ Len(w \o v) = Len(w) + Len(v)
          /\ \A j \in 1..Len(w) + Len(v) : (w \o v)[j] = IF j <= Len(w) THEN w[j] ELSE v[j - Len(w)]
      BY <1>3, <1>6, ConcatProperties
    <3> QED BY <1>8, <3>1, Zenon
  <2> QED BY <1>3, <1>6, <2>1
<1>9. Len(t) = Len(s) + 1 /\ (\A j \in 1..k : t[j] = s[j]) /\ t[k + 1] = c
  <2>1. (k + 1) + (Len(s) - k) = Len(s) + 1 /\ k + 1 \in 1..Len(s) + 1 /\ k + 1 <= k + 1
    BY <1>1
  <2>2. \A j \in 1..k : j \in 1..Len(s) + 1 /\ j <= k + 1
    BY <1>1
  <2>3. Len(t) = Len(s) + 1 /\ t[k + 1] = c
    BY <1>6, <1>7, <2>1
  <2>4. ASSUME NEW j \in 1..k PROVE t[j] = s[j]
    <3>1. t[j] = w[j]
      BY <1>7, <2>1, <2>2
    <3> QED BY <1>2, <1>6, <3>1
  <2> QED BY <2>3, <2>4
<1>10. ASSUME NEW j \in k + 2..Len(s) + 1 PROVE t[j] = s[j - 1]
  <2>1. j - (k + 1) \in 1..Len(s) - k /\ k + (j - (k + 1)) = j - 1
    BY <1>1
  <2>2. j \in 1..(k + 1) + (Len(s) - k) /\ ~(j <= k + 1)
    BY <1>1
  <2>3. t[j] = v[j - (k + 1)]
    BY <1>7, <2>2
  <2> QED BY <1>3, <2>1, <2>3
<1> QED BY <1>7, <1>9, <1>10, Zenon

\* Inserting a new element keeps the order: there is a place to insert it at,
\* and everything before it precedes it.
LEMMA InsertOrdered ==
  ASSUME NEW kind \in Kinds, NEW s \in Seq(Keys), NEW c \in Keys,
         Ordered(kind, s), c \notin Elements(s)
  PROVE  LET t == Insert(kind, s, c) IN
         t \in Seq(Keys) /\ Len(t) = Len(s) + 1 /\ Ordered(kind, t) /\ Elements(t) = Elements(s) \cup {c}
<1> DEFINE Place(k) == /\ k = 0 \/ Compare(kind, c, s[k]) >= 0
                       /\ \A j \in k + 1..Len(s) : Compare(kind, c, s[j]) < 0
           k0 == CHOOSE k \in 0..Len(s) : Place(k)
<1>1. Len(s) \in Nat /\ \A i \in 1..Len(s) : s[i] \in Keys /\ s[i] # c
  BY ElementOfSeq DEF Elements
<1>2. \A i \in 1..Len(s) : Compare(kind, c, s[i]) \in {-1, 1}
  BY <1>1, CompareOrder
<1>3. \E k \in 0..Len(s) : Place(k)
  <2> DEFINE T == {j \in 1..Len(s) : Compare(kind, c, s[j]) = -1}
  <2>1. CASE T = {}
    <3>1. \A i \in 1..Len(s) : Compare(kind, c, s[i]) = 1
      BY <1>2, <2>1
    <3>2. Place(Len(s))
      BY <1>1, <3>1
    <3> QED BY <1>1, <3>2
  <2>2. CASE T # {}
    <3>1. PICK m \in T : \A y \in T : m <= y
      <4>1. T \subseteq Nat
        BY <1>1
      <4> QED BY <2>2, <4>1, LeastNat
    <3>2. m \in 1..Len(s) /\ Compare(kind, c, s[m]) = -1 /\ m - 1 \in 0..Len(s) /\ m - 1 + 1 = m
      BY <1>1, <3>1
    <3>3. m - 1 # 0 => Compare(kind, c, s[m - 1]) = 1
      <4>1. m - 1 # 0 => m - 1 \in 1..Len(s) /\ ~(m <= m - 1)
        BY <1>1, <3>2
      <4> QED BY <1>2, <3>1, <4>1
    <3>4. \A j \in m..Len(s) : Compare(kind, c, s[j]) = -1
      <4>1. \A j \in m..Len(s) : j \in 1..Len(s) /\ (j = m \/ m < j)
        BY <1>1, <3>2
      <4>2. \A j \in m..Len(s) : j = m \/ Compare(kind, s[m], s[j]) = -1
        BY <3>2, <4>1 DEF Ordered
      <4> QED BY <1>1, <3>2, <4>1, <4>2, CompareOrder
    <3>5. Place(m - 1)
      BY <3>2, <3>3, <3>4
    <3> QED BY <3>2, <3>5
  <2> QED BY <2>1, <2>2
<1>4. k0 \in 0..Len(s) /\ Place(k0)
  BY <1>3
<1>5. Insert(kind, s, c) = InsertAt(s, k0 + 1, c)
  BY DEF Insert
<1>6. PICK k \in 0..Len(s) : k = k0 /\ Place(k)
  BY <1>4
<1> HIDE DEF k0
<1> DEFINE t == Insert(kind, s, c)
<1>7. /\ t \in Seq(Keys) /\ Len(t) = Len(s) + 1
      /\ \A j \in 1..k : t[j] = s[j]
      /\ t[k + 1] = c
      /\ \A j \in k + 2..Len(s) + 1 : t[j] = s[j - 1]
  <2>1. t = InsertAt(s, k + 1, c)
    BY <1>5, <1>6
  <2> HIDE DEF t
  <2>2. \A z : z = InsertAt(s, k + 1, c) =>
          /\ z \in Seq(Keys) /\ Len(z) = Len(s) + 1
          /\ \A j \in 1..k : z[j] = s[j]
          /\ z[k + 1] = c
          /\ \A j \in k + 2..Len(s) + 1 : z[j] = s[j - 1]
    BY InsertAtIs, Zenon
  <2> QED BY <2>1, <2>2, Zenon
<1> HIDE DEF t
<1>8. \A j \in 1..k : Compare(kind, s[j], c) = -1
  <2>1. \A j \in 1..k : j \in 1..Len(s) /\ k \in 1..Len(s) /\ (j = k \/ j < k)
    BY <1>1
  <2>2. k # 0 => Compare(kind, s[k], c) = -1
    <3>1. k # 0 => k \in 1..Len(s)
      BY <1>1
    <3>2. k # 0 => Compare(kind, c, s[k]) = 1
      BY <1>2, <1>6, <3>1
    <3> QED BY <1>1, <3>1, <3>2, CompareOrder
  <2>3. \A j \in 1..k : j = k \/ Compare(kind, s[j], s[k]) = -1
    BY <2>1 DEF Ordered
  <2>4. \A j \in 1..k : k # 0
    BY <1>1
  <2> QED BY <1>1, <2>1, <2>2, <2>3, <2>4, CompareOrder
<1>9. \A j \in k + 1..Len(s) : Compare(kind, c, s[j]) = -1
  <2>1. \A j \in k + 1..Len(s) : j \in 1..Len(s)
    BY <1>1
  <2> QED BY <1>2, <1>6, <2>1
<1>10. Ordered(kind, t)
  <2> SUFFICES ASSUME NEW i \in 1..Len(t), NEW j \in 1..Len(t), i < j
               PROVE  Compare(kind, t[i], t[j]) = -1
    BY DEF Ordered
  <2>1. i \in Nat /\ j \in Nat /\ 1 <= i /\ i < j /\ j <= Len(s) + 1 /\ k \in Nat /\ k <= Len(s)
    BY <1>1, <1>7
  <2>2. CASE j <= k
    <3>1. i \in 1..k /\ j \in 1..k /\ i \in 1..Len(s) /\ j \in 1..Len(s)
      BY <1>1, <2>1, <2>2
    <3> QED BY <1>7, <2>1, <3>1 DEF Ordered
  <2>3. CASE j = k + 1
    <3>1. i \in 1..k
      BY <2>1, <2>3
    <3> QED BY <1>7, <1>8, <2>3, <3>1
  <2>4. CASE j > k + 1
    <3>1. j \in k + 2..Len(s) + 1 /\ j - 1 \in k + 1..Len(s) /\ j - 1 \in 1..Len(s)
      BY <1>1, <2>1, <2>4
    <3>2. t[j] = s[j - 1]
      BY <1>7, <3>1
    <3>3. CASE i <= k
      <4>1. i \in 1..k /\ i \in 1..Len(s) /\ i < j - 1
        BY <1>1, <2>1, <2>4, <3>3
      <4> QED BY <1>7, <3>1, <3>2, <4>1 DEF Ordered
    <3>4. CASE i = k + 1
      BY <1>7, <1>9, <3>1, <3>2, <3>4
    <3>5. CASE i > k + 1
      <4>1. i \in k + 2..Len(s) + 1 /\ i - 1 \in 1..Len(s) /\ i - 1 < j - 1
        BY <1>1, <2>1, <3>5
      <4> QED BY <1>7, <3>1, <3>2, <4>1 DEF Ordered
    <3> QED BY <2>1, <3>3, <3>4, <3>5
  <2> QED BY <2>1, <2>2, <2>3, <2>4
<1>11. Elements(t) = Elements(s) \cup {c}
  <2>1. ASSUME NEW j \in 1..Len(t) PROVE t[j] \in Elements(s) \cup {c}
    <3>1. CASE j \in 1..k
      <4>1. j \in 1..Len(s)
        BY <1>1, <3>1
      <4> QED BY <1>7, <3>1, <4>1 DEF Elements
    <3>2. CASE j = k + 1
      BY <1>7, <3>2
    <3>3. CASE j \in k + 2..Len(s) + 1
      <4>1. j - 1 \in 1..Len(s)
        BY <1>1, <3>3
      <4> QED BY <1>7, <3>3, <4>1 DEF Elements
    <3> QED BY <1>1, <1>7, <3>1, <3>2, <3>3
  <2>2. ASSUME NEW i \in 1..Len(s) PROVE s[i] \in Elements(t)
    <3>1. CASE i <= k
      <4>1. i \in 1..k /\ i \in 1..Len(t)
        BY <1>1, <1>7, <3>1
      <4> QED BY <1>7, <4>1 DEF Elements
    <3>2. CASE i > k
      <4>1. i + 1 \in k + 2..Len(s) + 1 /\ i + 1 \in 1..Len(t) /\ i + 1 - 1 = i
        BY <1>1, <1>7, <3>2
      <4>2. t[i + 1] = s[i]
        BY <1>7, <4>1
      <4> QED BY <4>1, <4>2 DEF Elements
    <3> QED BY <1>1, <3>1, <3>2
  <2>3. c \in Elements(t)
    <3>1. k + 1 \in 1..Len(t)
      BY <1>1, <1>7
    <3> QED BY <1>7, <3>1 DEF Elements
  <2> QED BY <2>1, <2>2, <2>3 DEF Elements
<1> QED BY <1>7, <1>10, <1>11 DEF t
\* A list is ordered by inserting its elements one after the other.
LEMMA SortOrders ==
  ASSUME NEW kind \in Kinds, NEW list \in Seq(Keys),
         \A i, j \in 1..Len(list) : i # j => list[i] # list[j]
  PROVE  LET t == SortStableFunc(kind, list) IN
         t \in Seq(Keys) /\ Ordered(kind, t) /\ Elements(t) = Elements(list)
<1> DEFINE Sorts(f, m) ==
             f = [n \in 0..m |-> IF n = 0 THEN <<>> ELSE Insert(kind, f[n - 1], list[n])]
           N == Len(list)
<1>1. N \in Nat /\ \A i \in 1..N : list[i] \in Keys
  BY ElementOfSeq
<1>2. \E f : Sorts(f, N)
  <2> DEFINE T == {m \in Nat : ~\E f : Sorts(f, m)}
  <2>1. SUFFICES ASSUME T # {} PROVE FALSE
    BY <1>1
  <2>2. PICK m \in T : \A y \in T : m <= y
    BY <2>1, LeastNat
  <2>3. CASE m = 0
    <3>1. PICK f : f = [n \in 0..0 |-> <<>>]
      OBVIOUS
    <3>2. f = [n \in 0..0 |-> IF n = 0 THEN <<>> ELSE Insert(kind, f[n - 1], list[n])]
      BY <3>1
    <3> QED BY <2>2, <2>3, <3>2
  <2>4. CASE m # 0
    <3>1. m \in Nat /\ m - 1 \in Nat /\ ~(m <= m - 1)
      BY <2>2, <2>4
    <3>2. PICK f : Sorts(f, m - 1)
      BY <2>2, <3>1
    <3>3. \A n \in 0..m - 1 : f[n] = IF n = 0 THEN <<>> ELSE Insert(kind, f[n - 1], list[n])
      BY <3>2
    <3>4. PICK g : g = [n \in 0..m |-> IF n = m THEN Insert(kind, f[m - 1], list[m]) ELSE f[n]]
      OBVIOUS
    <3>5. \A n \in 0..m - 1 : g[n] = f[n]
      BY <3>1, <3>4
    <3>6. ASSUME NEW n \in 0..m
          PROVE  g[n] = IF n = 0 THEN <<>> ELSE Insert(kind, g[n - 1], list[n])
      <4>1. CASE n = m
        <5>1. m - 1 \in 0..m - 1
          BY <3>1
        <5>2. g[m - 1] = f[m - 1]
          BY <3>5, <5>1
        <5> QED BY <2>4, <3>1, <3>4, <4>1, <5>2
      <4>2. CASE n # m
        <5>1. n \in 0..m - 1 /\ (n # 0 => n - 1 \in 0..m - 1)
          BY <3>1, <4>2
        <5> QED BY <3>3, <3>5, <5>1
      <4> QED BY <4>1, <4>2
    <3>7. Sorts(g, m)
      BY <3>4, <3>6
    <3> QED BY <2>2, <3>7
  <2> QED BY <2>3, <2>4
<1>3. PICK f : Sorts(f, N) /\ SortStableFunc(kind, list) = f[N]
  <2> DEFINE F == CHOOSE f : Sorts(f, N)
  <2>1. Sorts(F, N)
    BY <1>2, Zenon
  <2>2. SortStableFunc(kind, list) = F[N]
    BY Zenon DEF SortStableFunc
  <2> QED BY <2>1, <2>2, Zenon
<1>4. f[0] = <<>> /\ \A n \in 1..N : f[n] = Insert(kind, f[n - 1], list[n])
  <2>1. \A n \in 0..N : f[n] = IF n = 0 THEN <<>> ELSE Insert(kind, f[n - 1], list[n])
    BY <1>3
  <2>2. 0 \in 0..N /\ \A n \in 1..N : n \in 0..N /\ n # 0
    BY <1>1
  <2> QED BY <2>1, <2>2
<1> DEFINE Good(n) == f[n] \in Seq(Keys) /\ Ordered(kind, f[n])
                      /\ Elements(f[n]) = {list[i] : i \in 1..n}
<1>5. \A n \in 0..N : Good(n)
  <2> DEFINE T == {n \in 0..N : ~Good(n)}
  <2>1. SUFFICES ASSUME T # {} PROVE FALSE
    OBVIOUS
  <2>2. PICK n \in T : \A y \in T : n <= y
    <3>1. T \subseteq Nat
      BY <1>1
    <3> HIDE DEF T
    <3> QED BY <2>1, <3>1, LeastNat
  <2>3. n # 0
    <3>1. f[0] \in Seq(Keys) /\ Len(f[0]) = 0
      BY <1>4
    <3>2. Good(0)
      BY <3>1 DEF Ordered, Elements
    <3> QED BY <2>2, <3>2
  <2>4. n \in 1..N /\ n - 1 \in 0..N /\ ~(n <= n - 1)
    BY <1>1, <2>2, <2>3
  <2>5. Good(n - 1)
    BY <2>2, <2>4
  <2>6. PICK s \in Seq(Keys) : s = f[n - 1]
    BY <2>5
  <2>7. Ordered(kind, s) /\ Elements(s) = {list[i] : i \in 1..n - 1}
    BY <2>5, <2>6
  <2>8. list[n] \in Keys /\ list[n] \notin Elements(s)
    <3>1. \A i \in 1..n - 1 : i \in 1..N /\ i # n
      BY <1>1, <2>4
    <3> QED BY <1>1, <2>4, <2>7, <3>1
  <2>9. PICK t : t = Insert(kind, s, list[n])
    OBVIOUS
  <2>10. t \in Seq(Keys) /\ Ordered(kind, t) /\ Elements(t) = Elements(s) \cup {list[n]}
    BY <2>7, <2>8, <2>9, InsertOrdered
  <2>11. {list[i] : i \in 1..n} = {list[i] : i \in 1..n - 1} \cup {list[n]}
    <3>1. \A i \in 1..n : i \in 1..n - 1 \/ i = n
      BY <2>4
    <3>2. n \in 1..n /\ \A i \in 1..n - 1 : i \in 1..n
      BY <2>4
    <3> QED BY <3>1, <3>2
  <2>12. f[n] = t
    BY <1>4, <2>4, <2>6, <2>9
  <2>13. Good(n)
    BY <2>7, <2>10, <2>11, <2>12
  <2> QED BY <2>2, <2>13
<1>6. Elements(list) = {list[i] : i \in 1..N}
  BY DEF Elements
<1>7. Good(N)
  <2>1. N \in 0..N
    BY <1>1
  <2> HIDE DEF Good
  <2> QED BY <1>5, <2>1
<1> QED BY <1>3, <1>6, <1>7
----------------------------------------------------------------------------
(* The criteria of the configuration, which are finitely many *)

\* The image of a finite set is finite.
LEMMA FiniteImage ==
  ASSUME NEW S, IsFiniteSet(S), NEW f, f = [x \in S |-> f[x]]
  PROVE  IsFiniteSet({f[x] : x \in S})
<1> DEFINE T == {f[x] : x \in S}
<1>1. f \in Surjection(S, T)
  BY DEF Surjection
<1> HIDE DEF T
<1>2. IsFiniteSet(T)
  BY <1>1, FS_Surjection
<1> QED BY <1>2 DEF T

\* There are finitely many match criteria.
LEMMA PlacesFinite ==
  ASSUME match \in [Groups -> Seq(Matches)]
  PROVE  IsFiniteSet(Places)
<1> DEFINE f == [g \in Groups |-> {g} \X (1..Len(match[g]))]
<1>1. IsFiniteSet(Groups)
  BY MatchAssumption
<1>2. IsFiniteSet({f[g] : g \in Groups})
  <2>1. f = [g \in Groups |-> f[g]]
    OBVIOUS
  <2> HIDE DEF f
  <2> QED BY <1>1, <2>1, FiniteImage
<1>3. \A T \in {f[g] : g \in Groups} : IsFiniteSet(T)
  <2> SUFFICES ASSUME NEW g \in Groups PROVE IsFiniteSet({g} \X (1..Len(match[g])))
    OBVIOUS
  <2>1. Len(match[g]) \in Int /\ 1 \in Int
    BY LenProperties
  <2>2. IsFiniteSet(1..Len(match[g]))
    BY <2>1, FS_Interval
  <2>3. IsFiniteSet({g})
    BY FS_Singleton
  <2> QED BY <2>2, <2>3, FS_Product
<1>4. Places = UNION {f[g] : g \in Groups}
  BY DEF Places
<1> HIDE DEF f
<1> QED BY <1>2, <1>3, <1>4, FS_UNION

\* A place has criteria of the configuration.
LEMMA AtMatches ==
  ASSUME match \in [Groups -> Seq(Matches)], NEW x \in Places
  PROVE  At(x) \in Matches /\ Key(At(x)) \in Keys
<1>1. PICK g \in Groups : x \in {g} \X (1..Len(match[g]))
  BY DEF Places
<1>2. x[1] = g /\ x[2] \in 1..Len(match[g])
  BY <1>1
<1>3. At(x) \in Matches
  BY <1>2, ElementOfSeq DEF At
<1> QED BY <1>3, MatchAssumption DEF Key, Keys

\* The keys of the groups gs are finitely many.
LEMMA KeysFinite ==
  ASSUME match \in [Groups -> Seq(Matches)], NEW gs
  PROVE  IsFiniteSet(KeysOf(gs)) /\ KeysOf(gs) \subseteq Keys
<1> DEFINE P == {x \in Places : x[1] \in gs}
           f == [x \in P |-> Key(At(x))]
<1>1. IsFiniteSet(P)
  BY PlacesFinite, FS_Subset
<1>2. f = [x \in P |-> f[x]]
  OBVIOUS
<1>3. KeysOf(gs) = {f[x] : x \in P}
  BY DEF KeysOf
<1>4. KeysOf(gs) \subseteq Keys
  BY AtMatches DEF KeysOf
<1> HIDE DEF f, P
<1> QED BY <1>1, <1>2, <1>3, <1>4, FiniteImage

\* Whatever the order in which Go ranges over a map, its keys are sorted.
LEMMA MapSorted ==
  ASSUME NEW kind \in Kinds, NEW K \in SUBSET Keys, IsFiniteSet(K), NEW s \in SetToSeqs(K)
  PROVE  LET t == SortStableFunc(kind, s) IN t \in Seq(Keys) /\ Ordered(kind, t)
<1> DEFINE n == Cardinality(K)
<1>1. n \in Nat
  BY FS_CardinalityType
<1>2. s \in [1..n -> K] /\ \A i, j \in 1..n : i # j => s[i] # s[j]
  BY DEF SetToSeqs
<1> HIDE DEF n
<1>3. s \in Seq(Keys) /\ Len(s) = n
  BY <1>1, <1>2
<1> QED BY <1>2, <1>3, SortOrders

----------------------------------------------------------------------------
(* The first match *)

\* FirstMatch finds the first client that matches, if there is one.
LEMMA FirstMatchIs ==
  ASSUME NEW list \in Seq(Keys), NEW a, NEW q
  PROVE  LET i == FirstMatch(list, a, q) IN
         /\ i # 0 => i \in 1..Len(list) /\ IsMatch(list[i], a, q)
         /\ \A j \in 1..Len(list) : IsMatch(list[j], a, q) => i # 0 /\ i <= j
<1> DEFINE I == {i \in 1..Len(list) : IsMatch(list[i], a, q)}
<1>1. FirstMatch(list, a, q) = IF I # {} THEN Min(I) ELSE 0
  BY DEF FirstMatch, SelectInSeq
<1>2. I # {} => Min(I) \in I /\ \A j \in I : Min(I) <= j
  <2>1. I \subseteq Nat
    OBVIOUS
  <2> HIDE DEF I
  <2>2. I # {} => \E x \in I : \A y \in I : x <= y
    BY <2>1, LeastNat
  <2> QED BY <2>2 DEF Min
<1>3. \A i \in 1..Len(list) : i # 0
  OBVIOUS
<1> QED BY <1>1, <1>2, <1>3

\* A domain that matches a question agrees with it in all of its labels.
LEMMA MatchAgrees ==
  ASSUME NEW d \in Domains, NEW q \in Domains, d = <<>> \/ q = d \/ IsSuffix(d, q)
  PROVE  Len(d) <= Len(q) /\ Agree(d, q, Len(d))
<1>1. Len(d) \in Nat /\ Len(q) \in Nat
  BY DEF Domains
<1>2. CASE d = <<>>
  <2>1. Len(d) = 0
    BY <1>2
  <2> QED BY <1>1, <2>1 DEF Agree
<1>3. CASE q = d
  BY <1>1, <1>3 DEF Agree
<1>4. CASE IsSuffix(d, q)
  <2>1. /\ Reverse(d) = [i \in 1..Len(d) |-> d[(Len(d) - i) + 1]]
        /\ Reverse(q) = [i \in 1..Len(q) |-> q[(Len(q) - i) + 1]]
    BY DEF Reverse
  <2>2. Reverse(d) \in Seq(Nat) /\ Reverse(q) \in Seq(Nat)
        /\ Len(Reverse(d)) = Len(d) /\ Len(Reverse(q)) = Len(q)
    <3>1. \A i \in 1..Len(d) : (Len(d) - i) + 1 \in 1..Len(d)
      BY <1>1
    <3>2. \A i \in 1..Len(q) : (Len(q) - i) + 1 \in 1..Len(q)
      BY <1>1
    <3>3. \A i \in 1..Len(d) : d[(Len(d) - i) + 1] \in Nat
      BY <3>1 DEF Domains
    <3>4. \A i \in 1..Len(q) : q[(Len(q) - i) + 1] \in Nat
      BY <3>2 DEF Domains
    <3> QED BY <1>1, <2>1, <3>3, <3>4
  <2>3. /\ Len(d) <= Len(q)
        /\ SubSeq(Reverse(d), 1, Len(d)) = SubSeq(Reverse(q), 1, Len(d))
    BY <1>4, <2>2 DEF IsSuffix, IsPrefix
  <2>4. ASSUME NEW k \in 0..Len(d) - 1 PROVE Label(d, k) = Label(q, k)
    <3>1. k + 1 \in 1..Len(d) /\ k + 1 \in 1..Len(q)
          /\ (Len(d) - (k + 1)) + 1 = Len(d) - k /\ (Len(q) - (k + 1)) + 1 = Len(q) - k
      BY <1>1, <2>3
    <3>2. Reverse(d)[k + 1] = Label(d, k) /\ Reverse(q)[k + 1] = Label(q, k)
      BY <2>1, <3>1 DEF Label
    <3>3. SubSeq(Reverse(d), 1, Len(d))[k + 1] = Reverse(d)[k + 1]
          /\ SubSeq(Reverse(q), 1, Len(d))[k + 1] = Reverse(q)[k + 1]
      BY <1>1, <2>2, <2>3, <3>1
    <3> QED BY <2>3, <3>2, <3>3
  <2> QED BY <2>3, <2>4 DEF Agree
<1> QED BY <1>2, <1>3, <1>4

\* Of two domains that match one question the longer one is sorted first.
LEMMA LongerFirst ==
  ASSUME NEW d \in Domains, NEW e \in Domains, NEW q \in Domains,
         d = <<>> \/ q = d \/ IsSuffix(d, q), e = <<>> \/ q = e \/ IsSuffix(e, q),
         Len(d) < Len(e)
  PROVE  CompareDomains(d, e) = 1
<1>1. Len(d) \in Nat /\ Len(e) \in Nat
  BY DEF Domains
<1>2. Agree(d, q, Len(d)) /\ Agree(e, q, Len(e))
  BY MatchAgrees
<1>3. Agree(e, d, Len(d))
  <2>1. \A k \in 0..Len(d) - 1 : k \in 0..Len(e) - 1
    BY <1>1
  <2> QED BY <1>2, <2>1 DEF Agree
<1>4. DomainBefore(e, d)
  BY <1>1, <1>3 DEF DomainBefore
<1> QED BY <1>4, CompareDomainsIs

\* In an ordered list the first match has the most specific domain of its subnet.
LEMMA FirstIsMostSpecific ==
  ASSUME NEW kind \in Kinds, NEW list \in Seq(Keys), Ordered(kind, list),
         NEW a \in Addrs, NEW q \in Questions,
         NEW i \in 1..Len(list), IsMatch(list[i], a, q),
         NEW j \in 1..Len(list), IsMatch(list[j], a, q), i <= j
  PROVE  /\ list[j].prefix = list[i].prefix => Len(list[j].domain) <= Len(list[i].domain)
         /\ list[i].prefix = NoPrefix => list[j].prefix = NoPrefix
         /\ kind = "static" /\ list[j].prefix # NoPrefix /\ IsSingleIP(list[j].prefix)
              => list[i].prefix = list[j].prefix
<1>1. list[i] \in Keys /\ list[j] \in Keys /\ q \in Domains
  BY ElementOfSeq, MatchAssumption
<1>2. /\ list[i].domain \in Domains /\ list[j].domain \in Domains
      /\ list[i].prefix \in Networks \cup {NoPrefix} /\ list[j].prefix \in Networks \cup {NoPrefix}
      /\ Len(list[i].domain) \in Nat /\ Len(list[j].domain) \in Nat
  BY <1>1 DEF Keys, Domains
<1>3. CASE i = j
  BY <1>2, <1>3
<1>4. CASE i # j
  <2>1. Compare(kind, list[i], list[j]) = -1
    BY <1>4 DEF Ordered
  <2>2. Rank(kind, list[i].prefix) <= Rank(kind, list[j].prefix)
    BY <1>1, <2>1, CompareIs DEF Rank
  <2>3. list[j].prefix = list[i].prefix => Len(list[j].domain) <= Len(list[i].domain)
    <3>1. ASSUME list[j].prefix = list[i].prefix, Len(list[i].domain) < Len(list[j].domain)
          PROVE  FALSE
      <4>1. CompareDomains(list[i].domain, list[j].domain) = 1
        BY <1>1, <1>2, <3>1, LongerFirst DEF IsMatch
      <4>2. Compare(kind, list[i], list[j]) = CompareDomains(list[i].domain, list[j].domain)
        BY <1>1, <3>1, CompareIs
      <4> QED BY <2>1, <4>1, <4>2
    <3> QED BY <1>2, <3>1
  <2>4. list[i].prefix = NoPrefix => list[j].prefix = NoPrefix
    BY <2>2 DEF Rank
  <2>5. ASSUME kind = "static", list[j].prefix # NoPrefix, IsSingleIP(list[j].prefix)
        PROVE  list[i].prefix = list[j].prefix
    <3>1. list[i].prefix # NoPrefix /\ IsSingleIP(list[i].prefix)
      BY <2>2, <2>5 DEF Rank
    <3>2. \A p \in Networks : IsSingleIP(p) /\ PrefixContains(p, a) => p.addr = a
      <4> SUFFICES ASSUME NEW p \in Networks, IsSingleIP(p), PrefixContains(p, a) PROVE p.addr = a
        OBVIOUS
      <4>1. p.bits = Width /\ Width \in Nat /\ a \in Int /\ p.addr \in Int
        BY MatchAssumption DEF IsSingleIP, Networks, Addrs
      <4>2. Block(p) = 1
        <5>1. Width - p.bits = 0
          BY <4>1
        <5>2. Block(p) = 2^0
          BY <5>1 DEF Block
        <5> QED BY <5>2
      <4>3. a \div 1 = p.addr \div 1
        BY <4>2 DEF PrefixContains
      <4> QED BY <4>1, <4>3
    <3>3. list[i].prefix.addr = a /\ list[j].prefix.addr = a
      BY <1>2, <2>5, <3>1, <3>2 DEF IsMatch
    <3> QED BY <1>2, <2>5, <3>1, <3>3 DEF Networks, IsSingleIP
  <2> QED BY <2>3, <2>4, <2>5
<1> QED BY <1>3, <1>4
----------------------------------------------------------------------------
(* The invariant *)

\* What has been accepted is free of conflicts, and the lists are in order.
MatchInv ==
  /\ match \in [Groups -> Seq(Matches)]
  /\ pc = "valid" => NoConflicts
  /\ pc # "failed"
  /\ static \in Seq(Keys) /\ Ordered("static", static)
  /\ autodevice \in Seq(Keys) /\ Ordered("autodevice", autodevice)

\* Both lists are empty until the storage is made.
LEMMA MatchStarts ==
  ASSUME Init
  PROVE  MatchInv
<1>1. /\ pc = "writing" /\ match = [g \in Groups |-> <<>>]
      /\ static = <<>> /\ autodevice = <<>>
  BY DEF Init
<1>2. <<>> \in Seq(Keys) /\ <<>> \in Seq(Matches) /\ Len(<<>>) = 0
  OBVIOUS
<1>3. Ordered("static", <<>>) /\ Ordered("autodevice", <<>>)
  BY <1>2 DEF Ordered
<1>4. match \in [Groups -> Seq(Matches)]
  BY <1>1, <1>2
<1> QED BY <1>1, <1>2, <1>3, <1>4 DEF MatchInv

\* Every step keeps the invariant.
LEMMA MatchStep ==
  ASSUME MatchInv, [Next]_vars
  PROVE  MatchInv'
<1> USE DEF MatchInv
<1>1. CASE UNCHANGED vars
  BY <1>1 DEF vars, NoConflicts, Places, At
<1>2. ASSUME NEW g \in Groups, NEW m \in Matches, WriteMatch(g, m) PROVE MatchInv'
  <2>1. /\ pc = "writing" /\ UNCHANGED <<pc, static, autodevice>>
        /\ match' = [match EXCEPT ![g] = Append(@, m)]
    BY <1>2 DEF WriteMatch
  <2>2. Append(match[g], m) \in Seq(Matches)
    BY AppendProperties
  <2>3. match' \in [Groups -> Seq(Matches)]
    BY <2>1, <2>2
  <2> QED BY <2>1, <2>3
<1>3. CASE Validate
  <2>1. /\ UNCHANGED <<match, static, autodevice>>
        /\ pc' \in {"valid", "rejected"}
        /\ pc' = "valid" => NoConflicts
    BY <1>3 DEF Validate
  <2>2. NoConflicts' <=> NoConflicts
    BY <2>1 DEF NoConflicts, Places, At
  <2> QED BY <2>1, <2>2
<1>4. CASE NewStorage
  <2>1. pc = "valid" /\ NoConflicts /\ UNCHANGED match
    BY <1>4 DEF NewStorage
  <2>2. ~Duplicated
    BY <2>1 DEF NoConflicts, Duplicated, IndexedMatch
  <2>3. pc' = "serving"
    BY <1>4, <2>2 DEF NewStorage
  <2>4. static' \in Seq(Keys) /\ Ordered("static", static')
    <3>1. PICK s \in SetToSeqs(KeysOf(Groups \ Automatic)) : static' = SortStableFunc("static", s)
      BY <1>4 DEF NewStorage
    <3>2. PICK K : K = KeysOf(Groups \ Automatic)
      OBVIOUS
    <3>3. IsFiniteSet(K) /\ K \subseteq Keys
      BY <3>2, KeysFinite
    <3>4. "static" \in Kinds /\ s \in SetToSeqs(K) /\ K \in SUBSET Keys
      BY <3>1, <3>2, <3>3, Zenon DEF Kinds
    <3>5. SortStableFunc("static", s) \in Seq(Keys) /\ Ordered("static", SortStableFunc("static", s))
      BY <3>3, <3>4, MapSorted, Zenon
    <3> QED BY <3>1, <3>5, Zenon
  <2>5. autodevice' \in Seq(Keys) /\ Ordered("autodevice", autodevice')
    <3>1. PICK s \in SetToSeqs(KeysOf(Automatic) \cup DefaultKeys) :
            autodevice' = SortStableFunc("autodevice", s)
      BY <1>4 DEF NewStorage
    <3>2. IsFiniteSet(DefaultKeys) /\ DefaultKeys \subseteq Keys
      <4>1. [prefix |-> NoPrefix, domain |-> <<>>] \in Keys
        BY DEF Keys, Domains
      <4>2. DefaultKeys = {} \/ DefaultKeys = {[prefix |-> NoPrefix, domain |-> <<>>]}
        BY DEF DefaultKeys
      <4>3. PICK d \in Keys : DefaultKeys \in {{}, {d}}
        BY <4>1, <4>2, Zenon
      <4>4. IsFiniteSet({}) /\ IsFiniteSet({d})
        BY FS_EmptySet, FS_Singleton, Zenon
      <4> QED BY <4>3, <4>4, Zenon
    <3>3. PICK K : K = KeysOf(Automatic) \cup DefaultKeys
      OBVIOUS
    <3>4. IsFiniteSet(K) /\ K \subseteq Keys
      BY <3>2, <3>3, KeysFinite, FS_Union
    <3>5. "autodevice" \in Kinds /\ s \in SetToSeqs(K) /\ K \in SUBSET Keys
      BY <3>1, <3>3, <3>4, Zenon DEF Kinds
    <3>6. /\ SortStableFunc("autodevice", s) \in Seq(Keys)
          /\ Ordered("autodevice", SortStableFunc("autodevice", s))
      BY <3>4, <3>5, MapSorted, Zenon
    <3> QED BY <3>1, <3>6, Zenon
  <2>6. Ordered("static", static)' /\ Ordered("autodevice", autodevice)'
    BY <2>4, <2>5 DEF Ordered
  <2> QED BY <2>1, <2>3, <2>4, <2>5, <2>6
<1> QED BY <1>1, <1>2, <1>3, <1>4 DEF Next

\* The invariant holds in every state.
THEOREM MatchInvariant == Spec => []MatchInv
  BY MatchStarts, MatchStep, PTL DEF Spec

----------------------------------------------------------------------------
(* What it says of the configuration and of the requests *)

\* newUpstreams never finds the duplicates that it looks for once more.
THEOREM AcceptedIsBuilt == Spec => []ValidatedBuilds
<1>1. MatchInv => ValidatedBuilds
  BY DEF MatchInv, ValidatedBuilds
<1> QED BY <1>1, MatchInvariant, PTL

\* The storage's lists are in strict order, in whichever order the maps have
\* been ranged over.
THEOREM ListsSorted == Spec => []SortedStrictly
<1>1. ASSUME MatchInv PROVE SortedStrictly
  <2>1. ASSUME NEW kind \in Kinds, NEW list \in Seq(Keys), Ordered(kind, list),
               NEW i \in 1..Len(list), NEW j \in 1..Len(list), i < j
        PROVE  Compare(kind, list[i], list[j]) < 0 /\ Compare(kind, list[j], list[i]) > 0
    <3>1. Compare(kind, list[i], list[j]) = -1
      BY <2>1 DEF Ordered
    <3>2. list[i] \in Keys /\ list[j] \in Keys
      BY ElementOfSeq
    <3>3. Compare(kind, list[j], list[i]) = 1
      BY <3>1, <3>2, CompareOrder
    <3> QED BY <3>1, <3>3
  <2>2. ASSUME NEW i \in 1..Len(static), NEW j \in 1..Len(static), i < j
        PROVE  Compare("static", static[i], static[j]) < 0 /\ Compare("static", static[j], static[i]) > 0
    BY <1>1, <2>1, <2>2 DEF MatchInv, Kinds
  <2>3. ASSUME NEW i \in 1..Len(autodevice), NEW j \in 1..Len(autodevice), i < j
        PROVE  /\ Compare("autodevice", autodevice[i], autodevice[j]) < 0
               /\ Compare("autodevice", autodevice[j], autodevice[i]) > 0
    BY <1>1, <2>1, <2>3 DEF MatchInv, Kinds
  <2> QED BY <2>2, <2>3 DEF SortedStrictly
<1> QED BY <1>1, MatchInvariant, PTL

\* The client that a request gets has the most specific of the domains that
\* match it, among those of its subnet.
THEOREM DomainMostSpecific == Spec => []MostSpecificDomain
<1>1. ASSUME MatchInv PROVE MostSpecificDomain
  <2> SUFFICES ASSUME NEW list \in {static, autodevice}, NEW a \in Addrs, NEW q \in Questions,
                      NEW i, i = FirstMatch(list, a, q), i # 0,
                      NEW j \in 1..Len(list), IsMatch(list[j], a, q), list[j].prefix = list[i].prefix
               PROVE  Len(list[j].domain) <= Len(list[i].domain)
    BY DEF MostSpecificDomain
  <2>1. PICK kind \in Kinds : list \in Seq(Keys) /\ Ordered(kind, list)
    BY <1>1 DEF MatchInv, Kinds
  <2>2. i \in 1..Len(list) /\ IsMatch(list[i], a, q) /\ i <= j
    BY <2>1, FirstMatchIs
  <2> QED BY <2>1, <2>2, FirstIsMostSpecific
<1> QED BY <1>1, MatchInvariant, PTL

\* A client without a prefix serves only what no other client matches, and a
\* static client of a single address is preferred to its subnets.
THEOREM PrefixMostSpecific == Spec => []MostSpecificPrefix
<1>1. ASSUME MatchInv PROVE MostSpecificPrefix
  <2>1. ASSUME NEW a \in Addrs, NEW q \in Questions, NEW list \in {static, autodevice},
               NEW i, i = FirstMatch(list, a, q), i # 0, list[i].prefix = NoPrefix,
               NEW j \in 1..Len(list), IsMatch(list[j], a, q)
        PROVE  list[j].prefix = NoPrefix
    <3>1. PICK kind \in Kinds : list \in Seq(Keys) /\ Ordered(kind, list)
      BY <1>1 DEF MatchInv, Kinds
    <3>2. i \in 1..Len(list) /\ IsMatch(list[i], a, q) /\ i <= j
      BY <2>1, <3>1, FirstMatchIs
    <3> QED BY <2>1, <3>1, <3>2, FirstIsMostSpecific
  <2>2. ASSUME NEW a \in Addrs, NEW q \in Questions, NEW i, i = FirstMatch(static, a, q),
               NEW j \in 1..Len(static), IsMatch(static[j], a, q),
               static[j].prefix # NoPrefix, IsSingleIP(static[j].prefix)
        PROVE  static[i].prefix = static[j].prefix
    <3>1. static \in Seq(Keys) /\ Ordered("static", static) /\ "static" \in Kinds
      BY <1>1 DEF MatchInv, Kinds
    <3>2. i \in 1..Len(static) /\ IsMatch(static[i], a, q) /\ i <= j
      BY <2>2, <3>1, FirstMatchIs
    <3> QED BY <2>2, <3>1, <3>2, FirstIsMostSpecific
  <2> QED BY <2>1, <2>2 DEF MostSpecificPrefix
<1> QED BY <1>1, MatchInvariant, PTL
==============================================================================
