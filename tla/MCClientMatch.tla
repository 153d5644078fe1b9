--------------------------- MODULE MCClientMatch ---------------------------
(***************************************************************************)
(* Instances of ClientMatch for TLC: group 1 has fixed upstreams, group 2  *)
(* has autodevice enabled.  Three criteria are enough for every way in     *)
(* which the comparison functions could fail to be transitive.             *)
(***************************************************************************)
EXTENDS ClientMatch

Prefix(a, b) == [addr |-> a, bits |-> b]

Subnets ==
  {NoPrefix, Prefix(0, 0), Prefix(0, 1), Prefix(2, 1), Prefix(0, 2), Prefix(1, 2)}

\* A domain, two of its subdomains, and the empty domain.
DomainNames == {<<>>, <<1>>, <<1, 1>>, <<2, 1>>}

\* All pairs of these; capitals, and a prefix with bits of an address in it.
SomeMatches ==
  [client : Subnets, domain : DomainNames, capitals : {FALSE}]
    \cup {[client |-> Prefix(0, 1), domain |-> <<1>>, capitals |-> TRUE],
          [client |-> Prefix(1, 1), domain |-> <<1>>, capitals |-> FALSE]}

\* Questions for each domain, for one below a subdomain and for the root.
SomeQuestions == DomainNames \cup {<<1, 2, 1>>, <<2>>}
============================================================================
