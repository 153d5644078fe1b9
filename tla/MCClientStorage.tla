-------------------------- MODULE MCClientStorage --------------------------
(***************************************************************************)
(* Instances of ClientStorage for TLC.                                     *)
(***************************************************************************)
EXTENDS ClientStorage, TLC

CONSTANTS a1, a2, q1, q2, d1, d2

\* One subnet with two domains, of which d1 is the more specific: requests for
\* q1 and q2 from one address make two clients and share an identification.
TwoDomains ==
  << [prefix |-> {a1}, domain |-> d1], [prefix |-> {a1}, domain |-> d2] >>

\* Two subnets that have the domain in common, so that searches for different
\* configurations have the same domain in their keys.
TwoPrefixes ==
  << [prefix |-> {a1}, domain |-> d2], [prefix |-> {a1, a2}, domain |-> d2] >>

\* d1 covers q1 and its parent d2 covers both questions.
CoversBoth == {<<q1, d1>>, <<q1, d2>>, <<q2, d2>>}

CoversOne == {<<q2, d2>>}

NoStatic == {}

ReqSymmetry == Permutations(Reqs)
============================================================================
