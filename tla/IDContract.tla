----------------------------- MODULE IDContract -----------------------------
(***************************************************************************)
(* What the client storage expects of client.HumanIDSource                 *)
(* (internal/client/humanidsource.go), whichever source it is given: the   *)
(* sources of HumanIDSources implement this specification, and             *)
(* ClientStorage takes its answers from it.                                *)
(*                                                                         *)
(* The interface does not ask for more than an ID with the time until      *)
(* which it is valid.  That an ID is not taken back, by an answer for the  *)
(* same address that shortens it, is not written there; the storage needs  *)
(* it, for it remembers the last answer only.  An answer may be past its   *)
(* time when it arrives.                                                   *)
(***************************************************************************)
EXTENDS Naturals

CONSTANTS
  Addrs, IDs,
  Times,        \* the times an answer may be valid until
  MaxValidity   \* the longest time it may be valid for

VARIABLES
  clock,
  given   \* the answers for each address that have not expired

Hids == [id : IDs, until : Times]

Init == clock = 0 /\ given = [a \in Addrs |-> {}]

\* h may be the answer for a.
Allowed(a, h) ==
  /\ h.until <= clock + MaxValidity
  /\ \A g \in given[a] : g.id = h.id => g.until <= h.until

\* given, with h as the last answer for a, at time t.
Given(a, h, t) ==
  [given EXCEPT ![a] = {g \in @ \cup {h} : g.until > t /\ (g.id = h.id => g = h)}]

\* given without what has expired at time t.
Unexpired(t) == [a \in Addrs |-> {g \in given[a] : g.until > t}]

\* Identify returns h.  That it may return an error, whenever it likes, needs
\* no action: nothing changes.
Answer(a, h) ==
  /\ Allowed(a, h)
  /\ given' = Given(a, h, clock)
  /\ UNCHANGED clock

Tick ==
  /\ clock' = clock + 1
  /\ given' = Unexpired(clock')

Next == Tick \/ \E a \in Addrs : \E h \in Hids : Answer(a, h)

Spec == Init /\ [][Next]_<<clock, given>>
=============================================================================
