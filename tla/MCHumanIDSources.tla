--------------------------- MODULE MCHumanIDSources --------------------------
(***************************************************************************)
(* Instances of HumanIDSources for TLC: two addresses that compete for two *)
(* IDs, with responses of up to two records.                               *)
(***************************************************************************)
EXTENDS HumanIDSources, TLC

Symmetry == Permutations(Addrs) \cup Permutations(HumanIDs)
==============================================================================
