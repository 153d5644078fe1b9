----------------------------- MODULE MCMigrator -----------------------------
(***************************************************************************)
(* Instance of Migrator for TLC.                                           *)
(***************************************************************************)
EXTENDS Migrator

\* Every configuration: all versions, all combinations of keys.
AllConfs == Confs
=============================================================================
